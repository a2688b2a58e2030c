---------------------------- MODULE SocialProofs ----------------------------
(***************************************************************************)
(* The social network for any accounts, agents, communities, posts, grants *)
(* and cases: restrictions hold and their reversal restores, appeals match *)
(* their cases, reporters are counted once, and quotas pay for drafts.     *)
(***************************************************************************)
EXTENDS Moderation, FiniteSetTheorems, TLAPS

PostStatus == {"ABSENT", "DRAFT", "PUBLISHED", "ARCHIVED"}
CommunityStatus == {"ABSENT", "ACTIVE", "ARCHIVED"}
CaseStatus == {"ABSENT", "OPEN", "IN_REVIEW", "APPEALED", "RESOLVED", "DISMISSED"}
CaseRow ==
  [status : CaseStatus,
   target : Targets \cup {NoOne}, reason : Reasons \cup {NoOne},
   assigned : Accounts \cup {NoOne}]

ModerationTypeOK ==
  /\ post \in [Posts -> PostStatus] /\ agent \in [Agents -> AgentStatus]
  /\ community \in [Communities -> CommunityStatus]
  /\ case \in [Cases -> CaseRow]
  /\ reporters \in [Cases -> SUBSET Accounts] /\ reportCount \in [Cases -> Nat]
  /\ restriction \in [Cases -> {"NONE", "ACTIVE", "REVERSED"}]
  /\ appeal \in [Cases -> {"NONE", "OPEN", "UPHELD", "OVERTURNED"}]

\* A case that was not reviewed yet has neither an action nor an appeal.
UnreviewedIsBlank ==
  \A k \in Cases : case[k].status \in {"ABSENT", "OPEN"} =>
    restriction[k] = "NONE" /\ appeal[k] = "NONE"

ReportersAreFinite == \A k \in Cases : IsFiniteSet(reporters[k])

ModerationInv ==
  /\ ModerationTypeOK /\ UnreviewedIsBlank /\ ReportersAreFinite
  /\ RestrictionHolds /\ AppealMatchesCase /\ ReportsAreCounted

\* The drafts made under a grant, which its quota has paid for.
DraftsUnder(p) == {x \in Posts : underGrant[x] = p}

QuotaInv ==
  /\ post \in [Posts -> PostStatus] /\ underGrant \in [Posts -> Grants \cup {NoOne}]
  /\ used \in [Grants -> Nat]
  /\ \A x \in Posts : post[x] = "ABSENT" => underGrant[x] = NoOne
  /\ \A p \in Grants : IsFiniteSet(DraftsUnder(p))
  /\ QuotaCoversDrafts

-----------------------------------------------------------------------------
\* What is archived stays archived outside a review.
ArchivedStays ==
  /\ post' \in [Posts -> PostStatus] /\ agent' \in [Agents -> AgentStatus]
  /\ community' \in [Communities -> CommunityStatus]
  /\ \A x \in Posts : post[x] = "ARCHIVED" => post'[x] = "ARCHIVED"
  /\ \A c \in Communities : community[c] = "ARCHIVED" => community'[c] = "ARCHIVED"

\* A post or a community is restricted when it is archived, and only then.
LEMMA LastingTarget ==
  ASSUME NEW t \in Lasting
  PROVE  /\ Restricted(t) <=> IF t \in Posts THEN post[t] = "ARCHIVED" ELSE community[t] = "ARCHIVED"
         /\ Unrestricted(t) <=>
              IF t \in Posts THEN post[t] = "PUBLISHED" ELSE community[t] = "ACTIVE"
         /\ t \notin Agents
  BY ModerationAssumption DEF Lasting, Posts, Restricted, Unrestricted

\* The cases stay as they are, and so does what they have archived.
LEMMA CasesStay ==
  ASSUME ModerationInv, UNCHANGED moderationVars, ArchivedStays
  PROVE  ModerationInv'
<1>1. /\ case' = case /\ reporters' = reporters /\ reportCount' = reportCount
      /\ restriction' = restriction /\ appeal' = appeal
  BY DEF moderationVars
<1>2. ModerationTypeOK' BY <1>1 DEF ModerationInv, ModerationTypeOK, ArchivedStays
<1>3. UnreviewedIsBlank' /\ ReportersAreFinite' /\ AppealMatchesCase' /\ ReportsAreCounted'
  BY <1>1 DEF ModerationInv, UnreviewedIsBlank, ReportersAreFinite, AppealMatchesCase,
              ReportsAreCounted
<1>4. ASSUME NEW t \in Lasting, Restricted(t) PROVE Restricted(t)'
  BY <1>4, LastingTarget DEF ArchivedStays, Lasting, Restricted
<1>5. RestrictionHolds'
  <2>1. SUFFICES ASSUME NEW k \in Cases, restriction[k] = "ACTIVE", case[k].target \in Lasting
                 PROVE  /\ Restricted(case[k].target)'
                        /\ \A l \in Cases : restriction[l] = "ACTIVE"
                                              /\ case[l].target = case[k].target => l = k
    BY <1>1 DEF RestrictionHolds
  <2>2. PICK t : t = case[k].target OBVIOUS
  <2>3. Restricted(t) BY <2>1, <2>2 DEF ModerationInv, RestrictionHolds
  <2>4. Restricted(t)' BY <1>4, <2>1, <2>2, <2>3
  <2>5. case[k].target' = t BY <1>1, <2>2
  <2> QED BY <1>1, <2>1, <2>2, <2>4, <2>5 DEF ModerationInv, RestrictionHolds
<1> QED BY <1>2, <1>3, <1>5 DEF ModerationInv

\* Identity, grants and reactions touch nothing that can be archived.
LEMMA NetworkUntouched ==
  ASSUME ModerationInv, TargetsUnchanged
  PROVE  ArchivedStays
  BY DEF ModerationInv, ModerationTypeOK, TargetsUnchanged, ArchivedStays

\* Agents and communities: an archived community is never made active again by its owner.
LEMMA GraphArchives ==
  ASSUME ModerationInv, GraphStep
  PROVE  ArchivedStays
<1> USE DEF ModerationInv, ModerationTypeOK, ArchivedStays, AgentStatus, CommunityStatus
<1>1. post' = post BY DEF GraphStep, publishVars
<1>2. CASE \E a \in Accounts, g \in Agents : CreateAgent(a, g)
  BY <1>1, <1>2 DEF CreateAgent
<1>3. CASE \E a \in Accounts, g \in Agents, s \in AgentStatus : TransitionAgentState(a, g, s)
  BY <1>1, <1>3 DEF TransitionAgentState
<1>4. CASE \E a \in Accounts, c \in Communities : CreateCommunity(a, c)
  BY <1>1, <1>4 DEF CreateCommunity
<1>5. CASE \E a \in Accounts, c \in Communities : ArchiveCommunity(a, c)
  BY <1>1, <1>5 DEF ArchiveCommunity
<1>6. CASE \E a \in Accounts, c \in Communities : JoinHuman(a, c) \/ LeaveHuman(a, c)
  BY <1>1, <1>6 DEF JoinHuman, LeaveHuman
<1>7. CASE \E a \in Accounts, c \in Communities, g \in Agents :
             JoinAgent(a, g, c) \/ LeaveAgent(a, g, c)
  BY <1>1, <1>7 DEF JoinAgent, LeaveAgent
<1> QED BY <1>2, <1>3, <1>4, <1>5, <1>6, <1>7 DEF GraphStep

\* Setting a post that is not archived leaves what is archived alone.
LEMMA PostIsSet ==
  ASSUME ModerationInv, NEW x \in Posts, NEW s \in PostStatus, post[x] # "ARCHIVED",
         post' = [post EXCEPT ![x] = s], agent' = agent, community' = community
  PROVE  ArchivedStays
  BY DEF ModerationInv, ModerationTypeOK, ArchivedStays

\* Contents and comments: none is published again once it is archived.
LEMMA PostsArchive ==
  ASSUME ModerationInv, ContentStep \/ DiscussionStep
  PROVE  ArchivedStays
<1>1. agent' = agent /\ community' = community
  BY DEF ContentStep, DiscussionStep, graphVars
<1>2. TargetsUnchanged \/ \E x \in Posts, s \in PostStatus :
                             post[x] # "ARCHIVED" /\ post' = [post EXCEPT ![x] = s]
  <2>1. ASSUME NEW a \in Accounts, NEW x \in Contents, Publish(a, x) \/ ArchiveContent(a, x)
        PROVE  \E y \in Posts, s \in PostStatus :
                 post[y] # "ARCHIVED" /\ post' = [post EXCEPT ![y] = s]
    BY <2>1 DEF Publish, ArchiveContent, SetPost, Posts, PostStatus
  <2>2. ASSUME NEW a \in Accounts, NEW k \in Comments, PublishComment(a, k) \/ ArchiveComment(a, k)
        PROVE  \E y \in Posts, s \in PostStatus :
                 post[y] # "ARCHIVED" /\ post' = [post EXCEPT ![y] = s]
    BY <2>2 DEF PublishComment, ArchiveComment, SetPost, Posts, PostStatus
  <2>3. ASSUME NEW a \in Accounts, NEW k \in Comments, NEW x \in Contents,
               CreateHumanComment(a, k, x)
        PROVE  \E y \in Posts, s \in PostStatus :
                 post[y] # "ARCHIVED" /\ post' = [post EXCEPT ![y] = s]
    BY <2>3 DEF CreateHumanComment, Posts, PostStatus
  <2>4. ASSUME NEW a \in Accounts, NEW g \in Agents, NEW x \in Contents,
               NEW c \in Communities \cup {Global}, CreateDraft(a, g, x, c)
        PROVE  \/ TargetsUnchanged
               \/ \E y \in Posts, s \in PostStatus :
                    post[y] # "ARCHIVED" /\ post' = [post EXCEPT ![y] = s]
    BY <1>1, <2>4 DEF CreateDraft, DraftUnder, Deny, TargetsUnchanged, Posts, PostStatus
  <2>5. ASSUME NEW a \in Accounts, NEW g \in Agents, NEW k \in Comments, NEW x \in Contents,
               CreateAgentCommentDraft(a, g, k, x)
        PROVE  \/ TargetsUnchanged
               \/ \E y \in Posts, s \in PostStatus :
                    post[y] # "ARCHIVED" /\ post' = [post EXCEPT ![y] = s]
    BY <1>1, <2>5 DEF CreateAgentCommentDraft, DraftUnder, Deny, TargetsUnchanged, Posts, PostStatus
  <2> QED BY <2>1, <2>2, <2>3, <2>4, <2>5 DEF ContentStep, DiscussionStep
<1> QED BY <1>1, <1>2, NetworkUntouched, PostIsSet

-----------------------------------------------------------------------------
\* A case changes its status, and perhaps its assignee, and keeps its target.
LEMMA CaseMoves ==
  ASSUME ModerationTypeOK, NEW k \in Cases, NEW s \in CaseStatus, NEW w \in Accounts \cup {NoOne},
         \/ case' = [case EXCEPT ![k].status = s]
         \/ case' = [case EXCEPT ![k].status = s, ![k].assigned = w]
  PROVE  /\ case' \in [Cases -> CaseRow]
         /\ case'[k].status = s /\ case'[k].target = case[k].target
         /\ \A l \in Cases \ {k} : case'[l] = case[l]
         /\ \A l \in Cases : case'[l].target = case[l].target
<1>1. case[k] \in CaseRow BY DEF ModerationTypeOK
<1>2. CASE case' = [case EXCEPT ![k].status = s]
  <2>1. PICK row : row = [case[k] EXCEPT !.status = s] OBVIOUS
  <2>2. row \in CaseRow /\ row.status = s /\ row.target = case[k].target
    BY <1>1, <2>1 DEF CaseRow
  <2>3. case' = [case EXCEPT ![k] = row] BY <1>2, <2>1
  <2> QED BY <2>2, <2>3 DEF ModerationTypeOK
<1>3. CASE case' = [case EXCEPT ![k].status = s, ![k].assigned = w]
  <2>1. PICK q : q = case[k] OBVIOUS
  <2>2. PICK row : row = [q EXCEPT !.status = s, !.assigned = w] OBVIOUS
  <2>3. row \in CaseRow /\ row.status = s /\ row.target = q.target
    BY <1>1, <2>1, <2>2 DEF CaseRow
  <2>4. case' = [case EXCEPT ![k] = row] BY <1>3, <2>1, <2>2 DEF ModerationTypeOK
  <2> QED BY <2>1, <2>3, <2>4 DEF ModerationTypeOK
<1> QED BY <1>2, <1>3

\* What a step must say of the cases, once nothing changed of them but their status: each
\* active restriction was active before and stands, or stands alone on its target.
LEMMA RestrictionsStand ==
  ASSUME ModerationInv, \A k \in Cases : case'[k].target = case[k].target,
         \A k \in Cases : restriction'[k] = "ACTIVE" => restriction[k] = "ACTIVE",
         TargetsUnchanged
  PROVE  RestrictionHolds'
<1>1. SUFFICES ASSUME NEW k \in Cases, NEW t \in Lasting, t = case'[k].target,
                      restriction'[k] = "ACTIVE"
               PROVE  /\ Restricted(t)'
                      /\ \A l \in Cases : restriction'[l] = "ACTIVE" /\ case'[l].target = t => l = k
  BY DEF RestrictionHolds, Restricted
<1>2. t = case[k].target /\ restriction[k] = "ACTIVE" BY <1>1
<1>3. Restricted(t) BY <1>2 DEF ModerationInv, RestrictionHolds
<1>4. Restricted(t)' BY <1>3 DEF Restricted, TargetsUnchanged
<1> QED BY <1>2, <1>4 DEF ModerationInv, RestrictionHolds

\* A report opens a case or is added to one under way, and each reporter is counted once.
LEMMA ReportKeepsInv ==
  ASSUME ModerationInv, NEW a \in Accounts, NEW t \in Targets, NEW r \in Reasons,
         CreateReport(a, t, r), TargetsUnchanged
  PROVE  ModerationInv'
<1>1. ASSUME NEW k \in CaseUnderWay(t, r), AddReport(a, k) PROVE ModerationInv'
  <2>1. k \in Cases BY DEF CaseUnderWay
  <2>2. /\ case' = case /\ restriction' = restriction /\ appeal' = appeal
        /\ reporters' = [reporters EXCEPT ![k] = @ \cup {a}]
        /\ reportCount' = [reportCount EXCEPT ![k] = IF a \in reporters[k] THEN @ ELSE @ + 1]
    BY <1>1 DEF AddReport
  <2>3. ModerationTypeOK'
    BY <2>1, <2>2 DEF ModerationInv, ModerationTypeOK, TargetsUnchanged
  <2>4. PICK S : S = reporters[k] OBVIOUS
  <2>5. IsFiniteSet(S) /\ reportCount[k] = Cardinality(S) /\ reportCount[k] \in Nat
    BY <2>1, <2>4 DEF ModerationInv, ModerationTypeOK, ReportersAreFinite, ReportsAreCounted
  <2>6. /\ IsFiniteSet(S \cup {a})
        /\ Cardinality(S \cup {a}) = IF a \in S THEN Cardinality(S) ELSE Cardinality(S) + 1
    BY <2>5, FS_AddElement
  <2>7. /\ reporters'[k] = S \cup {a} /\ \A l \in Cases \ {k} : reporters'[l] = reporters[l]
        /\ reportCount'[k] = Cardinality(S \cup {a})
        /\ \A l \in Cases \ {k} : reportCount'[l] = reportCount[l]
    BY <2>1, <2>2, <2>4, <2>5, <2>6 DEF ModerationInv, ModerationTypeOK
  <2>8. ReportersAreFinite' BY <2>6, <2>7 DEF ModerationInv, ReportersAreFinite
  <2>9. ReportsAreCounted'
    <3>1. ASSUME NEW l \in Cases PROVE reportCount'[l] = Cardinality(reporters'[l])
      <4>1. CASE l = k BY <2>7, <4>1
      <4>2. CASE l # k
        <5>1. reportCount'[l] = reportCount[l] /\ reporters'[l] = reporters[l] BY <2>7, <4>2
        <5>2. reportCount[l] = Cardinality(reporters[l]) BY DEF ModerationInv, ReportsAreCounted
        <5> QED BY <5>1, <5>2, Zenon
      <4> QED BY <4>1, <4>2
    <3> QED BY <3>1, Zenon DEF ReportsAreCounted
  <2>10. UnreviewedIsBlank' /\ AppealMatchesCase'
    BY <2>2 DEF ModerationInv, UnreviewedIsBlank, AppealMatchesCase
  <2>11. RestrictionHolds' BY <2>2, RestrictionsStand
  <2> QED BY <2>3, <2>8, <2>9, <2>10, <2>11 DEF ModerationInv
<1>2. ASSUME NEW k \in Cases, OpenCase(a, k, t, r) PROVE ModerationInv'
  <2> DEFINE row == [status |-> "OPEN", target |-> t, reason |-> r, assigned |-> NoOne]
  <2>1. /\ case[k].status = "ABSENT" /\ case' = [case EXCEPT ![k] = row]
        /\ reporters' = [reporters EXCEPT ![k] = {a}] /\ reportCount' = [reportCount EXCEPT ![k] = 1]
        /\ restriction' = restriction /\ appeal' = appeal
    BY <1>2 DEF OpenCase
  <2>2. row \in CaseRow /\ row.status = "OPEN" BY DEF CaseRow, CaseStatus
  <2> HIDE DEF row
  <2>3. case'[k] = row /\ \A l \in Cases \ {k} : case'[l] = case[l]
    BY <2>1 DEF ModerationInv, ModerationTypeOK
  <2>4. restriction[k] = "NONE" /\ appeal[k] = "NONE"
    BY <2>1 DEF ModerationInv, UnreviewedIsBlank
  <2>5. ModerationTypeOK' BY <2>1, <2>2 DEF ModerationInv, ModerationTypeOK, TargetsUnchanged
  <2>6. IsFiniteSet({a}) /\ Cardinality({a}) = 1 BY FS_Singleton
  <2>7. /\ reporters'[k] = {a} /\ \A l \in Cases \ {k} : reporters'[l] = reporters[l]
        /\ reportCount'[k] = 1 /\ \A l \in Cases \ {k} : reportCount'[l] = reportCount[l]
    BY <2>1 DEF ModerationInv, ModerationTypeOK
  <2>8. ReportersAreFinite' BY <2>6, <2>7 DEF ModerationInv, ReportersAreFinite
  <2>9. ReportsAreCounted'
    <3>1. ASSUME NEW l \in Cases PROVE reportCount'[l] = Cardinality(reporters'[l])
      <4>1. CASE l = k BY <2>6, <2>7, <4>1, Zenon
      <4>2. CASE l # k
        <5>1. reportCount'[l] = reportCount[l] /\ reporters'[l] = reporters[l] BY <2>7, <4>2
        <5>2. reportCount[l] = Cardinality(reporters[l]) BY DEF ModerationInv, ReportsAreCounted
        <5> QED BY <5>1, <5>2, Zenon
      <4> QED BY <4>1, <4>2
    <3> QED BY <3>1, Zenon DEF ReportsAreCounted
  <2>10. UnreviewedIsBlank'
    BY <2>1, <2>3, <2>4 DEF ModerationInv, UnreviewedIsBlank
  <2>11. AppealMatchesCase'
    BY <2>1, <2>2, <2>3, <2>4 DEF ModerationInv, AppealMatchesCase
  <2>12. RestrictionHolds'
    <3>1. SUFFICES ASSUME NEW j \in Cases, NEW u \in Lasting, u = case'[j].target,
                          restriction'[j] = "ACTIVE"
                   PROVE  /\ Restricted(u)'
                          /\ \A l \in Cases : restriction'[l] = "ACTIVE" /\ case'[l].target = u
                               => l = j
      BY DEF RestrictionHolds, Restricted
    <3>2. j # k /\ restriction[j] = "ACTIVE" /\ u = case[j].target BY <2>1, <2>3, <2>4, <3>1
    <3>3. Restricted(u) BY <3>1, <3>2 DEF ModerationInv, RestrictionHolds
    <3>4. Restricted(u)' BY <3>3 DEF Restricted, TargetsUnchanged
    <3> QED BY <2>1, <2>3, <2>4, <3>1, <3>2, <3>4 DEF ModerationInv, RestrictionHolds
  <2> QED BY <2>5, <2>8, <2>9, <2>10, <2>11, <2>12 DEF ModerationInv
<1> QED BY <1>1, <1>2 DEF CreateReport

\* A case is claimed, resolved without an action, dismissed or appealed: no target and no
\* restriction changes.
LEMMA ReviewKeepsInv ==
  ASSUME ModerationInv, NEW o \in Accounts, NEW k \in Cases, TargetsUnchanged,
         ClaimCase(o, k) \/ ResolveWithoutAction(o, k) \/ DismissCase(o, k) \/ CreateAppeal(o, k)
  PROVE  ModerationInv'
<1>1. /\ reporters' = reporters /\ reportCount' = reportCount /\ restriction' = restriction
      /\ \E s \in CaseStatus, w \in Accounts \cup {NoOne} :
           \/ case' = [case EXCEPT ![k].status = s]
           \/ case' = [case EXCEPT ![k].status = s, ![k].assigned = w]
  BY DEF ClaimCase, ResolveWithoutAction, DismissCase, CreateAppeal, Settle, CaseStatus
<1>2. /\ case' \in [Cases -> CaseRow]
      /\ \A l \in Cases \ {k} : case'[l] = case[l]
      /\ \A l \in Cases : case'[l].target = case[l].target
  BY <1>1, CaseMoves DEF ModerationInv
<1>3. appeal' \in [Cases -> {"NONE", "OPEN", "UPHELD", "OVERTURNED"}]
  BY DEF ClaimCase, ResolveWithoutAction, DismissCase, CreateAppeal, ModerationInv, ModerationTypeOK
<1>4. ModerationTypeOK' BY <1>1, <1>2, <1>3 DEF ModerationInv, ModerationTypeOK, TargetsUnchanged
<1>5. ReportersAreFinite' /\ ReportsAreCounted'
  BY <1>1 DEF ModerationInv, ReportersAreFinite, ReportsAreCounted
<1>6. RestrictionHolds' BY <1>1, <1>2, RestrictionsStand
<1>7. \A l \in Cases \ {k} : appeal'[l] = appeal[l]
  BY DEF ClaimCase, ResolveWithoutAction, DismissCase, CreateAppeal, ModerationInv, ModerationTypeOK
<1>8. ASSUME \/ case'[k].status = "APPEALED" /\ appeal'[k] = "OPEN" /\ restriction[k] = "ACTIVE"
             \/ case'[k].status = "IN_REVIEW" /\ appeal'[k] = appeal[k]
                  /\ (appeal[k] = "OPEN" <=> restriction[k] = "ACTIVE")
             \/ case'[k].status \in {"RESOLVED", "DISMISSED"} /\ appeal'[k] # "OPEN"
      PROVE  ModerationInv'
  <2>1. UnreviewedIsBlank' BY <1>1, <1>2, <1>7, <1>8 DEF ModerationInv, UnreviewedIsBlank
  <2>2. AppealMatchesCase' BY <1>1, <1>2, <1>7, <1>8 DEF ModerationInv, AppealMatchesCase
  <2> QED BY <1>4, <1>5, <1>6, <2>1, <2>2 DEF ModerationInv
<1>9. CASE ClaimCase(o, k)
  <2>1. case[k].status \in UnderWay /\ appeal' = appeal BY <1>9 DEF ClaimCase
  <2>2. case'[k].status = "IN_REVIEW"
    BY <1>9, CaseMoves DEF ClaimCase, ModerationInv, CaseStatus
  <2>3. appeal[k] = "OPEN" <=> restriction[k] = "ACTIVE"
    BY <2>1 DEF ModerationInv, AppealMatchesCase, UnreviewedIsBlank, UnderWay
  <2> QED BY <1>8, <2>1, <2>2, <2>3
<1>10. CASE ResolveWithoutAction(o, k)
  <2>1. case'[k].status = "RESOLVED"
    BY <1>10, CaseMoves DEF ResolveWithoutAction, Settle, ModerationInv, CaseStatus
  <2>2. appeal'[k] # "OPEN"
    BY <1>10 DEF ResolveWithoutAction, ModerationInv, ModerationTypeOK
  <2> QED BY <1>8, <2>1, <2>2
<1>11. CASE DismissCase(o, k)
  <2>1. case'[k].status = "DISMISSED" /\ appeal'[k] # "OPEN"
    BY <1>11, CaseMoves DEF DismissCase, Settle, ModerationInv, CaseStatus
  <2> QED BY <1>8, <2>1
<1>12. CASE CreateAppeal(o, k)
  <2>1. case'[k].status = "APPEALED"
    BY <1>12, CaseMoves DEF CreateAppeal, ModerationInv, CaseStatus
  <2>2. appeal'[k] = "OPEN" /\ restriction[k] = "ACTIVE"
    BY <1>12 DEF CreateAppeal, ModerationInv, ModerationTypeOK
  <2> QED BY <1>8, <2>1, <2>2
<1> QED BY <1>9, <1>10, <1>11, <1>12

-----------------------------------------------------------------------------
\* What a restriction and its reversal write to a post or a community.
LEMMA TargetIsSet ==
  ASSUME ModerationTypeOK, NEW t, NEW s \in {"PUBLISHED", "ARCHIVED"},
         NEW up \in {"ACTIVE", "PAUSED"}, s = "PUBLISHED" <=> up = "ACTIVE", SetTarget(t, s, up)
  PROVE  /\ post' \in [Posts -> PostStatus] /\ agent' \in [Agents -> AgentStatus]
         /\ community' \in [Communities -> CommunityStatus]
         /\ t \in Lasting => IF s = "PUBLISHED" THEN Unrestricted(t)' ELSE Restricted(t)'
         /\ \A u \in Lasting \ {t} : Restricted(u)' <=> Restricted(u)
<1>1. /\ post' = IF t \in Posts THEN [post EXCEPT ![t] = s] ELSE post
      /\ agent' = IF t \in Agents THEN [agent EXCEPT ![t] = up] ELSE agent
      /\ community' = IF t \in Communities
                      THEN [community EXCEPT ![t] = IF up = "ACTIVE" THEN up ELSE "ARCHIVED"]
                      ELSE community
  BY DEF SetTarget
<1>2. /\ post' \in [Posts -> PostStatus] /\ agent' \in [Agents -> AgentStatus]
      /\ community' \in [Communities -> CommunityStatus]
  BY <1>1 DEF ModerationTypeOK, PostStatus, AgentStatus, CommunityStatus
<1>3. t \in Lasting => IF s = "PUBLISHED" THEN Unrestricted(t)' ELSE Restricted(t)'
  BY <1>1, ModerationAssumption DEF ModerationTypeOK, Lasting, Posts, Restricted, Unrestricted
<1>4. \A u \in Lasting \ {t} : Restricted(u)' <=> Restricted(u)
  BY <1>1, ModerationAssumption DEF ModerationTypeOK, Lasting, Posts, Restricted
<1> QED BY <1>2, <1>3, <1>4

\* A restricting resolution archives its target, which no other restriction holds then:
\* what another one held would be archived already.
LEMMA RestrictKeepsInv ==
  ASSUME ModerationInv, NEW o \in Accounts, NEW k \in Cases, ResolveRestricting(o, k)
  PROVE  ModerationInv'
<1>1. PICK t : t = case[k].target OBVIOUS
<1>2. /\ case[k].status = "IN_REVIEW" /\ appeal[k] # "OPEN" /\ Unrestricted(t)
      /\ SetTarget(t, "ARCHIVED", "PAUSED")
      /\ restriction' = [restriction EXCEPT ![k] = "ACTIVE"]
      /\ case' = [case EXCEPT ![k].status = "RESOLVED"]
      /\ reporters' = reporters /\ reportCount' = reportCount /\ appeal' = appeal
  BY <1>1 DEF ResolveRestricting, AssignedReview, ApplyRestrictiveAction, Settle
<1>3. /\ case' \in [Cases -> CaseRow] /\ case'[k].status = "RESOLVED"
      /\ \A l \in Cases \ {k} : case'[l] = case[l]
      /\ \A l \in Cases : case'[l].target = case[l].target
  BY <1>2, CaseMoves DEF ModerationInv, CaseStatus
<1>4. /\ post' \in [Posts -> PostStatus] /\ agent' \in [Agents -> AgentStatus]
      /\ community' \in [Communities -> CommunityStatus]
      /\ t \in Lasting => Restricted(t)'
      /\ \A u \in Lasting \ {t} : Restricted(u)' <=> Restricted(u)
  BY <1>2, TargetIsSet DEF ModerationInv
<1>5. /\ restriction' \in [Cases -> {"NONE", "ACTIVE", "REVERSED"}] /\ restriction'[k] = "ACTIVE"
      /\ \A l \in Cases \ {k} : restriction'[l] = restriction[l]
  BY <1>2 DEF ModerationInv, ModerationTypeOK
<1>6. ModerationTypeOK' BY <1>2, <1>3, <1>4, <1>5 DEF ModerationInv, ModerationTypeOK
<1>7. UnreviewedIsBlank' BY <1>2, <1>3, <1>5 DEF ModerationInv, UnreviewedIsBlank
<1>8. AppealMatchesCase' BY <1>2, <1>3, <1>5 DEF ModerationInv, AppealMatchesCase
<1>9. ReportersAreFinite' /\ ReportsAreCounted'
  BY <1>2 DEF ModerationInv, ReportersAreFinite, ReportsAreCounted
<1>10. ASSUME NEW l \in Cases, restriction[l] = "ACTIVE", case[l].target \in Lasting
       PROVE  case[l].target # t
  <2>1. PICK u : u = case[l].target OBVIOUS
  <2>2. u \in Lasting /\ Restricted(u) BY <1>10, <2>1 DEF ModerationInv, RestrictionHolds
  <2>3. ~Unrestricted(u)
    BY <2>2, ModerationAssumption DEF Restricted, Unrestricted, Lasting, Posts
  <2> QED BY <1>2, <2>1, <2>3
<1>11. RestrictionHolds'
  <2>1. SUFFICES ASSUME NEW j \in Cases, NEW u \in Lasting, u = case'[j].target,
                        restriction'[j] = "ACTIVE"
                 PROVE  /\ Restricted(u)'
                        /\ \A l \in Cases : restriction'[l] = "ACTIVE" /\ case'[l].target = u
                             => l = j
    BY DEF RestrictionHolds, Restricted
  <2>2. CASE j = k
    <3>1. u = t BY <1>1, <1>3, <2>1, <2>2
    <3> QED BY <1>3, <1>4, <1>5, <1>10, <2>1, <2>2, <3>1
  <2>3. CASE j # k
    <3>1. restriction[j] = "ACTIVE" /\ u = case[j].target BY <1>3, <1>5, <2>1, <2>3
    <3>2. u # t /\ Restricted(u)
      BY <1>10, <2>1, <3>1 DEF ModerationInv, RestrictionHolds
    <3>3. Restricted(u)' BY <1>4, <2>1, <3>2
    <3> QED BY <1>1, <1>3, <1>5, <2>1, <3>1, <3>2, <3>3 DEF ModerationInv, RestrictionHolds
  <2> QED BY <2>2, <2>3
<1> QED BY <1>6, <1>7, <1>8, <1>9, <1>11 DEF ModerationInv

\* A reversal restores its own target and no other's.
LEMMA ReverseKeepsInv ==
  ASSUME ModerationInv, NEW o \in Accounts, NEW k \in Cases, ReverseCase(o, k)
  PROVE  /\ ModerationInv'
         /\ case[k].target \in Lasting => Unrestricted(case[k].target)'
<1>1. PICK t : t = case[k].target OBVIOUS
<1>2. /\ case[k].status = "IN_REVIEW" /\ appeal[k] = "OPEN" /\ restriction[k] = "ACTIVE"
      /\ IF Restricted(t) THEN SetTarget(t, "PUBLISHED", "ACTIVE") ELSE TargetsUnchanged
      /\ restriction' = [restriction EXCEPT ![k] = "REVERSED"]
      /\ appeal' = [appeal EXCEPT ![k] = "OVERTURNED"]
      /\ case' = [case EXCEPT ![k].status = "RESOLVED"]
      /\ reporters' = reporters /\ reportCount' = reportCount
  BY <1>1 DEF ReverseCase, AssignedReview, Lift, Settle
<1>3. /\ case' \in [Cases -> CaseRow] /\ case'[k].status = "RESOLVED"
      /\ \A l \in Cases \ {k} : case'[l] = case[l]
      /\ \A l \in Cases : case'[l].target = case[l].target
  BY <1>2, CaseMoves DEF ModerationInv, CaseStatus
<1>4. /\ post' \in [Posts -> PostStatus] /\ agent' \in [Agents -> AgentStatus]
      /\ community' \in [Communities -> CommunityStatus]
      /\ t \in Lasting => Unrestricted(t)'
      /\ \A u \in Lasting \ {t} : Restricted(u)' <=> Restricted(u)
  <2>1. CASE Restricted(t) BY <1>2, <2>1, TargetIsSet DEF ModerationInv
  <2>2. CASE ~Restricted(t)
    <3>1. t \notin Lasting BY <1>1, <1>2, <2>2 DEF ModerationInv, RestrictionHolds
    <3>2. post' = post /\ agent' = agent /\ community' = community
      BY <1>2, <2>2 DEF TargetsUnchanged
    <3> QED BY <3>1, <3>2 DEF ModerationInv, ModerationTypeOK, Restricted
  <2> QED BY <2>1, <2>2
<1>5. /\ restriction' \in [Cases -> {"NONE", "ACTIVE", "REVERSED"}] /\ restriction'[k] = "REVERSED"
      /\ \A l \in Cases \ {k} : restriction'[l] = restriction[l]
      /\ appeal' \in [Cases -> {"NONE", "OPEN", "UPHELD", "OVERTURNED"}]
      /\ appeal'[k] = "OVERTURNED" /\ \A l \in Cases \ {k} : appeal'[l] = appeal[l]
  BY <1>2 DEF ModerationInv, ModerationTypeOK
<1>6. ModerationTypeOK' BY <1>2, <1>3, <1>4, <1>5 DEF ModerationInv, ModerationTypeOK
<1>7. UnreviewedIsBlank' BY <1>2, <1>3, <1>5 DEF ModerationInv, UnreviewedIsBlank
<1>8. AppealMatchesCase' BY <1>2, <1>3, <1>5 DEF ModerationInv, AppealMatchesCase
<1>9. ReportersAreFinite' /\ ReportsAreCounted'
  BY <1>2 DEF ModerationInv, ReportersAreFinite, ReportsAreCounted
<1>10. RestrictionHolds'
  <2>1. SUFFICES ASSUME NEW j \in Cases, NEW u \in Lasting, u = case'[j].target,
                        restriction'[j] = "ACTIVE"
                 PROVE  /\ Restricted(u)'
                        /\ \A l \in Cases : restriction'[l] = "ACTIVE" /\ case'[l].target = u
                             => l = j
    BY DEF RestrictionHolds, Restricted
  <2>2. j # k /\ restriction[j] = "ACTIVE" /\ u = case[j].target BY <1>3, <1>5, <2>1
  <2>3. u # t /\ Restricted(u)
    BY <1>1, <1>2, <2>1, <2>2 DEF ModerationInv, RestrictionHolds
  <2>4. Restricted(u)' BY <1>4, <2>1, <2>3
  <2> QED BY <1>3, <1>5, <2>1, <2>2, <2>4 DEF ModerationInv, RestrictionHolds
<1>11. ModerationInv' BY <1>6, <1>7, <1>8, <1>9, <1>10 DEF ModerationInv
<1>12. case'[k].target = t BY <1>1, <1>3
<1>13. t \in Lasting => Unrestricted(case[k].target)'
  BY <1>4, <1>12 DEF Unrestricted
<1> QED BY <1>1, <1>11, <1>13

-----------------------------------------------------------------------------
\* Each step of the network keeps the invariant of the cases.
LEMMA ReviewStepKeepsInv ==
  ASSUME ModerationInv, ReviewStep
  PROVE  ModerationInv'
<1>1. CASE \E a \in Accounts, t \in Targets, r \in Reasons : CreateReport(a, t, r) /\ TargetsUnchanged
  BY <1>1, ReportKeepsInv
<1>2. CASE \E o \in Accounts, k \in Cases : ClaimCase(o, k) /\ TargetsUnchanged
  BY <1>2, ReviewKeepsInv
<1>3. CASE \E o \in Accounts, k \in Cases : ResolveRestricting(o, k)
  BY <1>3, RestrictKeepsInv
<1>4. CASE \E o \in Accounts, k \in Cases : ReverseCase(o, k)
  BY <1>4, ReverseKeepsInv
<1>5. CASE \E o \in Accounts, k \in Cases :
             ResolveWithoutAction(o, k) \/ DismissCase(o, k) \/ CreateAppeal(o, k)
  <2>1. PICK o \in Accounts, k \in Cases :
               ResolveWithoutAction(o, k) \/ DismissCase(o, k) \/ CreateAppeal(o, k)
    BY <1>5
  <2>2. TargetsUnchanged BY <2>1 DEF ResolveWithoutAction, DismissCase, CreateAppeal
  <2> QED BY <2>1, <2>2, ReviewKeepsInv
<1> QED BY <1>1, <1>2, <1>3, <1>4, <1>5 DEF ReviewStep

\* Any step of the network keeps the invariant: outside a review nothing archived comes back.
LEMMA SocialStepKeepsInv ==
  ASSUME ModerationInv, [SocialNext]_socialVars
  PROVE  ModerationInv'
<1>1. ASSUME UNCHANGED publishVars, UNCHANGED <<agent, community>> PROVE ArchivedStays
  BY <1>1, NetworkUntouched DEF publishVars, TargetsUnchanged
<1>2. CASE IdentityStep
  <2>1. UNCHANGED <<publishVars, moderationVars>> BY <1>2 DEF IdentityStep
  <2>2. UNCHANGED <<agent, community>>
    BY <1>2 DEF IdentityStep, RegisterHumanAccount, VerifyPassword, CreateSession, RevokeSession,
                Admit, Answered, AnonymizeAccount, WithdrawRole
  <2> QED BY <1>1, <2>1, <2>2, CasesStay
<1>3. CASE GraphStep BY <1>3, GraphArchives, CasesStay DEF GraphStep
<1>4. CASE GrantStep
  <2>1. UNCHANGED <<graphVars, moderationVars>> BY <1>4 DEF GrantStep
  <2>2. post' = post
    BY <1>4 DEF GrantStep, GrantLapses, GrantPermission, RevokePermission, EvaluatePermission
  <2> QED BY <2>1, <2>2, NetworkUntouched, CasesStay DEF graphVars, TargetsUnchanged
<1>5. CASE ContentStep \/ DiscussionStep
  BY <1>5, PostsArchive, CasesStay DEF ContentStep, DiscussionStep
<1>6. CASE ReactionStep
  <2>1. UNCHANGED <<graphVars, moderationVars>> BY <1>6 DEF ReactionStep
  <2>2. post' = post BY <1>6 DEF ReactionStep, React
  <2> QED BY <2>1, <2>2, NetworkUntouched, CasesStay DEF graphVars, TargetsUnchanged
<1>7. CASE ReviewStep BY <1>7, ReviewStepKeepsInv
<1>8. CASE UNCHANGED socialVars
  BY <1>8, NetworkUntouched, CasesStay DEF socialVars, graphVars, publishVars, TargetsUnchanged
<1> QED BY <1>2, <1>3, <1>4, <1>5, <1>6, <1>7, <1>8 DEF SocialNext

\* The empty network satisfies it.
LEMMA SocialInitInv ==
  ASSUME SocialInit
  PROVE  ModerationInv
<1> USE DEF SocialInit, ModerationInit, NoCase
<1>1. post = [x \in Posts |-> "ABSENT"] BY DEF PublishInit, PublishBlank
<1>2. ModerationTypeOK
  BY <1>1 DEF ModerationTypeOK, PostStatus, AgentStatus, CommunityStatus, CaseRow, CaseStatus
<1>3. UnreviewedIsBlank BY DEF UnreviewedIsBlank
<1>4. ReportersAreFinite BY FS_EmptySet DEF ReportersAreFinite
<1>5. RestrictionHolds BY DEF RestrictionHolds
<1>6. AppealMatchesCase BY DEF AppealMatchesCase
<1>7. ReportsAreCounted
  <2>1. \A k \in Cases : reportCount[k] = 0 /\ reporters[k] = {} OBVIOUS
  <2>2. Cardinality({}) = 0 BY FS_EmptySet
  <2> QED BY <2>1, <2>2, Zenon DEF ReportsAreCounted
<1> QED BY <1>2, <1>3, <1>4, <1>5, <1>6, <1>7 DEF ModerationInv

\* The invariant of the cases holds of every state of the network.
LEMMA ModerationInvHolds == SocialSpec => []ModerationInv
  BY SocialInitInv, SocialStepKeepsInv, PTL DEF SocialSpec

\* As long as an action on a post or a community has not been reversed its target stays
\* archived, and no other action is on it (applyRestrictiveAction, reverseCase).
THEOREM RestrictionsLast == SocialSpec => []RestrictionHolds
<1>1. ModerationInv => RestrictionHolds BY DEF ModerationInv
<1> QED BY <1>1, ModerationInvHolds, PTL

\* An appeal is open while its case is appealed or reviewed again, about an action that
\* stands (createAppeal, reverseCase, resolveCase).
THEOREM AppealsMatchCases == SocialSpec => []AppealMatchesCase
<1>1. ModerationInv => AppealMatchesCase BY DEF ModerationInv
<1> QED BY <1>1, ModerationInvHolds, PTL

\* A case counts its reporters, each once (createReport).
THEOREM ReportsAreCountedOnce == SocialSpec => []ReportsAreCounted
<1>1. ModerationInv => ReportsAreCounted BY DEF ModerationInv
<1> QED BY <1>1, ModerationInvHolds, PTL

-----------------------------------------------------------------------------
\* Only a reversal decides an appeal for the appellant.
LEMMA OnlyReversalOverturns ==
  ASSUME ModerationInv, [SocialNext]_socialVars, NEW k \in Cases,
         appeal'[k] = "OVERTURNED", appeal[k] # "OVERTURNED"
  PROVE  \E o \in Accounts : ReverseCase(o, k)
<1>1. ~ UNCHANGED appeal OBVIOUS
<1>2. ReviewStep
  BY <1>1 DEF SocialNext, IdentityStep, GraphStep, GrantStep, ContentStep, DiscussionStep,
              ReactionStep, socialVars, moderationVars
<1>3. PICK o \in Accounts, l \in Cases :
        ResolveWithoutAction(o, l) \/ CreateAppeal(o, l) \/ ReverseCase(o, l)
  BY <1>1, <1>2 DEF ReviewStep, CreateReport, AddReport, OpenCase, ClaimCase, ResolveRestricting,
                    DismissCase
<1>4. CASE ResolveWithoutAction(o, l)
  BY <1>4 DEF ResolveWithoutAction, ModerationInv, ModerationTypeOK
<1>5. CASE CreateAppeal(o, l)
  BY <1>5 DEF CreateAppeal, ModerationInv, ModerationTypeOK
<1>6. CASE ReverseCase(o, l)
  <2>1. l = k BY <1>6 DEF ReverseCase, ModerationInv, ModerationTypeOK
  <2> QED BY <1>6, <2>1
<1> QED BY <1>3, <1>4, <1>5, <1>6

\* An appeal decided for the appellant restores its post or community in the same step
\* (reverseCase): what the case archived is still as the case left it.
THEOREM OverturnedAppealRestores == SocialSpec => OverturnedRestores
<1>1. ASSUME ModerationInv, [SocialNext]_socialVars
      PROVE  [\A k \in Cases :
                appeal'[k] = "OVERTURNED" /\ appeal[k] # "OVERTURNED" /\ case[k].target \in Lasting
                   => Unrestricted(case[k].target)']_socialVars
  BY <1>1, OnlyReversalOverturns, ReverseKeepsInv
<1> QED BY <1>1, ModerationInvHolds, PTL DEF SocialSpec, OverturnedRestores

\* Reports, decisions and appeals leave a revoked agent revoked: an agent is paused when it
\* is active and set free when it is paused.
LEMMA ReviewsSpareRevoked ==
  ASSUME ModerationInv, ReviewStep, NEW g \in Agents, agent[g] = "REVOKED"
  PROVE  agent'[g] = "REVOKED"
<1>1. CASE TargetsUnchanged BY <1>1 DEF TargetsUnchanged
<1>2. ASSUME NEW t, Restricted(t) \/ Unrestricted(t),
             NEW s, NEW up, SetTarget(t, s, up)
      PROVE  agent'[g] = "REVOKED"
  BY <1>2, ModerationAssumption
     DEF SetTarget, Restricted, Unrestricted, ModerationInv, ModerationTypeOK, Posts
<1>3. ASSUME NEW o \in Accounts, NEW k \in Cases, ResolveRestricting(o, k)
      PROVE  agent'[g] = "REVOKED"
  BY <1>2, <1>3 DEF ResolveRestricting, ApplyRestrictiveAction
<1>4. ASSUME NEW o \in Accounts, NEW k \in Cases, ReverseCase(o, k)
      PROVE  agent'[g] = "REVOKED"
  BY <1>1, <1>2, <1>4 DEF ReverseCase, Lift
<1> QED BY <1>1, <1>3, <1>4 DEF ReviewStep, ResolveWithoutAction, DismissCase, CreateAppeal

\* A revoked agent never comes back, whatever cases, appeals and reversals are about it
\* (reverseRestrictiveAction, agent-state.ts).
THEOREM RevocationLasts == SocialSpec => RevokedStaysRevoked
<1>1. ASSUME ModerationInv, [SocialNext]_socialVars, NEW g \in Agents, agent[g] = "REVOKED"
      PROVE  agent'[g] = "REVOKED"
  <2>1. CASE UNCHANGED agent BY <1>1, <2>1
  <2>2. CASE GraphStep
    <3>1. CASE \E a \in Accounts, h \in Agents : CreateAgent(a, h)
      BY <1>1, <3>1 DEF CreateAgent, ModerationInv, ModerationTypeOK
    <3>2. CASE \E a \in Accounts, h \in Agents, s \in AgentStatus : TransitionAgentState(a, h, s)
      BY <1>1, <3>2 DEF TransitionAgentState, ResponsibleTransitions, ModerationInv,
                        ModerationTypeOK
    <3> QED BY <1>1, <2>1, <2>2, <3>1, <3>2
            DEF GraphStep, CreateCommunity, ArchiveCommunity, JoinHuman, LeaveHuman, JoinAgent,
                LeaveAgent
  <2>3. CASE ReviewStep BY <1>1, <2>3, ReviewsSpareRevoked
  <2>4. CASE IdentityStep
    BY <2>1, <2>4 DEF IdentityStep, RegisterHumanAccount, VerifyPassword, CreateSession,
                      RevokeSession, Admit, Answered, AnonymizeAccount, WithdrawRole
  <2>5. CASE GrantStep \/ ContentStep \/ DiscussionStep \/ ReactionStep
    BY <2>1, <2>5 DEF GrantStep, ContentStep, DiscussionStep, ReactionStep, graphVars
  <2> QED BY <1>1, <2>1, <2>2, <2>3, <2>4, <2>5 DEF SocialNext, socialVars, graphVars
<1>2. ASSUME ModerationInv, [SocialNext]_socialVars
      PROVE  [\A g \in Agents : agent[g] = "REVOKED" => agent'[g] = "REVOKED"]_socialVars
  BY <1>1, <1>2
<1> QED BY <1>2, ModerationInvHolds, PTL DEF SocialSpec, RevokedStaysRevoked

-----------------------------------------------------------------------------
\* A grant that allows a request has one more use under its limit.
LEMMA ConsumptionFits ==
  ASSUME QuotaInv, NEW g, NEW permission, NEW scope, NEW p \in Allowing(g, permission, scope),
         Consume(p)
  PROVE  /\ p \in Grants /\ used' \in [Grants -> Nat]
         /\ \A q \in Grants : used[q] <= used'[q]
         /\ Terms[p].limit # Unlimited => used'[p] = used[p] + 1
         /\ \A q \in Grants : Terms[q].limit # Unlimited => used'[q] <= Terms[q].limit
<1>1. p \in Grants /\ ~Exhausted(p) BY DEF Allowing, Chosen, Candidates
<1>2. used \in [Grants -> Nat] BY DEF QuotaInv
<1>3. \A q \in Grants : Terms[q].limit \in Nat BY PublishingAssumption
<1>4. \A q \in Grants : Terms[q].limit # Unlimited => used[q] <= Terms[q].limit
  BY DEF QuotaInv, QuotaCoversDrafts
<1> QED BY <1>1, <1>2, <1>3, <1>4 DEF Consume, Exhausted, Unlimited

\* What a step must say to leave the drafts as they are.
LEMMA DraftsStay ==
  ASSUME QuotaInv, underGrant' = underGrant, post' \in [Posts -> PostStatus],
         \A x \in Posts : post'[x] = "ABSENT" => post[x] = "ABSENT",
         used' \in [Grants -> Nat], \A p \in Grants : used[p] <= used'[p],
         \A p \in Grants : Terms[p].limit # Unlimited => used'[p] <= Terms[p].limit
  PROVE  QuotaInv'
<1>1. \A p \in Grants : IsFiniteSet(DraftsUnder(p)') /\ DraftsUnder(p)' = DraftsUnder(p)
  BY DEF QuotaInv, DraftsUnder
<1>2. ASSUME NEW p \in Grants, Terms[p].limit # Unlimited
      PROVE  Cardinality(DraftsUnder(p)') <= used'[p]
  <2>1. PICK n : n = Cardinality(DraftsUnder(p)) OBVIOUS
  <2>2. n <= used[p] BY <1>2, <2>1 DEF QuotaInv, QuotaCoversDrafts, DraftsUnder
  <2>3. n \in Nat BY <2>1, FS_CardinalityType DEF QuotaInv
  <2>4. n <= used'[p] BY <2>2, <2>3 DEF QuotaInv
  <2>5. DraftsUnder(p)' = DraftsUnder(p) BY <1>1
  <2> QED BY <2>1, <2>4, <2>5, Zenon
<1>3. QuotaCoversDrafts' BY <1>2 DEF QuotaCoversDrafts, DraftsUnder
<1> QED BY <1>1, <1>3 DEF QuotaInv

\* A draft is one more under its grant, whose quota pays for it in the same step.
LEMMA DraftIsPaidFor ==
  ASSUME QuotaInv, NEW g, NEW permission, NEW scope, NEW p \in Allowing(g, permission, scope),
         NEW x \in Posts, post[x] = "ABSENT", NEW y, NEW z, DraftUnder(p, x, y, z)
  PROVE  QuotaInv'
<1>1. /\ p \in Grants /\ used' \in [Grants -> Nat]
      /\ \A q \in Grants : used[q] <= used'[q]
      /\ Terms[p].limit # Unlimited => used'[p] = used[p] + 1
      /\ \A q \in Grants : Terms[q].limit # Unlimited => used'[q] <= Terms[q].limit
  BY ConsumptionFits DEF DraftUnder
<1>2. post' = [post EXCEPT ![x] = "DRAFT"] /\ underGrant' = [underGrant EXCEPT ![x] = p]
  BY DEF DraftUnder
<1>3. underGrant[x] = NoOne BY DEF QuotaInv
<1>4. /\ DraftsUnder(p)' = DraftsUnder(p) \cup {x} /\ x \notin DraftsUnder(p)
      /\ \A q \in Grants \ {p} : DraftsUnder(q)' = DraftsUnder(q)
  BY <1>1, <1>2, <1>3, PublishingAssumption DEF DraftsUnder, QuotaInv
<1>5. \A q \in Grants : IsFiniteSet(DraftsUnder(q)) /\ Cardinality(DraftsUnder(q)) \in Nat
  BY FS_CardinalityType DEF QuotaInv
<1>6. /\ IsFiniteSet(DraftsUnder(p) \cup {x})
      /\ Cardinality(DraftsUnder(p) \cup {x}) = Cardinality(DraftsUnder(p)) + 1
  BY <1>1, <1>4, <1>5, FS_AddElement
<1>7. \A q \in Grants : IsFiniteSet(DraftsUnder(q)') BY <1>4, <1>5, <1>6
<1>8. ASSUME NEW q \in Grants, Terms[q].limit # Unlimited
      PROVE  Cardinality(DraftsUnder(q)') <= used'[q]
  <2>1. PICK n : n = Cardinality(DraftsUnder(q)) OBVIOUS
  <2>2. n \in Nat /\ n <= used[q]
    BY <1>5, <1>8, <2>1 DEF QuotaInv, QuotaCoversDrafts, DraftsUnder
  <2>3. CASE q = p
    <3>1. n + 1 <= used'[q] BY <1>1, <1>8, <2>2, <2>3 DEF QuotaInv
    <3>2. Cardinality(DraftsUnder(q)') = n + 1 BY <1>4, <1>6, <2>1, <2>3, Zenon
    <3> QED BY <3>1, <3>2, Zenon
  <2>4. CASE q # p
    <3>1. n <= used'[q] BY <1>1, <2>2 DEF QuotaInv
    <3>2. Cardinality(DraftsUnder(q)') = n BY <1>4, <2>1, <2>4, Zenon
    <3> QED BY <3>1, <3>2, Zenon
  <2> QED BY <2>3, <2>4
<1>9. QuotaCoversDrafts' BY <1>1, <1>8 DEF QuotaCoversDrafts, DraftsUnder
<1>10. /\ post' \in [Posts -> PostStatus] /\ underGrant' \in [Posts -> Grants \cup {NoOne}]
       /\ \A u \in Posts : post'[u] = "ABSENT" => underGrant'[u] = NoOne
  BY <1>1, <1>2 DEF QuotaInv, PostStatus
<1> QED BY <1>1, <1>7, <1>9, <1>10 DEF QuotaInv

\* A step that writes neither the quotas nor the drafts' grants.
LEMMA QuotaUntouched ==
  ASSUME QuotaInv, UNCHANGED <<used, underGrant>>, post' \in [Posts -> PostStatus],
         \A x \in Posts : post'[x] = "ABSENT" => post[x] = "ABSENT"
  PROVE  QuotaInv'
<1>1. /\ used' \in [Grants -> Nat] /\ \A p \in Grants : used[p] <= used'[p]
      /\ \A p \in Grants : Terms[p].limit # Unlimited => used'[p] <= Terms[p].limit
  <2>1. used \in [Grants -> Nat] /\ used' = used BY DEF QuotaInv
  <2>2. \A p \in Grants : Terms[p].limit # Unlimited => used[p] <= Terms[p].limit
    BY DEF QuotaInv, QuotaCoversDrafts
  <2> QED BY <2>1, <2>2
<1> QED BY <1>1, DraftsStay

\* Quotas and drafts change together, in the two operations that draft and in an evaluation.
LEMMA SocialStepKeepsQuota ==
  ASSUME ModerationInv, QuotaInv, [SocialNext]_socialVars
  PROVE  QuotaInv'
<1>1. ASSUME UNCHANGED <<used, underGrant, post>> PROVE QuotaInv'
  BY <1>1, QuotaUntouched DEF QuotaInv
<1>2. CASE IdentityStep \/ GraphStep \/ UNCHANGED socialVars
  BY <1>1, <1>2 DEF IdentityStep, GraphStep, socialVars, publishVars
<1>3. CASE ReactionStep BY <1>1, <1>3 DEF ReactionStep, React
<1>4. CASE GrantStep
  <2>1. underGrant' = underGrant /\ post' = post
    BY <1>4 DEF GrantStep, GrantLapses, GrantPermission, RevokePermission, EvaluatePermission
  <2>2. CASE UNCHANGED used BY <1>1, <2>1, <2>2
  <2>3. CASE ~ UNCHANGED used
    <3>1. PICK g \in Agents, s \in {Global} \cup Communities :
                 \E p \in Allowing(g, DraftContent, s) : Consume(p)
      BY <1>4, <2>3 DEF GrantStep, GrantLapses, GrantPermission, RevokePermission,
                        EvaluatePermission
    <3> QED BY <2>1, <3>1, ConsumptionFits, DraftsStay DEF QuotaInv
  <2> QED BY <2>2, <2>3
<1>5. ASSUME NEW x \in Posts, NEW s \in PostStatus \ {"ABSENT"},
             post' = [post EXCEPT ![x] = s], UNCHANGED <<used, underGrant>>
      PROVE  QuotaInv'
  BY <1>5, QuotaUntouched DEF QuotaInv
<1>6. CASE ContentStep
  <2>1. PICK a \in Accounts, x \in Contents :
          \/ Publish(a, x) \/ ArchiveContent(a, x)
          \/ \E g \in Agents, c \in Communities \cup {Global} : CreateDraft(a, g, x, c)
    BY <1>6 DEF ContentStep
  <2>2. CASE Publish(a, x) \/ ArchiveContent(a, x)
    BY <1>5, <2>2 DEF Publish, ArchiveContent, SetPost, Posts, PostStatus
  <2>3. CASE \E g \in Agents, c \in Communities \cup {Global} : CreateDraft(a, g, x, c)
    <3>1. CASE UNCHANGED <<used, underGrant, post>> BY <1>1, <3>1
    <3>2. CASE ~ UNCHANGED <<used, underGrant, post>>
      <4>1. PICK g \in Agents, c \in Communities \cup {Global} :
              /\ post[x] = "ABSENT"
              /\ \E p \in Allowing(g, DraftContent, c) : DraftUnder(p, x, g, c)
        BY <2>3, <3>2 DEF CreateDraft, Deny
      <4> QED BY <4>1, DraftIsPaidFor DEF Posts
    <3> QED BY <3>1, <3>2
  <2> QED BY <2>1, <2>2, <2>3
<1>7. CASE DiscussionStep
  <2>1. PICK a \in Accounts, k \in Comments :
          \/ PublishComment(a, k) \/ ArchiveComment(a, k)
          \/ \E x \in Contents :
                \/ CreateHumanComment(a, k, x)
                \/ \E g \in Agents : CreateAgentCommentDraft(a, g, k, x)
    BY <1>7 DEF DiscussionStep
  <2>2. CASE \/ PublishComment(a, k) \/ ArchiveComment(a, k)
             \/ \E x \in Contents : CreateHumanComment(a, k, x)
    BY <1>5, <2>2 DEF PublishComment, ArchiveComment, CreateHumanComment, SetPost, Posts, PostStatus
  <2>3. CASE \E x \in Contents, g \in Agents : CreateAgentCommentDraft(a, g, k, x)
    <3>1. CASE UNCHANGED <<used, underGrant, post>> BY <1>1, <3>1
    <3>2. CASE ~ UNCHANGED <<used, underGrant, post>>
      <4>1. PICK x \in Contents, g \in Agents :
              /\ post[k] = "ABSENT"
              /\ \E p \in Allowing(g, DraftComment, x) : DraftUnder(p, k, g, x)
        BY <2>3, <3>2 DEF CreateAgentCommentDraft, Deny
      <4> QED BY <4>1, DraftIsPaidFor DEF Posts
    <3> QED BY <3>1, <3>2
  <2> QED BY <2>1, <2>2, <2>3
<1>8. CASE ReviewStep
  <2>1. ModerationInv' BY <1>8, SocialStepKeepsInv
  <2>2. UNCHANGED <<used, underGrant>> BY <1>8 DEF ReviewStep
  <2>3. post' \in [Posts -> PostStatus] BY <2>1 DEF ModerationInv, ModerationTypeOK
  <2>4. \A x \in Posts : post'[x] = "ABSENT" => post[x] = "ABSENT"
    <3>1. CASE UNCHANGED post BY <3>1
    <3>2. CASE ~ UNCHANGED post
      <4>1. PICK k \in Cases, s \in {"ARCHIVED", "PUBLISHED"} :
                   post' = [post EXCEPT ![case[k].target] = s]
        BY <1>8, <3>2 DEF ReviewStep, TargetsUnchanged, ResolveRestricting, ResolveWithoutAction,
             DismissCase, CreateAppeal, ReverseCase, Lift, ApplyRestrictiveAction, SetTarget
      <4> QED BY <4>1 DEF QuotaInv
    <3> QED BY <3>1, <3>2
  <2> QED BY <2>2, <2>3, <2>4, QuotaUntouched
<1> QED BY <1>2, <1>3, <1>4, <1>6, <1>7, <1>8 DEF SocialNext

\* Nothing was drafted at first.
LEMMA QuotaInitInv ==
  ASSUME SocialInit
  PROVE  QuotaInv
<1>1. /\ used = [p \in Grants |-> 0] /\ post = [x \in Posts |-> "ABSENT"]
      /\ underGrant = [x \in Posts |-> NoOne]
  BY DEF SocialInit, PublishInit, PublishBlank
<1>2. \A p \in Grants : DraftsUnder(p) = {} BY <1>1, PublishingAssumption DEF DraftsUnder
<1>3. IsFiniteSet({}) /\ Cardinality({}) = 0 BY FS_EmptySet
<1>4. QuotaCoversDrafts
  <2>1. \A p \in Grants : Cardinality(DraftsUnder(p)) = 0 BY <1>2, <1>3, Zenon
  <2> QED BY <1>1, <2>1, PublishingAssumption DEF QuotaCoversDrafts, DraftsUnder, Unlimited
<1> QED BY <1>1, <1>2, <1>3, <1>4 DEF QuotaInv, PostStatus

\* Every draft under a grant with a limit was paid for from its quota, which is never
\* overdrawn (permission-evaluator.ts, postgres-content.repository.ts,
\* postgres-interaction.repository.ts).
THEOREM QuotasCoverDrafts == SocialSpec => []QuotaCoversDrafts
<1>1. SocialSpec => []QuotaInv
  BY QuotaInitInv, SocialStepKeepsQuota, ModerationInvHolds, PTL DEF SocialSpec
<1>2. QuotaInv => QuotaCoversDrafts BY DEF QuotaInv
<1> QED BY <1>1, <1>2, PTL
=============================================================================
