----------------------------- MODULE Publishing -----------------------------
(***************************************************************************)
(* What agents may do and what is published: permission grants with scope, *)
(* quota and expiry, drafts that a human publishes, comments, reactions.   *)
(*                                                                         *)
(* A draft is created in the transaction that evaluates the permission: a  *)
(* denial, or a missing membership, rolls all of it back, the consumed     *)
(* quota and the audit of the decision included.                           *)
(***************************************************************************)
EXTENDS SocialGraph

CONSTANTS
    Grants,     \* rows of permission_grants
    Contents,   \* social_content
    Comments,   \* social_comments
    Terms,      \* what each grant is for: agent, permission, scope, limit
    Global      \* the null scope

Unlimited == 0
DraftContent == "content.draft.create"
DraftComment == "content.comment.draft.create"

ASSUME PublishingAssumption ==
    /\ Terms \in [Grants -> [agent : Agents,
                             permission : {DraftContent, DraftComment},
                             scope : Communities \cup Contents \cup {Global},
                             limit : Nat]]
    /\ Contents \cap Comments = {}
    /\ Global \notin Accounts \cup Communities \cup Contents
    /\ NoOne \notin Agents \cup Grants

VARIABLES
    grant,        \* permission_grants.status; ABSENT before it is granted
    used,         \* permission_grants.quota_used
    lapsed,       \* grants whose valid_until has passed
    post,         \* status of contents and comments
    author,       \* the agent, or the human of a comment
    place,        \* a content's community, a comment's content
    underGrant,   \* the grant in the audit row of a draft
    reactions,    \* social_reactions, as content and account
    denied,       \* agents that were denied a permission ...
    deniedAudits  \* ... and those with a PERMISSION_DENIED row to show it

publishVars == <<grant, used, lapsed, post, author, place, underGrant,
                 reactions, denied, deniedAudits>>

Posts == Contents \cup Comments

PublishBlank ==
    /\ used = [p \in Grants |-> 0]
    /\ lapsed = {}
    /\ post = [x \in Posts |-> "ABSENT"]
    /\ author = [x \in Posts |-> NoOne]
    /\ place = [x \in Posts |-> Global]
    /\ underGrant = [x \in Posts |-> NoOne]
    /\ reactions = {} /\ denied = {} /\ deniedAudits = {}

PublishInit == grant = [p \in Grants |-> "ABSENT"] /\ PublishBlank

-----------------------------------------------------------------------------
(* Permission grants *)

\* One ACTIVE grant per agent, permission and scope: two unique indexes.
SameTerms(p, q) ==
    /\ Terms[p].agent = Terms[q].agent
    /\ Terms[p].permission = Terms[q].permission
    /\ Terms[p].scope = Terms[q].scope

GrantPermission(a, p) ==
    /\ a \in admitted
    /\ responsible[Terms[p].agent] = a
    /\ grant[p] = "ABSENT"
    /\ \A q \in Grants : SameTerms(p, q) => grant[q] # "ACTIVE"
    /\ grant' = [grant EXCEPT ![p] = "ACTIVE"]
    /\ UNCHANGED <<used, lapsed, post, author, place, underGrant, reactions,
                   denied, deniedAudits>>

RevokePermission(a, p) ==
    /\ a \in admitted
    /\ responsible[Terms[p].agent] = a
    /\ grant[p] = "ACTIVE"
    /\ grant' = [grant EXCEPT ![p] = "REVOKED"]
    /\ UNCHANGED <<used, lapsed, post, author, place, underGrant, reactions,
                   denied, deniedAudits>>

\* valid_until passes.
GrantLapses(p) ==
    /\ grant[p] = "ACTIVE" /\ p \notin lapsed
    /\ lapsed' = lapsed \cup {p}
    /\ UNCHANGED <<grant, used, post, author, place, underGrant, reactions,
                   denied, deniedAudits>>

Candidates(g, permission, scope) ==
    {p \in Grants : /\ grant[p] = "ACTIVE"
                    /\ Terms[p].agent = g
                    /\ Terms[p].permission = permission
                    /\ Terms[p].scope \in {Global, scope}}

\* The scoped grant comes first, and it alone is looked at.
Chosen(g, permission, scope) ==
    LET all == Candidates(g, permission, scope)
        scoped == {p \in all : Terms[p].scope # Global}
    IN  IF scoped # {} THEN scoped ELSE all

Exhausted(p) == Terms[p].limit # Unlimited /\ used[p] >= Terms[p].limit

\* The grants evaluatePermissionWithClient allows a request under: one or none.
Allowing(g, permission, scope) ==
    {p \in Chosen(g, permission, scope) :
        agent[g] = "ACTIVE" /\ p \notin lapsed /\ ~Exhausted(p)}

\* Variant: the quota is checked but not consumed.
ConsumeNothing(p) == used' = used

\* Only a grant with a limit counts its uses.
Consume(p) ==
    used' = IF Terms[p].limit = Unlimited THEN used
            ELSE [used EXCEPT ![p] = @ + 1]

\* POST permissions/evaluate: the decision is consumed and audited by itself.
EvaluatePermission(a, g, permission, scope) ==
    /\ a \in admitted
    /\ responsible[g] = a
    /\ \/ \E p \in Allowing(g, permission, scope) :
             Consume(p) /\ UNCHANGED <<denied, deniedAudits>>
       \/ /\ Allowing(g, permission, scope) = {}
          /\ denied' = denied \cup {g}
          /\ deniedAudits' = deniedAudits \cup {g}
          /\ UNCHANGED used
    /\ UNCHANGED <<grant, lapsed, post, author, place, underGrant, reactions>>

-----------------------------------------------------------------------------
(* Contents *)

\* ensureCommunityMemberships: agent and human are members of an active one.
BothMembers(g, c) ==
    /\ community[c] = "ACTIVE"
    /\ {g, responsible[g]} \subseteq members[c]

DraftUnder(p, x, g, where) ==
    /\ Consume(p)
    /\ post' = [post EXCEPT ![x] = "DRAFT"]
    /\ author' = [author EXCEPT ![x] = g]
    /\ place' = [place EXCEPT ![x] = where]
    /\ underGrant' = [underGrant EXCEPT ![x] = p]
    /\ UNCHANGED <<grant, lapsed, reactions, denied, deniedAudits>>

\* The exception that reports a denial rolls the audit of it back.
Deny(g) ==
    /\ denied' = denied \cup {g}
    /\ UNCHANGED <<grant, used, lapsed, post, author, place, underGrant,
                   reactions, deniedAudits>>

CreateDraft(a, g, x, where) ==
    /\ a \in admitted
    /\ responsible[g] = a
    /\ post[x] = "ABSENT"
    /\ \/ /\ where # Global => BothMembers(g, where)
          /\ \E p \in Allowing(g, DraftContent, where) : DraftUnder(p, x, g, where)
       \/ /\ Allowing(g, DraftContent, where) = {}
          /\ Deny(g)

Owned(a, x) == author[x] \in Agents /\ responsible[author[x]] = a

SetPost(x, s) ==
    /\ post' = [post EXCEPT ![x] = s]
    /\ UNCHANGED <<grant, used, lapsed, author, place, underGrant, reactions,
                   denied, deniedAudits>>

\* Variant: an archived content can be published again.
PublishAgain(a, x) ==
    /\ a \in admitted
    /\ Owned(a, x)
    /\ post[x] \in {"DRAFT", "ARCHIVED"}
    /\ place[x] # Global => BothMembers(author[x], place[x])
    /\ SetPost(x, "PUBLISHED")

Publish(a, x) ==
    /\ a \in admitted
    /\ Owned(a, x)
    /\ post[x] = "DRAFT"
    /\ place[x] # Global => BothMembers(author[x], place[x])
    /\ SetPost(x, "PUBLISHED")

ArchiveContent(a, x) ==
    /\ a \in admitted
    /\ Owned(a, x)
    /\ post[x] \in {"DRAFT", "PUBLISHED"}
    /\ SetPost(x, "ARCHIVED")

-----------------------------------------------------------------------------
(* Comments and reactions *)

CreateHumanComment(a, k, x) ==
    /\ a \in admitted
    /\ post[x] = "PUBLISHED"
    /\ post[k] = "ABSENT"
    /\ post' = [post EXCEPT ![k] = "PUBLISHED"]
    /\ author' = [author EXCEPT ![k] = a]
    /\ place' = [place EXCEPT ![k] = x]
    /\ UNCHANGED <<grant, used, lapsed, underGrant, reactions, denied,
                   deniedAudits>>

CreateAgentCommentDraft(a, g, k, x) ==
    /\ a \in admitted
    /\ post[x] = "PUBLISHED"
    /\ responsible[g] = a
    /\ post[k] = "ABSENT"
    /\ \/ \E p \in Allowing(g, DraftComment, x) : DraftUnder(p, k, g, x)
       \/ /\ Allowing(g, DraftComment, x) = {}
          /\ Deny(g)

PublishComment(a, k) ==
    /\ a \in admitted
    /\ Owned(a, k)
    /\ post[k] = "DRAFT"
    /\ post[place[k]] = "PUBLISHED"
    /\ SetPost(k, "PUBLISHED")

ArchiveComment(a, k) ==
    /\ a \in admitted
    /\ author[k] = a \/ Owned(a, k)
    /\ post[k] \in {"DRAFT", "PUBLISHED"}
    /\ SetPost(k, "ARCHIVED")

React(a, x, set) ==
    /\ a \in admitted
    /\ post[x] = "PUBLISHED"
    /\ reactions' = IF set THEN reactions \cup {<<x, a>>}
                    ELSE reactions \ {<<x, a>>}
    /\ UNCHANGED <<grant, used, lapsed, post, author, place, underGrant,
                   denied, deniedAudits>>

-----------------------------------------------------------------------------
(* Properties *)

\* Every draft that was created under a grant with a limit was paid for from
\* its quota, also when grants are evaluated for other purposes in between,
\* and the quota is never overdrawn (permission-evaluator.ts, the rollbacks of
\* postgres-content.repository.ts and postgres-interaction.repository.ts).
QuotaCoversDrafts ==
    \A p \in Grants : Terms[p].limit # Unlimited =>
        /\ Cardinality({x \in Posts : underGrant[x] = p}) <= used[p]
        /\ used[p] <= Terms[p].limit

\* Every denial of a permission is audited.
DenialsAreAudited == denied \subseteq deniedAudits
=============================================================================
