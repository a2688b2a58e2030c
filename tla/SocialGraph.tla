---------------------------- MODULE SocialGraph ----------------------------
(***************************************************************************)
(* The people of the social network and what they are responsible for:     *)
(* accounts and sessions (identity), agents, communities and memberships,  *)
(* and the anonymization of an account (privacy).                          *)
(*                                                                         *)
(* Every operation of a repository is one database transaction.  It takes  *)
(* the account its caller was authenticated as from the session guard,     *)
(* which ran in a query of its own: when the transaction runs, the session *)
(* may be revoked and the account anonymized.                              *)
(***************************************************************************)
EXTENDS FiniteSets, Naturals

CONSTANTS
    Accounts,      \* human accounts
    Agents,        \* agent profiles, named by their unique handle
    Communities,   \* communities, named by their unique slug
    Operators,     \* accounts provisioned with a platform role
    Supervisors,   \* those of them whose role is SUPERVISOR
    NoOne          \* no account

ASSUME SocialAssumption ==
    /\ Supervisors \subseteq Operators
    /\ Operators \subseteq Accounts
    /\ NoOne \notin Accounts

VARIABLES
    account,      \* accounts.status; ABSENT before registration
    session,      \* accounts with a session that is neither revoked nor expired
    login,        \* accounts whose password createSession has verified
    admitted,     \* accounts with a request beyond the session guard
    agent,        \* agent_profiles.status
    responsible,  \* the account of the agent's ACTIVE responsibility link
    community,    \* communities.status
    owner,        \* communities.owner_account_id
    members,      \* subjects of the community's ACTIVE memberships
    role          \* accounts with an ACTIVE account_platform_roles row

graphVars == <<account, session, login, admitted, agent, responsible,
               community, owner, members, role>>

AgentStatus == {"ABSENT", "DRAFT", "ACTIVE", "PAUSED", "REVOKED"}

-----------------------------------------------------------------------------
(* Identity *)

RegisterHumanAccount(a) ==
    /\ account[a] = "ABSENT"
    /\ account' = [account EXCEPT ![a] = "ACTIVE"]
    /\ UNCHANGED <<session, login, admitted, agent, responsible, community,
                   owner, members, role>>

\* The account is read, the password verified, the status checked ...
VerifyPassword(a) ==
    /\ account[a] = "ACTIVE"
    /\ login' = login \cup {a}
    /\ UNCHANGED <<account, session, admitted, agent, responsible, community,
                   owner, members, role>>

\* ... and the session is inserted later, whatever has become of the account.
CreateSession(a) ==
    /\ a \in login
    /\ login' = login \ {a}
    /\ session' = session \cup {a}
    /\ UNCHANGED <<account, admitted, agent, responsible, community, owner,
                   members, role>>

RevokeSession(a) ==
    /\ a \in session \cap admitted
    /\ session' = session \ {a}
    /\ UNCHANGED <<account, login, admitted, agent, responsible, community,
                   owner, members, role>>

\* The session guard: an unrevoked session of an active account.
MayEnter(a) == a \in session /\ account[a] = "ACTIVE"

Admit(a) ==
    /\ MayEnter(a)
    /\ admitted' = admitted \cup {a}
    /\ UNCHANGED <<account, session, login, agent, responsible, community,
                   owner, members, role>>

\* The last request of the account that was under way has ended.
Answered(a) ==
    /\ a \in admitted
    /\ admitted' = admitted \ {a}
    /\ UNCHANGED <<account, session, login, agent, responsible, community,
                   owner, members, role>>

-----------------------------------------------------------------------------
(* Agents.  A link is created ACTIVE with its agent and nothing ends it. *)

CreateAgent(a, g) ==
    /\ a \in admitted
    /\ agent[g] = "ABSENT"
    /\ agent' = [agent EXCEPT ![g] = "DRAFT"]
    /\ responsible' = [responsible EXCEPT ![g] = a]
    /\ UNCHANGED <<account, session, login, admitted, community, owner,
                   members, role>>

ResponsibleTransitions ==
    {<<"DRAFT", "ACTIVE">>, <<"DRAFT", "REVOKED">>, <<"ACTIVE", "PAUSED">>,
     <<"ACTIVE", "REVOKED">>, <<"PAUSED", "ACTIVE">>, <<"PAUSED", "REVOKED">>}

TransitionAgentState(a, g, s) ==
    /\ a \in admitted
    /\ responsible[g] = a
    /\ <<agent[g], s>> \in ResponsibleTransitions
    /\ agent' = [agent EXCEPT ![g] = s]
    /\ UNCHANGED <<account, session, login, admitted, responsible, community,
                   owner, members, role>>

-----------------------------------------------------------------------------
(* Communities *)

CreateCommunity(a, c) ==
    /\ a \in admitted
    /\ community[c] = "ABSENT"
    /\ community' = [community EXCEPT ![c] = "ACTIVE"]
    /\ owner' = [owner EXCEPT ![c] = a]
    /\ members' = [members EXCEPT ![c] = {a}]
    /\ UNCHANGED <<account, session, login, admitted, agent, responsible, role>>

ArchiveCommunity(a, c) ==
    /\ a \in admitted
    /\ community[c] = "ACTIVE"
    /\ owner[c] = a
    /\ community' = [community EXCEPT ![c] = "ARCHIVED"]
    /\ UNCHANGED <<account, session, login, admitted, agent, responsible,
                   owner, members, role>>

JoinHuman(a, c) ==
    /\ a \in admitted
    /\ community[c] = "ACTIVE"
    /\ members' = [members EXCEPT ![c] = @ \cup {a}]
    /\ UNCHANGED <<account, session, login, admitted, agent, responsible,
                   community, owner, role>>

\* The role OWNER belongs to the membership made with the community.
LeaveHuman(a, c) ==
    /\ a \in admitted
    /\ community[c] = "ACTIVE"
    /\ a \in members[c]
    /\ owner[c] # a
    /\ members' = [members EXCEPT ![c] = @ \ {a}]
    /\ UNCHANGED <<account, session, login, admitted, agent, responsible,
                   community, owner, role>>

ResponsibleForActive(a, g) == responsible[g] = a /\ agent[g] = "ACTIVE"

JoinAgent(a, g, c) ==
    /\ a \in admitted
    /\ community[c] = "ACTIVE"
    /\ ResponsibleForActive(a, g)
    /\ members' = [members EXCEPT ![c] = @ \cup {g}]
    /\ UNCHANGED <<account, session, login, admitted, agent, responsible,
                   community, owner, role>>

LeaveAgent(a, g, c) ==
    /\ a \in admitted
    /\ community[c] = "ACTIVE"
    /\ ResponsibleForActive(a, g)
    /\ g \in members[c]
    /\ members' = [members EXCEPT ![c] = @ \ {g}]
    /\ UNCHANGED <<account, session, login, admitted, agent, responsible,
                   community, owner, role>>

-----------------------------------------------------------------------------
(* Privacy *)

\* The blockers this module knows; Moderation adds the cases under review.
HoldsResponsibility(a) ==
    \/ \E g \in Agents : responsible[g] = a
    \/ \E c \in Communities : owner[c] = a /\ community[c] = "ACTIVE"
    \/ a \in role

\* Memberships as MEMBER end, and those of the account's agents; an archived
\* community keeps its owner's.
WithoutAccount(c, a) ==
    {m \in members[c] :
        /\ m = a => owner[c] = a
        /\ m \in Agents => responsible[m] # a}

AnonymizeAccount(a, blocked) ==
    /\ a \in admitted
    /\ account[a] = "ACTIVE"
    /\ ~HoldsResponsibility(a)
    /\ ~blocked
    /\ account' = [account EXCEPT ![a] = "ANONYMIZED"]
    /\ session' = session \ {a}
    /\ members' = [c \in Communities |-> WithoutAccount(c, a)]
    /\ UNCHANGED <<login, admitted, agent, responsible, community, owner, role>>

\* Roles are provisioned and withdrawn by the operators of the platform.
WithdrawRole(a) ==
    /\ a \in role
    /\ role' = role \ {a}
    /\ UNCHANGED <<account, session, login, admitted, agent, responsible,
                   community, owner, members>>

-----------------------------------------------------------------------------
(* Properties *)

\* An active community has an active account as its owner: anonymization must
\* not leave a community without one.
ActiveCommunityHasOwner ==
    \A c \in Communities :
        community[c] = "ACTIVE" => account[owner[c]] = "ACTIVE"
=============================================================================
