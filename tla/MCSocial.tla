------------------------------ MODULE MCSocial ------------------------------
(* Instances of the social network.  A behaviour sends requests of the       *)
(* families its focus names, from a network other requests have brought      *)
(* about; with every family at once the state space would be out of reach.   *)
(* Project intake, which shares no state with the network, has focuses of    *)
(* its own here, and takes its names from the network's, so that one         *)
(* symmetry serves both.                                                     *)
EXTENDS Moderation, IntentAlignment, TLC

CONSTANTS ada, sam, bot, hub, p, q, r, x, Focuses, noon, later, chat, mail,
          first, second

VARIABLE focus

mcVars == <<socialVars, intakeVars, focus>>

MCTerms == (p :> [agent |-> bot, permission |-> DraftContent, scope |-> Global, limit |-> 1])
        @@ (q :> [agent |-> bot, permission |-> DraftContent, scope |-> hub, limit |-> 1])
        @@ (r :> [agent |-> bot, permission |-> DraftComment, scope |-> x, limit |-> 2])

\* ada is responsible for bot, has granted it drafts and owns hub; sam is a
\* supervisor.
Populated ==
    /\ account = [a \in Accounts |-> "ACTIVE"]
    /\ session = Accounts /\ login = {} /\ admitted = Accounts /\ role = Operators
    /\ agent = [g \in Agents |-> "ACTIVE"]
    /\ responsible = [g \in Agents |-> ada]
    /\ community = [c \in Communities |-> "ACTIVE"]
    /\ owner = [c \in Communities |-> ada]
    /\ members = [c \in Communities |-> {ada, bot}]
    /\ grant = [g \in Grants |-> IF g = r THEN "ABSENT" ELSE "ACTIVE"]
    /\ PublishBlank
    /\ ModerationInit

MCInit ==
    /\ focus \in Focuses
    /\ IF focus = "people" THEN SocialInit ELSE Populated
    /\ IntakeInit

MCConfirmations == {[at |-> noon, source |-> chat], [at |-> noon, source |-> mail],
                    [at |-> later, source |-> chat]}
MCReplaces == (first :> Nothing) @@ (second :> first)

\* Bounds: two operations at a time about one thing the intent may say, or one at a time
\* about all of them, or with human decisions; two confirmations; one lock file is left
\* behind.
Undecided == \A c \in Writers : op'[c].pc = "open" /\ op'[c].path[1] = "pip" =>
                op'[c].artifact.decisions = [k \in Decisions |-> "NONE"]
Plain == Undecided /\ \A c \in Writers : op'[c].pc = "open" /\ op'[c].path[1] = "pip" =>
                op'[c].artifact.says # "DEFERRED"
Sequential == Cardinality(confirmed') <= 1 /\ Cardinality({c \in Writers : op'[c] # NoOp}) <= 1
Abandoned == lockFiles' \ {op'[c].path : c \in Writers}

MCIntakeStep ==
  /\ \/ focus = "alignment" /\ (AlignmentStep \/ DiscoveryStep) /\ Plain
     \/ focus = "intake" /\ (AlignmentStep \/ DiscoveryStep \/ RealityStep) /\ Sequential /\ Undecided
     \/ focus = "decisions" /\ DiscoveryStep /\ Sequential
     \/ focus = "reality" /\ RealityStep
     \/ focus \in {"alignment", "intake", "decisions", "reality"} /\ WriterStep
  /\ Cardinality(confirmed') <= 2 /\ Cardinality(Abandoned) <= 1

MCSocialStep ==
    /\ \/ focus = "people" /\ (IdentityStep \/ GraphStep)
       \/ focus = "publishing" /\ (GrantStep \/ ContentStep \/ DiscussionStep)
       \/ focus = "standing" /\ (ContentStep \/ ReactionStep \/ GraphStep)
       \/ focus = "moderation" /\ (ReviewStep \/ ContentStep)
       \/ focus = "communities" /\ (ReviewStep \/ GraphStep)

MCNext ==
    /\ UNCHANGED focus
    /\ \/ MCSocialStep /\ UNCHANGED intakeVars
       \/ MCIntakeStep /\ UNCHANGED socialVars

MCSymmetry == Permutations(Cases) \cup Permutations(Reasons)

MCSpec == MCInit /\ [][MCNext]_mcVars
=============================================================================
