--------------------------- MODULE ProductionGate ---------------------------
(***************************************************************************)
(* The authorization of a production promotion: LEO's decisions about a    *)
(* release, which arrive as calls that may be repeated and delayed, and    *)
(* the promotions that read the standing decision and then act.  The phase *)
(* carries LEANDRO's proof for the release; a phase that lacks it is       *)
(* blocked whatever LEO decides.                                           *)
(***************************************************************************)
EXTENDS Sequences, SequencesExt

CONSTANTS
  Sources,    \* sourceRef of a decision
  Promotions,
  MaxHeard    \* bound on the decisions LEO takes

VARIABLES
  proven,     \* whether the phase's inputs carry LEANDRO's proof for the release
  gateEvents, \* GATE_APPROVED and GATE_REJECTED events in the order of their sequence
  decided,    \* the decisions LEO has taken, in the order they first arrived
  promotion,  \* where each promotion stands
  production  \* what the production runtime answers: the release, another one, or not ready

gateVars == <<proven, gateEvents, decided, promotion, production>>

Decision == [decision : {"APPROVE", "REJECT"}, source : Sources]
Runtime == {"release", "other", "unready"}

GateInit ==
  /\ proven \in BOOLEAN /\ gateEvents = <<>> /\ decided = <<>>
  /\ promotion = [p \in Promotions |-> [at |-> "idle"]]
  /\ production = "other"

\* Variant: every call appends an event.
NeverKnown(d) == FALSE

\* The key of a gate event: the decision and its source.
Known(d) == d \in ToSet(gateEvents)

\* recordLeoOperationalGate: a decision already recorded is answered as a duplicate.
RecordLeoOperationalGate(d) ==
  /\ proven
  /\ d \in ToSet(decided) \/ Len(decided) < MaxHeard
  /\ gateEvents' = IF Known(d) THEN gateEvents ELSE Append(gateEvents, d)
  /\ decided' = IF d \in ToSet(decided) THEN decided ELSE Append(decided, d)
  /\ UNCHANGED <<proven, promotion, production>>

\* The latest gate event of the phase for the release.
ResolveProductionAuthorization ==
  IF ~proven THEN "PRODUCTION_AUTHORIZATION_REQUIRED"
  ELSE IF gateEvents = <<>> THEN "OPERATIONAL_GATE_REQUIRED"
  ELSE IF Last(gateEvents).decision = "REJECT" THEN "OPERATIONAL_GATE_REJECTED"
  ELSE "AUTHORIZED"

Authorize(p) ==
  /\ promotion[p].at = "idle"
  /\ promotion' = [promotion EXCEPT ![p] =
                     IF ResolveProductionAuthorization = "AUTHORIZED"
                     THEN [at |-> "authorized", evidence |-> Last(gateEvents).source]
                     ELSE [at |-> "refused"]]
  /\ UNCHANGED <<proven, gateEvents, decided, production>>

\* The runtime is observed afterwards.  A release that is live is a receipt; for any
\* other the reconciliation metadata lacks the repository the ledger asks for, and the
\* deploy hook is not reached.
Observe(p) ==
  /\ promotion[p].at = "authorized"
  /\ promotion' = [promotion EXCEPT ![p] =
                     IF production = "release"
                     THEN [at |-> "receipt", evidence |-> promotion[p].evidence]
                     ELSE [at |-> "refused"]]
  /\ UNCHANGED <<proven, gateEvents, decided, production>>

ReleaseProduction(r) == production' = r /\ UNCHANGED <<proven, gateEvents, decided, promotion>>

GateNext ==
  \/ \E d \in Decision : RecordLeoOperationalGate(d)
  \/ \E p \in Promotions : Authorize(p) \/ Observe(p)
  \/ \E r \in Runtime : ReleaseProduction(r)

GateSpec == GateInit /\ [][GateNext]_gateVars

\* A call that arrives again never overturns what LEO decided after it, and a receipt
\* rests on an approval LEO gave under the source the receipt names.
LastWordStands ==
  /\ decided # <<>> => Last(gateEvents) = Last(decided)
  /\ \A p \in Promotions : promotion[p].at = "receipt" =>
       [decision |-> "APPROVE", source |-> promotion[p].evidence] \in ToSet(decided)
=============================================================================
