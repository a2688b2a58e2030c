--------------------------- MODULE OnceOnlyEffect ---------------------------
(***************************************************************************)
(* What the durable ledger promises of one global idempotency scope: an    *)
(* owner alone may act on it, ownership changes hands only while nothing   *)
(* was sent, and what was sent stays the only mutation unless the provider *)
(* refuses it.                                                             *)
(***************************************************************************)
EXTENDS FiniteSets

CONSTANTS Target, Owner, Nobody

VARIABLES
  owner, \* who holds each target
  sent   \* whose mutations of the target reached the provider, or still may

onceVars == <<owner, sent>>

OnceInit ==
  /\ owner = [t \in Target |-> Nobody]
  /\ sent = [t \in Target |-> {}]

Claim(t) ==
  /\ sent[t] = {}
  /\ \E o \in Owner : owner' = [owner EXCEPT ![t] = o]
  /\ UNCHANGED sent

Send(t) ==
  /\ owner[t] # Nobody
  /\ sent[t] = {}
  /\ sent' = [sent EXCEPT ![t] = {owner[t]}]
  /\ UNCHANGED owner

Refused(t) ==
  /\ sent[t] # {}
  /\ sent' = [sent EXCEPT ![t] = {}]
  /\ UNCHANGED owner

OnceNext == \E t \in Target : Claim(t) \/ Send(t) \/ Refused(t)

OnceSpec == OnceInit /\ [][OnceNext]_onceVars
=============================================================================
