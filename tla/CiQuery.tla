------------------------------- MODULE CiQuery -------------------------------
(***************************************************************************)
(* The read-only query of a commit's CI and the evidence made of it.  The  *)
(* adapter reads workflow runs, the jobs of each, check runs and check     *)
(* suites, page after page, while on GitHub items appear, finish, restart  *)
(* and vanish.  A receipt may be presented again, for the phase it was     *)
(* issued in or for another.                                               *)
(***************************************************************************)
EXTENDS Naturals, FiniteSets, Sequences, SequencesExt

CONSTANTS
  Phase,     \* governed executions of MCF-RUN-TESTS: mission, phase, version and agent
  Commit,    \* commits that are asked about
  Workflow,  \* workflows of the repository
  NoFilter,  \* no filter
  PageSize,  \* items of a page
  MaxPages,  \* pages of a list the adapter reads
  MaxItems   \* bound: items that ever appear

ASSUME CiAssumption == PageSize \in Nat \ {0} /\ MaxItems \in Nat

VARIABLES
  ci,       \* for each commit the lists of GitHub, newest first; the jobs of a run under its id
  items,    \* how many items have appeared
  query,    \* for each phase, where its adapter stands and what it has read
  standing, \* for each phase, the items that have not been successful since it began
  receipts, \* receipts the adapter has signed
  verdict   \* the conclusion of the receipt a phase accepted

ciVars == <<ci, items, query, standing, receipts, verdict>>

All(kind) == <<kind, 0>>
JobsOf(run) == <<"jobs", run>>
Lists == {All(kind) : kind \in {"runs", "checks", "suites"}} \cup {JobsOf(i) : i \in 1 .. MaxItems}
Quiet == [pc |-> "idle"]

CiInit ==
  /\ ci = [k \in Commit |-> [s \in Lists |-> <<>>]] /\ items = 0
  /\ query = [p \in Phase |-> Quiet] /\ standing = [p \in Phase |-> {}]
  /\ receipts = {} /\ verdict = [p \in Phase |-> "none"]

\* workflowMatches: runs are filtered, and with them their jobs; checks are not.
Matches(run, filter) == filter \in {NoFilter, run.workflow}
RunsMatching(lists, filter) == {r \in ToSet(lists[All("runs")]) : Matches(r, filter)}
Relevant(lists, filter) ==
  RunsMatching(lists, filter) \cup ToSet(lists[All("checks")]) \cup ToSet(lists[All("suites")])
    \cup UNION {ToSet(lists[JobsOf(r.id)]) : r \in RunsMatching(lists, filter)}
Unsuccessful(lists, filter) == {i.id : i \in {x \in Relevant(lists, filter) : x.result # "success"}}

----------------------------------------------------------------------------
\* GitHub: what holds of the commit changes by one item at a time.

Changes(k, s, list) ==
  /\ LET lists == [ci[k] EXCEPT ![s] = list]
     IN /\ ci' = [ci EXCEPT ![k] = lists]
        /\ standing' = [p \in Phase |-> IF query[p].pc = "idle" \/ query[p].commit # k THEN standing[p]
                                        ELSE standing[p] \cap Unsuccessful(lists, query[p].filter)]
  /\ UNCHANGED <<query, receipts, verdict>>

Appears(k, s) ==
  /\ items < MaxItems /\ items' = items + 1
  /\ s[1] # "jobs" \/ s \in {JobsOf(r.id) : r \in ToSet(ci[k][All("runs")])}
  /\ \E w \in IF s[1] = "runs" THEN Workflow ELSE {NoFilter} :
       Changes(k, s, <<[id |-> items + 1, result |-> "active", workflow |-> w]>> \o ci[k][s])

\* An item finishes, or a run starts again.
Progresses(k, s) ==
  /\ UNCHANGED items
  /\ \E i \in DOMAIN ci[k][s], result \in {"success", "failure", "cancelled", "active"} :
       /\ (ci[k][s][i].result = "active") # (result = "active")
       /\ result = "active" => s[1] = "runs"
       /\ Changes(k, s, [ci[k][s] EXCEPT ![i].result = result])

Vanishes(k, s) ==
  /\ UNCHANGED items
  /\ \E i \in DOMAIN ci[k][s] :
       /\ s[1] = "runs" => ci[k][JobsOf(ci[k][s][i].id)] = <<>>
       /\ Changes(k, s, RemoveAt(ci[k][s], i))

----------------------------------------------------------------------------
\* The adapter.

Reading(list) == [list |-> list, page |-> 1, total |-> 0, seen |-> {}]

StartQuery(p, k, filter) ==
  /\ query[p].pc = "idle"
  /\ query' = [query EXCEPT ![p] = [pc |-> "reading", commit |-> k, filter |-> filter, at |-> Reading(All("runs")),
                                    next |-> <<All("checks"), All("suites")>>, observed |-> {}]]
  /\ standing' = [standing EXCEPT ![p] = Unsuccessful(ci[k], filter)]
  /\ UNCHANGED <<ci, items, receipts, verdict>>

PageOf(list, n) == ToSet(SubSeq(list, (n - 1) * PageSize + 1, Min({n * PageSize, Len(list)})))

\* consumePaginationPage and the check of duplicates: "done", "more" or a refusal.
\* Variant: the number of items is not compared between the pages.
AnyTotal(at, list, page) ==
  IF page = {} \/ at.page * PageSize >= Len(list) THEN "done"
  ELSE IF at.page = MaxPages THEN "refused" ELSE "more"

Pagination(at, list, page) ==
  LET collected == Cardinality(at.seen) + Cardinality(page)
      total == IF at.page = 1 THEN Len(list) ELSE at.total
  IN IF Len(list) # total \/ collected > total \/ {i.id : i \in page} \cap at.seen # {} THEN "refused"
     ELSE IF collected = total THEN "done"
     ELSE IF Cardinality(page) < PageSize \/ at.page = MaxPages THEN "refused" ELSE "more"

Refuse(p) == query' = [query EXCEPT ![p] = [pc |-> "failed", commit |-> query[p].commit, filter |-> query[p].filter]]

NextPage(at, list, page) ==
  [at EXCEPT !.page = @ + 1, !.total = Len(list), !.seen = @ \cup {i.id : i \in page}]

\* The list is at its end: the jobs of the runs that match come after the runs.
NextList(q, observed, runs) ==
  LET next == SetToSeq({JobsOf(r) : r \in runs}) \o q.next
  IN IF next = <<>> THEN [q EXCEPT !.pc = "read", !.observed = observed]
     ELSE [q EXCEPT !.at = Reading(Head(next)), !.next = Tail(next), !.observed = observed]

\* What a page shows: of the runs those that match, of the other lists every item.
Shown(q, page) ==
  LET isRun == q.at.list[1] = "runs"
  IN {[id |-> i.id, run |-> isRun, result |-> i.result] : i \in {x \in page : isRun => Matches(x, q.filter)}}

ReadPage(p) ==
  LET q == query[p]
      list == ci[q.commit][q.at.list]
      page == PageOf(list, q.at.page)
      observed == q.observed \cup Shown(q, page)
      runs == {o.id : o \in {x \in observed : x.run}}
  IN /\ q.pc = "reading"
     /\ \/ Pagination(q.at, list, page) = "refused" /\ Refuse(p)
        \/ /\ Pagination(q.at, list, page) = "more"
           /\ query' = [query EXCEPT ![p] = [q EXCEPT !.observed = observed, !.at = NextPage(q.at, list, page)]]
        \/ /\ Pagination(q.at, list, page) = "done"
           /\ IF q.at.list[1] = "runs" /\ q.filter # NoFilter /\ runs = {} THEN Refuse(p)
              ELSE query' = [query EXCEPT ![p] = NextList(q, observed, IF q.at.list[1] = "runs" THEN runs ELSE {})]
     /\ UNCHANGED <<ci, items, standing, receipts, verdict>>

\* A request fails, is refused or comes too late.
QueryFails(p) ==
  /\ query[p].pc = "reading" /\ Refuse(p)
  /\ UNCHANGED <<ci, items, standing, receipts, verdict>>

\* aggregateConclusion; "nothing" when there was no item.
Aggregate(results) ==
  IF "failure" \in results THEN "FAILURE" ELSE IF "cancelled" \in results THEN "CANCELLED"
  ELSE IF "active" \in results THEN "IN_PROGRESS" ELSE IF results # {} THEN "SUCCESS" ELSE "nothing"

IssueReceipt(p) ==
  /\ query[p].pc = "read"
  /\ LET results == {o.result : o \in query[p].observed}
     IN IF results = {} THEN Refuse(p) /\ UNCHANGED receipts
        ELSE /\ receipts' = receipts \cup {[domain |-> p, commit |-> query[p].commit, filter |-> query[p].filter,
                                            observed |-> results, conclusion |-> Aggregate(results)]}
             /\ query' = [query EXCEPT ![p] = [pc |-> "issued", commit |-> query[p].commit, filter |-> query[p].filter]]
  /\ UNCHANGED <<ci, items, standing, verdict>>

----------------------------------------------------------------------------
\* The validator.

\* validateCiQueryReceiptDomain
InDomain(r, p) == r.domain = p

\* validateCiQueryExecutionContext: what the phase asked for.
InContext(r, p) == r.commit = query[p].commit /\ r.filter = query[p].filter

\* validateCiQueryReceipt: something was observed, and the conclusion follows from it.
Substantial(r) == r.observed # {}
Consistent(r) == r.conclusion = Aggregate(r.observed)

Accept(p, r) ==
  /\ query[p].pc # "idle" /\ verdict[p] = "none"
  /\ InDomain(r, p) /\ InContext(r, p) /\ Substantial(r) /\ Consistent(r)
  /\ verdict' = [verdict EXCEPT ![p] = r.conclusion]
  /\ UNCHANGED <<ci, items, query, standing, receipts>>

CiNext ==
  \/ \E k \in Commit, s \in Lists : Appears(k, s) \/ Progresses(k, s) \/ Vanishes(k, s)
  \/ \E p \in Phase :
       \/ \E k \in Commit, filter \in Workflow \cup {NoFilter} : StartQuery(p, k, filter)
       \/ ReadPage(p) \/ QueryFails(p) \/ IssueReceipt(p)
       \/ \E r \in receipts : Accept(p, r)

CiSpec == CiInit /\ [][CiNext]_ciVars

----------------------------------------------------------------------------
\* A phase is told SUCCESS only if no item of its commit, among those its
\* filter leaves, was without success from the beginning of the phase to the
\* acceptance of its evidence: neither a list that shifts between two pages nor
\* a receipt of an earlier phase hides one (GitHubCiQueryAdapter.execute,
\* consumePaginationPage, validateCiQueryReceiptDomain).
SuccessHidesNothing == \A p \in Phase : verdict[p] = "SUCCESS" => standing[p] = {}
=============================================================================
