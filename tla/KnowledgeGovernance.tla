------------------------ MODULE KnowledgeGovernance ------------------------
(***************************************************************************)
(* Governance of the knowledge base: the metadata row beside each          *)
(* document, the scan that turns it into issues, and the review of the     *)
(* issues by people.  A scan reads metadata, clauses and issues in one     *)
(* snapshot and writes later; a review holds the row lock of its issue     *)
(* from SELECT ... FOR UPDATE to the commit; an edit reads its row without *)
(* a lock.  Sentences are abstracted to the rule they state: clauses with  *)
(* the same subject are the ones _text_similarity calls similar.           *)
(***************************************************************************)
EXTENDS Integers, Sequences, FiniteSets, TLC

CONSTANTS
  Docs,        \* documents of one tenant, numbered as their ids sort
  Clauses,     \* document -> set of clauses [scope, subject, polarity, limit]
  Patches,     \* field values one PUT may carry, as functions of the fields
  Scanners, Reviewers, Editors,  \* sessions
  Warning,     \* expiry_warning_days
  Reviewed,    \* the types of issue people look at in this instance
  MaxClock, MaxScans, MaxReviews, MaxEdits,  \* bounds of an instance
  None         \* NULL

VARIABLES
  clock,
  meta,        \* knowledge_document_metadata by document, None without a row
  issue,       \* knowledge_governance_issue by fingerprint, None without a row
  trail,       \* knowledge_governance_review by fingerprint, oldest first
  scan,        \* scanner -> None or what it has read
  review,      \* reviewer -> None or the decision it holds the lock for
  edit,        \* editor -> None or the row it has read and its patch
  scans, edits \* started so far

vars == <<clock, meta, issue, trail, scan, review, edit, scans, edits>>

Statuses == {"open", "confirmed", "resolved", "ignored"}
Transitions ==
  [open |-> Statuses, confirmed |-> Statuses,
   resolved |-> {"open", "resolved"}, ignored |-> {"open", "ignored"}]

LifecycleTypes == {"metadata_missing", "not_yet_effective", "expired", "expiring", "review_due"}
ConflictTypes == {"conflict_negation", "conflict_threshold"}
Fingerprints ==
  {<<t, {d}>> : t \in LifecycleTypes, d \in Docs} \cup
  {<<t, p>> : t \in ConflictTypes, p \in {q \in SUBSET Docs : Cardinality(q) = 2}}

Fresh == [version |-> "draft", effective |-> None, expires |-> None,
          permanent |-> FALSE, interval |-> None, next |-> None]

Versions == {"draft", "active", "superseded", "withdrawn"}

GovernanceAssumption ==
  /\ {MaxClock, MaxScans, MaxEdits} \subseteq Nat
  /\ None \notin [status : Statuses, count : Nat]
  /\ \A p \in Patches :
       DOMAIN p \subseteq DOMAIN Fresh /\ ("version" \in DOMAIN p => p.version \in Versions)

-----------------------------------------------------------------------------
(* The judgements *)

Complete(m) ==
  /\ m # None
  /\ m.effective # None
  /\ m.permanent \/ m.expires # None
  /\ m.interval # None \/ m.next # None

Lapsed(m, now) == ~m.permanent /\ m.expires # None /\ m.expires < now

\* mutant
EffectiveStateUnbounded(m, now) ==
  IF m = None \/ m.version # "active" THEN "metadata_incomplete"
  ELSE IF m.expires # None /\ m.expires <= now THEN "expired" ELSE "active"

EffectiveState(m, now) ==
  IF m = None THEN "metadata_incomplete"
  ELSE IF m.version # "active" THEN m.version
  ELSE IF m.effective = None THEN "metadata_incomplete"
  ELSE IF m.effective > now THEN "not_yet_effective"
  ELSE IF Lapsed(m, now) THEN "expired" ELSE "active"

IsRetrievable(m, now) ==
  EffectiveState(m, now) \notin {"superseded", "withdrawn", "not_yet_effective", "expired"}

Retired(m) == m # None /\ m.version \in {"superseded", "withdrawn"}

Applies(t, m, now) ==
  \/ t = "metadata_missing" /\ ~Complete(m)
  \/ /\ m # None /\ ~Retired(m)
     /\ \/ t = "not_yet_effective" /\ m.effective # None /\ m.effective > now
        \/ t = "expired" /\ Lapsed(m, now)
        \/ /\ t = "expiring" /\ ~m.permanent
           /\ m.expires # None /\ m.expires \in now .. now + Warning
        \/ t = "review_due" /\ m.next # None /\ m.next <= now

LifecycleFindings(d, m, now) == {<<t, {d}>> : t \in {u \in LifecycleTypes : Applies(u, m, now)}}

Contradict(t, x, y) ==
  /\ x.subject = y.subject
  /\ \/ t = "conflict_negation" /\ x.polarity * y.polarity = -1
     \/ t = "conflict_threshold" /\ None \notin {x.limit, y.limit} /\ x.limit # y.limit

Conflicts ==
  {f \in Fingerprints :
    /\ f[1] \in ConflictTypes
    /\ \A d \in f[2] : ~Retired(meta[d])
    /\ \E a \in f[2] : \E b \in f[2] \ {a} :
         /\ \E x \in Clauses[a], y \in Clauses[b] : x.scope = y.scope
         /\ \E x \in Clauses[a], y \in Clauses[b] : Contradict(f[1], x, y)}

Findings == Conflicts \cup UNION {LifecycleFindings(d, meta[d], clock) : d \in Docs}

-----------------------------------------------------------------------------
Init ==
  /\ clock = 0
  /\ meta = [d \in Docs |-> None]
  /\ issue = [f \in Fingerprints |-> None]
  /\ trail = [f \in Fingerprints |-> <<>>]
  /\ scan = [s \in Scanners |-> None]
  /\ review = [r \in Reviewers |-> None]
  /\ edit = [e \in Editors |-> None]
  /\ scans = 0 /\ edits = 0

Tick ==
  /\ clock < MaxClock /\ clock' = clock + 1
  /\ UNCHANGED <<meta, issue, trail, scan, review, edit, scans, edits>>

(* An edit reads the row, or finds there is none. *)
BeginEdit(e, d, patch) ==
  /\ edit[e] = None /\ edits < MaxEdits
  /\ edit' = [edit EXCEPT ![e] = [doc |-> d, seen |-> meta[d], patch |-> patch]]
  /\ edits' = edits + 1
  /\ UNCHANGED <<clock, meta, issue, trail, scan, review, scans>>

Normalized(patch) ==
  IF "permanent" \in DOMAIN patch /\ patch.permanent
  THEN [k \in DOMAIN patch \cup {"expires"} |-> IF k = "expires" THEN None ELSE patch[k]]
  ELSE patch

Merged(patch, old) ==
  [k \in DOMAIN Fresh |-> IF k \in DOMAIN patch THEN patch[k] ELSE old[k]]

\* mutant
ValidDates(m) == None \in {m.effective, m.expires} \/ m.effective <= m.expires

Valid(m) ==
  /\ ~(m.permanent /\ m.expires # None)
  /\ ValidDates(m)

Rescheduled(patch, m) ==
  IF m.interval = None \/ "next" \in DOMAIN patch THEN m
  ELSE [m EXCEPT !.next = (IF m.effective = None THEN clock ELSE m.effective) + m.interval]

(* The merged row is validated; only the columns that changed are written. *)
CommitEdit(e) ==
  LET u == edit[e]
      old == IF u.seen = None THEN Fresh ELSE u.seen
      new == Rescheduled(u.patch, Merged(Normalized(u.patch), old))
  IN
  /\ u # None
  /\ IF ~Valid(new) \/ (u.seen = None /\ meta[u.doc] # None)
     THEN UNCHANGED meta
     ELSE meta' = [meta EXCEPT ![u.doc] =
            IF u.seen = None THEN new
            ELSE [k \in DOMAIN Fresh |-> IF new[k] = old[k] THEN @[k] ELSE new[k]]]
  /\ edit' = [edit EXCEPT ![e] = None]
  /\ UNCHANGED <<clock, issue, trail, scan, review, scans, edits>>

(* run_scan up to the SELECT of the issues it knows. *)
BeginScan(s) ==
  /\ scan[s] = None /\ scans < MaxScans
  /\ Findings # {}
  /\ scan' = [scan EXCEPT ![s] = [f \in Findings |-> issue[f]]]
  /\ scans' = scans + 1
  /\ UNCHANGED <<clock, meta, issue, trail, review, edit, edits>>

Refreshed(row, seen) == [row EXCEPT !.count = seen.count + 1]

(* _persist_findings: refresh the known, insert the others, in one commit; *)
(* an insert that another scan has made first undoes everything.           *)
CommitScan(s) ==
  LET read == scan[s]
      collides == \E f \in DOMAIN read : read[f] = None /\ issue[f] # None
  IN
  /\ read # None
  /\ ~\E r \in Reviewers : review[r] # None /\ review[r].issue \in DOMAIN read
  /\ issue' = IF collides THEN issue ELSE
       [f \in Fingerprints |->
          IF f \notin DOMAIN read THEN issue[f]
          ELSE IF read[f] = None THEN [status |-> "open", count |-> 1]
          ELSE Refreshed(issue[f], read[f])]
  /\ scan' = [scan EXCEPT ![s] = None]
  /\ UNCHANGED <<clock, meta, trail, review, edit, scans, edits>>

Unlocked(f) == ~\E r \in Reviewers : review[r] # None /\ review[r].issue = f

BeginReview(r, f, target) ==
  /\ f[1] \in Reviewed
  /\ review[r] = None /\ issue[f] # None /\ Unlocked(f)
  /\ Len(trail[f]) < MaxReviews
  /\ target \in Transitions[issue[f].status]
  /\ review' = [review EXCEPT ![r] = [issue |-> f, from |-> issue[f].status, to |-> target]]
  /\ UNCHANGED <<clock, meta, issue, trail, scan, edit, scans, edits>>

CommitReview(r) ==
  LET w == review[r] IN
  /\ w # None
  /\ issue' = [issue EXCEPT ![w.issue].status = w.to]
  /\ trail' = [trail EXCEPT ![w.issue] = Append(@, <<w.from, w.to>>)]
  /\ review' = [review EXCEPT ![r] = None]
  /\ UNCHANGED <<clock, meta, scan, edit, scans, edits>>

Next ==
  \/ Tick
  \/ \E e \in Editors : CommitEdit(e) \/ \E d \in Docs, p \in Patches : BeginEdit(e, d, p)
  \/ \E s \in Scanners : BeginScan(s) \/ CommitScan(s)
  \/ \E r \in Reviewers :
       \/ CommitReview(r)
       \/ \E f \in Fingerprints, t \in Statuses : BeginReview(r, f, t)

Spec == Init /\ [][Next]_vars

-----------------------------------------------------------------------------
(* Columns and sessions hold values of their kinds. *)
TypeOK ==
  /\ clock \in 0 .. MaxClock /\ scans \in 0 .. MaxScans /\ edits \in 0 .. MaxEdits
  /\ \A d \in Docs : meta[d] = None \/ DOMAIN meta[d] = DOMAIN Fresh
  /\ issue \in [Fingerprints -> {None} \cup [status : Statuses, count : 1 .. MaxScans]]
  /\ \A f \in Fingerprints : trail[f] \in Seq(Statuses \X Statuses)
  /\ \A s \in Scanners : scan[s] = None \/ DOMAIN scan[s] \subseteq Fingerprints

(* The audit trail explains every issue: it starts at open, each review     *)
(* starts where the one before it ended and makes a legal transition, and   *)
(* the status of the issue is where the last one ended.  Scans that rewrite *)
(* the row while it is under review must not disturb this (review_issue,    *)
(* _persist_findings).                                                      *)
TrailExplainsStatus ==
  \A f \in Fingerprints : issue[f] # None =>
    LET path == <<"open">> \o [i \in 1 .. Len(trail[f]) |-> trail[f][i][2]] IN
    /\ \A i \in 1 .. Len(trail[f]) :
         trail[f][i][1] = path[i] /\ trail[f][i][2] \in Transitions[path[i]]
    /\ issue[f].status = path[Len(path)]

(* Retrieval and reports agree on time: a document that people have not     *)
(* retired is kept out of the answers only if the scan of this moment       *)
(* reports it as expired or not yet effective (is_retrievable against       *)
(* build_lifecycle_findings).                                               *)
BlockedIsReported ==
  \A d \in Docs :
    ~IsRetrievable(meta[d], clock) /\ ~Retired(meta[d]) =>
      {<<"expired", {d}>>, <<"not_yet_effective", {d}>>}
        \cap LifecycleFindings(d, meta[d], clock) # {}

(* However small the changes that lead to it, a stored row never promises   *)
(* to be permanent and to expire, or to expire before it takes effect, as   *)
(* long as one person at a time edits (upsert_metadata).                    *)
MetaConsistent ==
  \A d \in Docs : meta[d] # None =>
    LET m == meta[d] IN
    /\ ~(m.permanent /\ m.expires # None)
    /\ None \in {m.effective, m.expires} \/ m.effective <= m.expires

\* The governance of documents: the trail of reviews explains every status, what blocks a
\* document is reported, and the dates of its metadata agree.
ReviewsSound == TypeOK /\ TrailExplainsStatus /\ BlockedIsReported /\ MetaConsistent
=============================================================================
