--------------------------- MODULE KnowledgeProofs ---------------------------
(***************************************************************************)
(* The services of the knowledge base and the backups, for every set of    *)
(* documents, requests, drafts and stored items, and for every bound.      *)
(*                                                                         *)
(* Each part has an inductive invariant of its own: what it promises,      *)
(* joined with what its scans, reviews, confirmations and restores under   *)
(* way still know about the rows and files when they come to write.  Every *)
(* action has a lemma that it keeps the invariant of its part.             *)
(***************************************************************************)
EXTENDS MCKnowledge, FiniteSetTheorems, TLAPS

KnowledgeStep == [KnowledgeNext]_<<focus, vars, store, cutting, gap, evolution, backups>>

-----------------------------------------------------------------------------
(* The governance of documents.                                             *)

\* At most one person at a time edits metadata.
OneEditor == \A a, b \in Editors : a = b

IssueRow == [status : Statuses, count : Nat]

\* The status an issue had before its review of that number.
Before(f, i) == IF i = 1 THEN "open" ELSE trail[f][i - 1][2]

Explained(f) ==
  /\ \A i \in 1 .. Len(trail[f]) :
       /\ trail[f][i][1] = Before(f, i)
       /\ trail[f][i][2] \in Transitions[Before(f, i)]
  /\ issue[f].status = Before(f, Len(trail[f]) + 1)

IssueOK(f) ==
  /\ trail[f] \in Seq(Statuses \X Statuses)
  /\ issue[f] = None => trail[f] = <<>>
  /\ issue[f] # None =>
       /\ issue[f] \in IssueRow /\ issue[f].count \in 1 .. scans
       /\ Explained(f)

\* What a scan has read is still there, and was counted by the scans before it.
ScanOK(s) ==
  scan[s] # None =>
    /\ DOMAIN scan[s] \subseteq Fingerprints /\ scans >= 1
    /\ \A f \in DOMAIN scan[s] : scan[s][f] # None =>
         issue[f] # None /\ scan[s][f].count \in 1 .. scans - 1

\* A reviewer decides about the status the issue still has, and no other does.
ReviewOK(r) ==
  review[r] # None =>
    LET w == review[r] IN
    /\ w.issue \in Fingerprints /\ issue[w.issue] # None
    /\ w.from \in Statuses /\ w.to \in Statuses
    /\ issue[w.issue].status = w.from /\ w.to \in Transitions[w.from]
    /\ \A o \in Reviewers : review[o] # None /\ review[o].issue = w.issue => o = r

MetaRow(m) == DOMAIN m = DOMAIN Fresh /\ m.version \in Versions

EditOK(e) ==
  edit[e] # None =>
    LET u == edit[e] IN
    /\ u.doc \in Docs /\ u.patch \in Patches
    /\ u.seen # None => MetaRow(u.seen) /\ MetaRow(meta[u.doc])
    /\ OneEditor => u.seen = meta[u.doc]

GovernanceInv ==
  /\ clock \in 0 .. MaxClock /\ scans \in 0 .. MaxScans /\ edits \in 0 .. MaxEdits
  /\ DOMAIN meta = Docs /\ DOMAIN issue = Fingerprints /\ DOMAIN trail = Fingerprints
  /\ issue = [f \in Fingerprints |-> issue[f]]
  /\ DOMAIN scan = Scanners /\ DOMAIN review = Reviewers /\ DOMAIN edit = Editors
  /\ \A d \in Docs : meta[d] # None => MetaRow(meta[d])
  /\ \A f \in Fingerprints : IssueOK(f)
  /\ \A s \in Scanners : ScanOK(s)
  /\ \A r \in Reviewers : ReviewOK(r)
  /\ \A e \in Editors : EditOK(e)
  /\ OneEditor => MetaConsistent

\* At the start there are no rows, no issues and no sessions.
LEMMA GovernanceBegins == Init => GovernanceInv
<1> SUFFICES ASSUME Init PROVE GovernanceInv
  OBVIOUS
<1>1. MaxClock \in Nat /\ MaxScans \in Nat /\ MaxEdits \in Nat
  BY KnowledgeAssumption DEF GovernanceAssumption
<1> USE DEF Init
<1>2. 0 \in 0 .. MaxClock /\ 0 \in 0 .. MaxScans /\ 0 \in 0 .. MaxEdits
  BY <1>1
<1>3. \A f \in Fingerprints : IssueOK(f)
  BY DEF IssueOK
<1>4. MetaConsistent
  BY DEF MetaConsistent
<1> QED BY <1>2, <1>3, <1>4 DEF GovernanceInv, ScanOK, ReviewOK, EditOK

\* What a step leaves alone stays in order.
LEMMA LeftAlone ==
  ASSUME GovernanceInv
  PROVE  /\ UNCHANGED <<issue, trail, scans>> => \A f \in Fingerprints : IssueOK(f)'
         /\ UNCHANGED <<issue, scan, scans>> => \A s \in Scanners : ScanOK(s)'
         /\ UNCHANGED <<issue, review>> => \A r \in Reviewers : ReviewOK(r)'
         /\ UNCHANGED <<meta, edit>> => \A e \in Editors : EditOK(e)'
         /\ UNCHANGED meta => (OneEditor => MetaConsistent')
<1>1. UNCHANGED <<issue, trail, scans>> => \A f \in Fingerprints : IssueOK(f)'
  BY DEF GovernanceInv, IssueOK, Explained, Before
<1>2. UNCHANGED <<issue, scan, scans>> => \A s \in Scanners : ScanOK(s)'
  BY DEF GovernanceInv, ScanOK
<1>3. UNCHANGED <<issue, review>> => \A r \in Reviewers : ReviewOK(r)'
  BY DEF GovernanceInv, ReviewOK
<1>4. UNCHANGED <<meta, edit>> => \A e \in Editors : EditOK(e)'
  BY DEF GovernanceInv, EditOK
<1>5. UNCHANGED meta => (OneEditor => MetaConsistent')
  BY DEF GovernanceInv, MetaConsistent
<1> QED BY <1>1, <1>2, <1>3, <1>4, <1>5

\* Time passes without touching a row.
LEMMA TickKeeps == GovernanceInv /\ Tick => GovernanceInv'
<1> SUFFICES ASSUME GovernanceInv, Tick PROVE GovernanceInv'
  OBVIOUS
<1>1. clock' \in 0 .. MaxClock
  BY KnowledgeAssumption DEF GovernanceInv, Tick, GovernanceAssumption
<1> QED BY <1>1, LeftAlone DEF GovernanceInv, Tick

\* An edit begins with the row as it is.
LEMMA BeginEditKeeps ==
  ASSUME GovernanceInv, NEW e \in Editors, NEW d \in Docs, NEW p \in Patches, BeginEdit(e, d, p)
  PROVE  GovernanceInv'
<1>1. PICK u : u = [doc |-> d, seen |-> meta[d], patch |-> p]
  OBVIOUS
<1>2. edit' = [edit EXCEPT ![e] = u] /\ edits' = edits + 1 /\ edits < MaxEdits
      /\ UNCHANGED <<clock, meta, issue, trail, scan, review, scans>>
  BY <1>1 DEF BeginEdit
<1>3. edits' \in 0 .. MaxEdits
  BY <1>2, KnowledgeAssumption DEF GovernanceInv, GovernanceAssumption
<1>4. ASSUME NEW o \in Editors PROVE EditOK(o)'
  <2>1. CASE o = e
    BY <1>1, <1>2, <2>1 DEF EditOK, GovernanceInv
  <2>2. CASE o # e
    BY <1>2, <2>2 DEF EditOK, GovernanceInv
  <2> QED BY <2>1, <2>2
<1> QED BY <1>2, <1>3, <1>4, LeftAlone DEF GovernanceInv

\* Fields laid over a row make a row.
LEMMA LaidOver ==
  ASSUME NEW patch \in Patches, NEW old, MetaRow(old)
  PROVE  MetaRow(Rescheduled(patch, Merged(Normalized(patch), old)))
<1>1. /\ DOMAIN patch \subseteq DOMAIN Fresh
      /\ "version" \in DOMAIN patch => patch.version \in Versions
  BY KnowledgeAssumption DEF GovernanceAssumption
<1>2. PICK q : q = Normalized(patch)
  OBVIOUS
<1>3. DOMAIN Fresh = {"version", "effective", "expires", "permanent", "interval", "next"}
  BY DEF Fresh
<1>4. DOMAIN q \subseteq DOMAIN Fresh /\ ("version" \in DOMAIN q => q.version \in Versions)
  BY <1>1, <1>2, <1>3 DEF Normalized
<1>5. PICK m : m = Merged(q, old)
  OBVIOUS
<1>6. MetaRow(m)
  BY <1>3, <1>4, <1>5 DEF MetaRow, Merged
<1>7. MetaRow(Rescheduled(patch, m))
  BY <1>3, <1>6 DEF MetaRow, Rescheduled
<1> QED BY <1>2, <1>5, <1>7

\* An edit leaves a row of known fields; with one editor, the row it has validated.
LEMMA CommitEditKeeps ==
  ASSUME GovernanceInv, NEW e \in Editors, CommitEdit(e)
  PROVE  GovernanceInv'
<1>1. PICK u : u = edit[e]
  OBVIOUS
<1>2. PICK old : old = IF u.seen = None THEN Fresh ELSE u.seen
  OBVIOUS
<1>3. PICK new : new = Rescheduled(u.patch, Merged(Normalized(u.patch), old))
  OBVIOUS
<1>4. PICK stored : stored = [k \in DOMAIN Fresh |-> IF new[k] = old[k] THEN meta[u.doc][k] ELSE new[k]]
  OBVIOUS
<1>5. /\ u # None /\ edit' = [edit EXCEPT ![e] = None]
      /\ \/ meta' = meta
         \/ Valid(new) /\ u.seen = None /\ meta[u.doc] = None /\ meta' = [meta EXCEPT ![u.doc] = new]
         \/ Valid(new) /\ u.seen # None /\ meta' = [meta EXCEPT ![u.doc] = stored]
      /\ UNCHANGED <<clock, issue, trail, scan, review, scans, edits>>
  BY <1>1, <1>2, <1>3, <1>4 DEF CommitEdit
<1>6. /\ u.doc \in Docs /\ u.patch \in Patches /\ (u.seen # None => MetaRow(u.seen))
      /\ OneEditor => u.seen = meta[u.doc]
  BY <1>1, <1>5 DEF GovernanceInv, EditOK
<1>7. MetaRow(old)
  <2>1. MetaRow(Fresh)
    BY DEF MetaRow, Fresh, Versions
  <2> QED BY <1>2, <1>6, <2>1
<1>8. MetaRow(new)
  BY <1>3, <1>6, <1>7, LaidOver
<1>9. ASSUME u.seen # None PROVE MetaRow(stored)
  <2>1. MetaRow(meta[u.doc])
    BY <1>1, <1>5, <1>9 DEF GovernanceInv, EditOK
  <2>2. "version" \in DOMAIN Fresh
    BY DEF Fresh
  <2> QED BY <1>4, <1>8, <2>1, <2>2 DEF MetaRow
<1>10. DOMAIN meta' = Docs /\ \A d \in Docs : d # u.doc => meta'[d] = meta[d]
  BY <1>5, <1>6 DEF GovernanceInv
<1>11. meta'[u.doc] = meta[u.doc] \/ MetaRow(meta'[u.doc])
  BY <1>5, <1>6, <1>8, <1>9 DEF GovernanceInv
<1>12. \A d \in Docs : meta[d] # None \/ MetaRow(meta[d]) => meta'[d] = meta[d] \/ MetaRow(meta'[d])
  BY <1>10, <1>11
<1>13. \A d \in Docs : meta'[d] # None => MetaRow(meta'[d])
  BY <1>10, <1>11 DEF GovernanceInv
<1>14. ASSUME NEW o \in Editors PROVE EditOK(o)'
  <2>1. CASE o = e
    BY <1>5, <2>1 DEF EditOK, GovernanceInv
  <2>2. CASE o # e
    <3>1. edit'[o] = edit[o] /\ EditOK(o) /\ ~OneEditor
      BY <1>5, <2>2 DEF GovernanceInv, OneEditor
    <3>2. ASSUME edit[o] # None, edit[o].seen # None PROVE MetaRow(meta'[edit[o].doc])
      BY <1>10, <1>11, <3>1, <3>2 DEF EditOK
    <3> QED BY <3>1, <3>2 DEF EditOK
  <2> QED BY <2>1, <2>2
<1>15. ASSUME OneEditor PROVE MetaConsistent'
  <2>1. MetaConsistent /\ u.seen = meta[u.doc]
    BY <1>6, <1>15 DEF GovernanceInv
  <2>2. ASSUME u.seen # None PROVE \A k \in DOMAIN Fresh : stored[k] = new[k]
    BY <1>2, <1>4, <2>1, <2>2
  <2>3. {"permanent", "expires", "effective"} \subseteq DOMAIN Fresh
    BY DEF Fresh
  <2>4. u.seen # None /\ Valid(new) => Valid(stored)
    BY <2>2, <2>3 DEF Valid, ValidDates
  <2>5. meta'[u.doc] = meta[u.doc] \/ Valid(meta'[u.doc])
    BY <1>5, <1>6, <2>4 DEF GovernanceInv
  <2> QED BY <1>10, <2>1, <2>5 DEF MetaConsistent, Valid, ValidDates
<1> QED BY <1>5, <1>10, <1>13, <1>14, <1>15, LeftAlone DEF GovernanceInv

\* A scan reads the issues there are, and counts itself.
LEMMA BeginScanKeeps ==
  ASSUME GovernanceInv, NEW s \in Scanners, BeginScan(s)
  PROVE  GovernanceInv'
<1>1. PICK read : read = [f \in Findings |-> issue[f]]
  OBVIOUS
<1>2. scan' = [scan EXCEPT ![s] = read] /\ scans' = scans + 1 /\ scans < MaxScans
      /\ UNCHANGED <<clock, meta, issue, trail, review, edit, edits>>
  BY <1>1 DEF BeginScan
<1>3. scans' \in 0 .. MaxScans /\ scans \in Nat
  BY <1>2, KnowledgeAssumption DEF GovernanceInv, GovernanceAssumption
<1>4. Findings \subseteq Fingerprints
  BY DEF Findings, Conflicts, LifecycleFindings, Fingerprints
<1>5. ASSUME NEW f \in Fingerprints PROVE IssueOK(f)'
  <2>1. IssueOK(f) /\ (Explained(f) => Explained(f)')
    BY <1>2 DEF GovernanceInv, Explained, Before
  <2> QED BY <1>2, <1>3, <2>1 DEF IssueOK
<1>6. ASSUME NEW o \in Scanners PROVE ScanOK(o)'
  <2>1. CASE o = s
    <3>1. \A f \in Findings : read[f] # None => issue[f] # None /\ read[f].count \in 1 .. scans
      BY <1>1, <1>4 DEF GovernanceInv, IssueOK
    <3>2. scan'[o] = read /\ DOMAIN read = Findings
      BY <1>1, <1>2, <2>1 DEF GovernanceInv
    <3>3. scans' - 1 = scans /\ scans' >= 1 /\ issue' = issue
      BY <1>2, <1>3
    <3> QED BY <1>4, <3>1, <3>2, <3>3 DEF ScanOK
  <2>2. CASE o # s
    <3>1. scan'[o] = scan[o] /\ ScanOK(o)
      BY <1>2, <2>2 DEF GovernanceInv
    <3> QED BY <1>2, <1>3, <3>1 DEF ScanOK
  <2> QED BY <2>1, <2>2
<1> QED BY <1>2, <1>3, <1>5, <1>6, LeftAlone DEF GovernanceInv

\* A row that a step rewrites without its status keeps its place in the trail.
LEMMA StatusKept ==
  ASSUME GovernanceInv, NEW f \in Fingerprints,
         UNCHANGED <<trail, scans>>, issue[f] # None,
         issue'[f] \in IssueRow, issue'[f].count \in 1 .. scans, issue'[f].status = issue[f].status
  PROVE  IssueOK(f)'
<1>1. IssueOK(f) /\ Explained(f)
  BY DEF GovernanceInv, IssueOK
<1>2. Explained(f)'
  BY <1>1 DEF Explained, Before
<1>3. issue'[f] # None
  BY KnowledgeAssumption DEF GovernanceAssumption, IssueRow
<1> QED BY <1>1, <1>2, <1>3 DEF IssueOK

\* A scan inserts open issues with no review yet, and refreshes others without their status.
LEMMA CommitScanKeeps ==
  ASSUME GovernanceInv, NEW s \in Scanners, CommitScan(s)
  PROVE  GovernanceInv'
<1>1. PICK read : read = scan[s]
  OBVIOUS
<1>2. /\ read # None /\ scan' = [scan EXCEPT ![s] = None]
      /\ \/ issue' = issue
         \/ /\ \A f \in DOMAIN read : read[f] = None => issue[f] = None
            /\ issue' = [f \in Fingerprints |->
                 IF f \notin DOMAIN read THEN issue[f]
                 ELSE IF read[f] = None THEN [status |-> "open", count |-> 1]
                 ELSE Refreshed(issue[f], read[f])]
      /\ UNCHANGED <<clock, meta, trail, review, edit, scans, edits>>
  BY <1>1 DEF CommitScan
<1>3. ScanOK(s) /\ scans \in Nat /\ scans >= 1
  BY <1>1, <1>2 DEF GovernanceInv, ScanOK
<1>4. ASSUME NEW f \in Fingerprints
      PROVE  /\ IssueOK(f)'
             /\ issue[f] # None => issue'[f] # None /\ issue'[f].status = issue[f].status
  <2>1. CASE issue'[f] = issue[f]
    <3>1. Explained(f) => Explained(f)'
      BY <1>2, <2>1 DEF Explained, Before
    <3> QED BY <1>2, <2>1, <3>1 DEF GovernanceInv, IssueOK
  <2>2. CASE f \in DOMAIN read /\ read[f] = None /\ issue[f] = None
             /\ issue'[f] = [status |-> "open", count |-> 1]
    <3>1. issue'[f] \in IssueRow /\ issue'[f].count \in 1 .. scans
      BY <1>3, <2>2 DEF IssueRow, Statuses
    <3>2. trail'[f] = <<>>
      BY <1>2, <2>2 DEF GovernanceInv, IssueOK
    <3>3. Explained(f)'
      BY <2>2, <3>2 DEF Explained, Before
    <3>4. issue'[f] # None
      BY <3>1, KnowledgeAssumption DEF GovernanceAssumption, IssueRow
    <3> QED BY <1>2, <2>2, <3>1, <3>2, <3>3, <3>4 DEF IssueOK
  <2>3. CASE f \in DOMAIN read /\ read[f] # None /\ issue'[f] = Refreshed(issue[f], read[f])
    <3>1. issue[f] # None /\ read[f].count + 1 \in 1 .. scans
      BY <1>1, <1>2, <1>3, <2>3 DEF ScanOK
    <3>2. issue[f] \in IssueRow
      BY <3>1 DEF GovernanceInv, IssueOK
    <3>3. issue'[f] \in IssueRow /\ issue'[f].count \in 1 .. scans /\ issue'[f].status = issue[f].status
      BY <1>3, <2>3, <3>1, <3>2 DEF Refreshed, IssueRow
    <3>4. issue'[f] # None
      BY <3>3, KnowledgeAssumption DEF GovernanceAssumption, IssueRow
    <3> QED BY <1>2, <3>1, <3>3, <3>4, StatusKept
  <2> QED BY <1>2, <2>1, <2>2, <2>3
<1>5. DOMAIN issue' = Fingerprints /\ issue' = [f \in Fingerprints |-> issue'[f]]
  BY <1>2 DEF GovernanceInv
<1>6. ASSUME NEW o \in Scanners PROVE ScanOK(o)'
  <2>1. CASE o = s
    BY <1>2, <2>1 DEF ScanOK, GovernanceInv
  <2>2. CASE o # s
    <3>1. scan'[o] = scan[o] /\ ScanOK(o)
      BY <1>2, <2>2 DEF GovernanceInv
    <3> QED BY <1>2, <1>4, <3>1 DEF ScanOK
  <2> QED BY <2>1, <2>2
<1>7. ASSUME NEW r \in Reviewers PROVE ReviewOK(r)'
  <2>1. ReviewOK(r) /\ review' = review
    BY <1>2 DEF GovernanceInv
  <2> QED BY <1>4, <2>1 DEF ReviewOK
<1> QED BY <1>2, <1>4, <1>5, <1>6, <1>7, LeftAlone DEF GovernanceInv

\* A review begins from the status of an issue that no other review holds.
LEMMA BeginReviewKeeps ==
  ASSUME GovernanceInv, NEW r \in Reviewers, NEW f \in Fingerprints, NEW t \in Statuses,
         BeginReview(r, f, t)
  PROVE  GovernanceInv'
<1>1. PICK w : w = [issue |-> f, from |-> issue[f].status, to |-> t]
  OBVIOUS
<1>2. /\ review' = [review EXCEPT ![r] = w] /\ issue[f] # None /\ t \in Transitions[issue[f].status]
      /\ \A o \in Reviewers : review[o] # None => review[o].issue # f
      /\ UNCHANGED <<clock, meta, issue, trail, scan, edit, scans, edits>>
  BY <1>1 DEF BeginReview, Unlocked
<1>3. issue[f].status \in Statuses
  BY <1>2 DEF GovernanceInv, IssueOK, IssueRow
<1>4. review'[r] = w /\ \A o \in Reviewers : o # r => review'[o] = review[o]
  BY <1>2 DEF GovernanceInv
<1>5. ASSUME NEW o \in Reviewers PROVE ReviewOK(o)'
  <2>1. CASE o = r
    BY <1>1, <1>2, <1>3, <1>4, <2>1 DEF ReviewOK
  <2>2. CASE o # r
    <3>1. ReviewOK(o)
      BY DEF GovernanceInv
    <3> QED BY <1>1, <1>2, <1>4, <2>2, <3>1 DEF ReviewOK
  <2> QED BY <2>1, <2>2
<1> QED BY <1>2, <1>5, LeftAlone DEF GovernanceInv

\* A review adds its step to the end of the trail and moves the issue there.
LEMMA CommitReviewKeeps ==
  ASSUME GovernanceInv, NEW r \in Reviewers, CommitReview(r)
  PROVE  GovernanceInv'
<1>1. PICK w : w = review[r]
  OBVIOUS
<1>2. PICK f : f = w.issue
  OBVIOUS
<1>3. /\ w # None
      /\ issue' = [issue EXCEPT ![f] = [@ EXCEPT !.status = w.to]]
      /\ trail' = [trail EXCEPT ![f] = Append(@, <<w.from, w.to>>)]
      /\ review' = [review EXCEPT ![r] = None]
      /\ UNCHANGED <<clock, meta, scan, edit, scans, edits>>
  BY <1>1, <1>2 DEF CommitReview
<1>4. /\ f \in Fingerprints /\ issue[f] # None /\ w.from \in Statuses /\ w.to \in Statuses
      /\ issue[f].status = w.from /\ w.to \in Transitions[w.from]
      /\ \A o \in Reviewers : review[o] # None /\ review[o].issue = f => o = r
  BY <1>1, <1>2, <1>3 DEF GovernanceInv, ReviewOK
<1>5. /\ trail[f] \in Seq(Statuses \X Statuses) /\ issue[f] \in IssueRow
      /\ issue[f].count \in 1 .. scans /\ Explained(f)
  BY <1>4 DEF GovernanceInv, IssueOK
<1>6. trail'[f] = Append(trail[f], <<w.from, w.to>>) /\ \A g \in Fingerprints : g # f => trail'[g] = trail[g]
  BY <1>3, <1>4 DEF GovernanceInv
<1>7. issue'[f] = [issue[f] EXCEPT !.status = w.to] /\ \A g \in Fingerprints : g # f => issue'[g] = issue[g]
  BY <1>3, <1>4 DEF GovernanceInv
<1>8. issue'[f] \in IssueRow /\ issue'[f].status = w.to /\ issue'[f].count = issue[f].count
  BY <1>4, <1>5, <1>7 DEF IssueRow
<1>9. issue'[f] # None
  BY <1>8, KnowledgeAssumption DEF GovernanceAssumption, IssueRow
<1>10. IssueOK(f)'
  <2>1. PICK n : n = Len(trail[f])
    OBVIOUS
  <2>2. n \in Nat /\ Len(trail'[f]) = n + 1 /\ trail'[f] \in Seq(Statuses \X Statuses)
    BY <1>4, <1>5, <1>6, <2>1
  <2>3. trail'[f][n + 1] = <<w.from, w.to>> /\ \A i \in 1 .. n : trail'[f][i] = trail[f][i]
    BY <1>5, <1>6, <2>1
  <2>4. \A i \in 1 .. n + 1 : Before(f, i)' = Before(f, i)
    <3>1. \A i \in 1 .. n + 1 : i # 1 => i - 1 \in 1 .. n
      BY <2>2
    <3> QED BY <2>3, <3>1 DEF Before
  <2>5. Before(f, n + 2)' = w.to
    BY <2>2, <2>3 DEF Before
  <2>6. Before(f, n + 1) = w.from
    BY <1>4, <1>5, <2>1 DEF Explained
  <2>7. ASSUME NEW i \in 1 .. n + 1
        PROVE  trail'[f][i][1] = Before(f, i)' /\ trail'[f][i][2] \in Transitions[Before(f, i)']
    <3>1. CASE i = n + 1
      BY <1>4, <2>3, <2>4, <2>6, <3>1
    <3>2. CASE i # n + 1
      <4>1. i \in 1 .. n
        BY <2>2, <3>2
      <4>2. trail[f][i][1] = Before(f, i) /\ trail[f][i][2] \in Transitions[Before(f, i)]
        BY <1>5, <2>1, <4>1 DEF Explained
      <4> QED BY <2>3, <2>4, <4>1, <4>2
    <3> QED BY <3>1, <3>2
  <2>8. Explained(f)'
    <3>1. Len(trail'[f]) + 1 = n + 2
      BY <2>2
    <3>2. issue'[f].status = Before(f, Len(trail[f]) + 1)'
      BY <1>8, <2>5, <3>1 DEF Before
    <3> QED BY <2>2, <2>7, <3>2 DEF Explained
  <2>9. UNCHANGED scans
    BY <1>3
  <2> QED BY <1>5, <1>8, <1>9, <2>2, <2>8, <2>9 DEF IssueOK
<1>11. ASSUME NEW g \in Fingerprints, g # f PROVE IssueOK(g)'
  <2>1. IssueOK(g) /\ UNCHANGED scans /\ trail'[g] = trail[g] /\ issue'[g] = issue[g]
    BY <1>3, <1>6, <1>7, <1>11 DEF GovernanceInv
  <2>2. Explained(g) => Explained(g)'
    BY <2>1 DEF Explained, Before
  <2> QED BY <2>1, <2>2 DEF IssueOK
<1>12. \A g \in Fingerprints : issue[g] # None => issue'[g] # None
  BY <1>7, <1>9
<1>13. ASSUME NEW s \in Scanners PROVE ScanOK(s)'
  <2>1. ScanOK(s) /\ UNCHANGED <<scan, scans>>
    BY <1>3 DEF GovernanceInv
  <2> QED BY <1>12, <2>1 DEF ScanOK
<1>14. ASSUME NEW o \in Reviewers PROVE ReviewOK(o)'
  <2>1. CASE o = r
    BY <1>3, <2>1 DEF ReviewOK, GovernanceInv
  <2>2. CASE o # r
    <3>1. ReviewOK(o) /\ review'[o] = review[o]
      BY <1>3, <2>2 DEF GovernanceInv
    <3>2. review[o] # None => review[o].issue # f
      BY <1>4, <2>2
    <3>3. \A p \in Reviewers : review'[p] # None => review'[p] = review[p]
      BY <1>3 DEF GovernanceInv
    <3> QED BY <1>7, <3>1, <3>2, <3>3 DEF ReviewOK
  <2> QED BY <2>1, <2>2
<1>15. DOMAIN issue' = Fingerprints /\ DOMAIN trail' = Fingerprints
       /\ issue' = [g \in Fingerprints |-> issue'[g]] /\ DOMAIN review' = Reviewers
  BY <1>3 DEF GovernanceInv
<1> QED BY <1>3, <1>10, <1>11, <1>13, <1>14, <1>15, LeftAlone DEF GovernanceInv

\* No step of the governance breaks its invariant.
LEMMA GovernanceStep == GovernanceInv /\ [Next]_vars => GovernanceInv'
<1> SUFFICES ASSUME GovernanceInv, [Next]_vars PROVE GovernanceInv'
  OBVIOUS
<1>1. CASE UNCHANGED vars
  BY <1>1, LeftAlone DEF vars, GovernanceInv
<1>2. CASE Next
  BY <1>2, TickKeeps, BeginEditKeeps, CommitEditKeeps, BeginScanKeeps, CommitScanKeeps,
     BeginReviewKeeps, CommitReviewKeeps DEF Next
<1> QED BY <1>1, <1>2

\* The invariant says what the governance promises.
LEMMA GovernanceSound ==
  ASSUME GovernanceInv
  PROVE  TypeOK /\ TrailExplainsStatus /\ BlockedIsReported /\ (OneEditor => MetaConsistent)
<1>1. TypeOK
  <2>1. \A f \in Fingerprints : issue[f] \in {None} \cup [status : Statuses, count : 1 .. MaxScans]
    <3> SUFFICES ASSUME NEW f \in Fingerprints, issue[f] # None
                 PROVE  issue[f] \in [status : Statuses, count : 1 .. MaxScans]
      OBVIOUS
    <3>1. issue[f] \in IssueRow /\ issue[f].count \in 1 .. scans /\ scans \in 0 .. MaxScans
      BY DEF GovernanceInv, IssueOK
    <3>2. issue[f].count \in 1 .. MaxScans
      BY <3>1, KnowledgeAssumption DEF GovernanceAssumption
    <3> QED BY <3>1, <3>2 DEF IssueRow
  <2>2. issue \in [Fingerprints -> {None} \cup [status : Statuses, count : 1 .. MaxScans]]
    BY <2>1 DEF GovernanceInv
  <2> QED BY <2>2 DEF GovernanceInv, TypeOK, MetaRow, IssueOK, ScanOK
<1>2. TrailExplainsStatus
  <2> SUFFICES ASSUME NEW f \in Fingerprints, issue[f] # None,
                      NEW path, path = <<"open">> \o [i \in 1 .. Len(trail[f]) |-> trail[f][i][2]]
               PROVE  /\ \A i \in 1 .. Len(trail[f]) :
                           trail[f][i][1] = path[i] /\ trail[f][i][2] \in Transitions[path[i]]
                      /\ issue[f].status = path[Len(path)]
    BY DEF TrailExplainsStatus
  <2>1. trail[f] \in Seq(Statuses \X Statuses) /\ Explained(f)
    BY DEF GovernanceInv, IssueOK
  <2>2. PICK n : n = Len(trail[f])
    OBVIOUS
  <2>3. PICK ends : ends = [i \in 1 .. n |-> trail[f][i][2]]
    OBVIOUS
  <2>4. n \in Nat /\ ends \in Seq(Statuses) /\ Len(ends) = n
    <3>1. n \in Nat /\ \A i \in 1 .. n : trail[f][i][2] \in Statuses
      BY <2>1, <2>2
    <3> QED BY <2>3, <3>1
  <2>5. path = <<"open">> \o ends
    BY <2>2, <2>3
  <2>6. Len(path) = n + 1 /\ path[1] = "open" /\ \A i \in 2 .. n + 1 : path[i] = ends[i - 1]
    BY <2>4, <2>5, "open" \in Statuses DEF Statuses
  <2>7. \A i \in 1 .. n + 1 : path[i] = Before(f, i)
    BY <2>3, <2>4, <2>6 DEF Before
  <2>8. n + 1 \in 1 .. n + 1 /\ \A i \in 1 .. n : i \in 1 .. n + 1
    BY <2>4
  <2>9. \A i \in 1 .. n : trail[f][i][1] = path[i] /\ trail[f][i][2] \in Transitions[path[i]]
    <3> SUFFICES ASSUME NEW i \in 1 .. n
                 PROVE  trail[f][i][1] = path[i] /\ trail[f][i][2] \in Transitions[path[i]]
      OBVIOUS
    <3>1. path[i] = Before(f, i)
      BY <2>7, <2>8
    <3> QED BY <2>1, <2>2, <3>1 DEF Explained
  <2>10. issue[f].status = path[Len(path)]
    BY <2>1, <2>2, <2>6, <2>7, <2>8 DEF Explained
  <2> QED BY <2>2, <2>9, <2>10
<1>3. BlockedIsReported
  <2> SUFFICES ASSUME NEW d \in Docs, ~IsRetrievable(meta[d], clock), ~Retired(meta[d])
               PROVE  \E t \in {"expired", "not_yet_effective"} :
                        <<t, {d}>> \in LifecycleFindings(d, meta[d], clock)
    BY DEF BlockedIsReported
  <2>1. meta[d] # None => meta[d].version \in Versions
    BY DEF GovernanceInv, MetaRow
  <2>2. \E t \in {"expired", "not_yet_effective"} : Applies(t, meta[d], clock)
    BY <2>1 DEF IsRetrievable, EffectiveState, Retired, Applies, Versions
  <2> QED BY <2>2 DEF LifecycleFindings, LifecycleTypes
<1> QED BY <1>1, <1>2, <1>3 DEF GovernanceInv

\* However editors, scans and reviews interleave, the trail of reviews explains the status
\* of every issue and what is kept out of the answers is reported (review_issue, run_scan).
THEOREM TrailStaysExplained == KnowledgeSpec => [](TypeOK /\ TrailExplainsStatus /\ BlockedIsReported)
<1>1. KnowledgeInit => GovernanceInv
  BY GovernanceBegins DEF KnowledgeInit
<1>2. GovernanceInv /\ KnowledgeStep => GovernanceInv'
  BY GovernanceStep DEF KnowledgeStep, KnowledgeNext, vars
<1>3. GovernanceInv => TypeOK /\ TrailExplainsStatus /\ BlockedIsReported
  BY GovernanceSound
<1> QED BY <1>1, <1>2, <1>3, PTL DEF KnowledgeSpec, KnowledgeStep

\* With one editor at a time the dates of the metadata agree as well: the review of the
\* knowledge base is sound (upsert_metadata validates what it has read, without a lock).
THEOREM ReviewsStaySound ==
  ASSUME OneEditor
  PROVE  KnowledgeSpec => []ReviewsSound
<1>1. KnowledgeInit => GovernanceInv
  BY GovernanceBegins DEF KnowledgeInit
<1>2. GovernanceInv /\ KnowledgeStep => GovernanceInv'
  BY GovernanceStep DEF KnowledgeStep, KnowledgeNext, vars
<1>3. GovernanceInv => ReviewsSound
  BY GovernanceSound, OneEditor DEF ReviewsSound
<1> QED BY <1>1, <1>2, <1>3, PTL DEF KnowledgeSpec, KnowledgeStep
-----------------------------------------------------------------------------
(* The evolution of knowledge.                                              *)

\* The instance counts as this module does.
LEMMA EvolutionCounts == \A S : Evolution!Cardinality(S) = Cardinality(S)
BY DEF Evolution!Cardinality, Cardinality, Evolution!IsFiniteSet, IsFiniteSet

Reaches(r) == v_req[r] # None /\ v_req[r].step \in {"insert", "index"}
Indexing(r, d, key) ==
  v_req[r] # None /\ v_req[r].step = "index" /\ v_req[r].draft = d /\ v_req[r].number = key

\* A request has its kind, and reflows what was approved.
AskingOK(r) ==
  /\ v_req[r] # None => v_req[r] \in Evolution!Asking /\ v_req[r].number <= Cardinality(Drafts)
  /\ Reaches(r) => v_req[r].draft \in approved

\* While requests come one at a time, a draft is still as its request read it.
AsRead(r) ==
  v_req[r] # None =>
    LET q == v_req[r] IN
    /\ q.step = "review" => status[q.draft] = "draft"
    /\ Reaches(r) => status[q.draft] = "approved" /\ (Quota > 0 => Evolution!Counted < Quota)
    /\ q.step = "withdraw" => status[q.draft] = "indexed" /\ chunk[q.draft] = q.number

OneReflow ==
  /\ \A r, o \in Requests : v_req[r] # None /\ v_req[o] # None => r = o
  /\ \A r \in Requests : AsRead(r)
  /\ Evolution!QuotaKept

\* And a vector is that of an indexed draft's chunk, or of a draft being indexed.
VectorsKnown ==
  \A v \in keys :
    \/ status[v.draft] = "indexed" /\ chunk[v.draft] = v.key
    \/ status[v.draft] = "approved" /\ \E r \in Requests : Indexing(r, v.draft, v.key)

EvolutionInv ==
  /\ Evolution!TypeOK /\ Evolution!NothingUnreviewed
  /\ DOMAIN v_req = Requests /\ v_crossed \in BOOLEAN /\ v_failed \in BOOLEAN
  /\ \A r \in Requests : AskingOK(r)
  /\ \A d \in Drafts :
       /\ status[d] = "approved" => d \in approved
       /\ status[d] = "indexed" => chunk[d] # None
  /\ ~v_crossed => OneReflow
  /\ ~v_crossed /\ ~v_failed => VectorsKnown

\* At the start every draft is unreviewed and nothing is indexed.
LEMMA EvolutionInit == Evolution!Init => EvolutionInv
<1> SUFFICES ASSUME Evolution!Init PROVE EvolutionInv
  OBVIOUS
<1> USE DEF Evolution!Init
<1>1. \A r \in Requests : v_req[r] = None
  OBVIOUS
<1>2. Evolution!Counted = 0
  <2>1. {d \in recent : status[d] = "indexed"} = {}
    OBVIOUS
  <2> QED BY <2>1, EvolutionCounts, FS_EmptySet DEF Evolution!Counted
<1>3. Quota \in Nat
  BY KnowledgeAssumption DEF Evolution!EvolutionAssumption
<1>4. OneReflow
  BY <1>1, <1>2, <1>3 DEF OneReflow, AsRead, Evolution!QuotaKept
<1>5. \A r \in Requests : AskingOK(r)
  BY <1>1 DEF AskingOK, Reaches
<1> QED
  BY <1>4, <1>5 DEF EvolutionInv, Evolution!TypeOK, Evolution!NothingUnreviewed, VectorsKnown

\* What is counted is part of the drafts.
LEMMA CountedFinite ==
  ASSUME EvolutionInv, NEW S \in SUBSET Drafts
  PROVE  IsFiniteSet(S) /\ Cardinality(S) \in Nat /\ Cardinality(S) <= Cardinality(Drafts)
         /\ Cardinality(Drafts) \in Nat
<1>1. IsFiniteSet(Drafts)
  BY KnowledgeAssumption DEF Evolution!EvolutionAssumption, Evolution!IsFiniteSet, IsFiniteSet
<1> QED BY <1>1, FS_Subset, FS_CardinalityType

\* A request begins that reads what is there.
LEMMA EvolutionBegins ==
  ASSUME EvolutionInv, NEW r \in Requests, NEW d \in Drafts,
         NEW step \in {"review", "insert", "withdraw"}, NEW number \in Nat,
         number <= Cardinality(Drafts), Evolution!Begin(r, step, d, number),
         step = "review" => status[d] = "draft",
         step = "insert" =>
           status[d] = "approved" /\ (Quota > 0 => Evolution!Counted < Quota),
         step = "withdraw" => status[d] = "indexed" /\ chunk[d] = number
  PROVE  EvolutionInv'
<1> DEFINE new == [step |-> step, draft |-> d, number |-> number]
<1>1. /\ v_req[r] = None /\ v_req' = [v_req EXCEPT ![r] = new]
      /\ v_crossed' = (v_crossed \/ \E k \in Requests : v_req[k] # None)
      /\ UNCHANGED <<status, chunk, keys, recent, weeks, approved, v_failed>>
  BY DEF Evolution!Begin, Evolution!Busy
<1>2. new \in Evolution!Asking /\ new.step = step /\ new.draft = d /\ new.number = number
  BY DEF Evolution!Asking
<1> HIDE DEF new
<1>3. DOMAIN v_req' = Requests /\ v_req'[r] = new /\ \A k \in Requests : k # r => v_req'[k] = v_req[k]
  BY <1>1 DEF EvolutionInv
<1>4. (Evolution!TypeOK /\ Evolution!NothingUnreviewed)'
  BY <1>1 DEF EvolutionInv, Evolution!TypeOK, Evolution!NothingUnreviewed
<1>5. Evolution!Counted' = Evolution!Counted
  BY <1>1 DEF Evolution!Counted
<1>6. ASSUME NEW k \in Requests PROVE AskingOK(k)'
  <2>1. CASE k = r
    BY <2>1, <1>1, <1>2, <1>3 DEF AskingOK, Reaches, EvolutionInv
  <2>2. CASE k # r
    BY <2>2, <1>1, <1>3 DEF AskingOK, Reaches, EvolutionInv
  <2> QED BY <2>1, <2>2
<1>7. ASSUME ~v_crossed' PROVE OneReflow'
  <2>1. (\A k \in Requests : v_req[k] = None) /\ OneReflow
    BY <1>7, <1>1 DEF EvolutionInv
  <2>2. \A k \in Requests : k # r => v_req'[k] = None
    BY <2>1, <1>3
  <2>3. ASSUME NEW k \in Requests PROVE AsRead(k)'
    BY <2>2, <1>1, <1>2, <1>3, <1>5 DEF AsRead, Reaches
  <2>4. Evolution!QuotaKept'
    BY <2>1, <1>1, <1>5 DEF OneReflow, Evolution!QuotaKept
  <2>5. (\A k, l \in Requests : v_req[k] # None /\ v_req[l] # None => k = l)'
    BY <2>2
  <2> QED BY <2>3, <2>4, <2>5 DEF OneReflow
<1>8. ASSUME ~v_crossed', ~v_failed' PROVE VectorsKnown'
  <2>1. (\A k \in Requests : v_req[k] = None) /\ VectorsKnown
    BY <1>8, <1>1 DEF EvolutionInv
  <2> QED BY <2>1, <1>1, <1>3 DEF VectorsKnown, Indexing
<1> QED BY <1>1, <1>3, <1>4, <1>6, <1>7, <1>8 DEF EvolutionInv

\* A request that ends leaves the others as they are; if it was the only one, none is left.
LEMMA EvolutionEnds ==
  ASSUME EvolutionInv, NEW r \in Requests, v_req[r] # None,
         v_req' = [v_req EXCEPT ![r] = None]
  PROVE  /\ DOMAIN v_req' = Requests /\ v_req'[r] = None
         /\ \A k \in Requests : k # r => v_req'[k] = v_req[k]
         /\ ~v_crossed => \A k \in Requests : v_req'[k] = None
<1>1. /\ DOMAIN v_req' = Requests /\ v_req'[r] = None
      /\ \A k \in Requests : k # r => v_req'[k] = v_req[k]
  BY DEF EvolutionInv
<1>2. ASSUME ~v_crossed, NEW k \in Requests PROVE v_req'[k] = None
  <2>1. OneReflow
    BY <1>2 DEF EvolutionInv
  <2> QED BY <2>1, <1>1 DEF OneReflow
<1> QED BY <1>1, <1>2

\* The others are in order after it ended, for what is approved stays approved.
LEMMA OthersAsk ==
  ASSUME EvolutionInv, NEW r \in Requests, v_req[r] # None,
         v_req' = [v_req EXCEPT ![r] = None], approved \subseteq approved'
  PROVE  (\A k \in Requests : AskingOK(k))'
<1> SUFFICES ASSUME NEW k \in Requests PROVE AskingOK(k)'
  OBVIOUS
<1>1. v_req'[k] # None => v_req'[k] = v_req[k]
  BY EvolutionEnds
<1>2. AskingOK(k)
  BY DEF EvolutionInv
<1> QED BY <1>1, <1>2 DEF AskingOK, Reaches

\* A decision about a draft that is still unreviewed approves or rejects it.
LEMMA EvolutionDecide ==
  ASSUME EvolutionInv, NEW r \in Requests, NEW verdict \in {"approved", "rejected"},
         Evolution!Decide(r, verdict)
  PROVE  EvolutionInv'
<1> DEFINE d == v_req[r].draft
<1>1. /\ v_req[r] # None /\ v_req[r].step = "review"
      /\ v_req' = [v_req EXCEPT ![r] = None]
      /\ status' = [status EXCEPT ![d] = verdict]
      /\ approved' = IF verdict = "approved" THEN approved \cup {d} ELSE approved
      /\ UNCHANGED <<chunk, keys, recent, weeks, v_crossed, v_failed>>
  BY DEF Evolution!Decide, Evolution!At, Evolution!Done
<1>2. d \in Drafts
  BY <1>1 DEF EvolutionInv, AskingOK, Evolution!Asking
<1>3. (~v_crossed => status[d] = "draft")
  BY <1>1 DEF EvolutionInv, OneReflow, AsRead
<1> HIDE DEF d
<1>4. /\ status' \in [Drafts -> {"draft", "approved", "rejected", "indexed", "withdrawn"}]
      /\ status'[d] = verdict /\ \A e \in Drafts : e # d => status'[e] = status[e]
  BY <1>1, <1>2 DEF EvolutionInv, Evolution!TypeOK
<1>5. Evolution!TypeOK' /\ Evolution!NothingUnreviewed' /\ approved \subseteq approved'
  BY <1>1, <1>2, <1>4 DEF EvolutionInv, Evolution!TypeOK, Evolution!NothingUnreviewed
<1>6. (\A k \in Requests : AskingOK(k))'
  BY <1>1, <1>5, OthersAsk DEF d
<1>7. (\A e \in Drafts : /\ status[e] = "approved" => e \in approved
                         /\ status[e] = "indexed" => chunk[e] # None)'
  BY <1>1, <1>2, <1>4 DEF EvolutionInv
<1>8. ASSUME ~v_crossed' PROVE OneReflow'
  <2>1. ~v_crossed /\ OneReflow
    BY <1>8, <1>1 DEF EvolutionInv
  <2>2. \A k \in Requests : v_req'[k] = None
    BY <2>1, <1>1, EvolutionEnds DEF d
  <2>3. {e \in recent' : status'[e] = "indexed"} = {e \in recent : status[e] = "indexed"}
    BY <2>1, <1>1, <1>3, <1>4 DEF EvolutionInv, Evolution!TypeOK
  <2>4. Evolution!Counted' = Evolution!Counted
    BY <2>3 DEF Evolution!Counted
  <2>5. Evolution!QuotaKept'
    BY <2>1, <2>4, <1>1 DEF OneReflow, Evolution!QuotaKept
  <2> QED BY <2>2, <2>5 DEF OneReflow, AsRead
<1>9. ASSUME ~v_crossed', ~v_failed' PROVE VectorsKnown'
  <2>1. ~v_crossed /\ VectorsKnown /\ OneReflow
    BY <1>9, <1>1 DEF EvolutionInv
  <2>2. ASSUME NEW v \in keys' PROVE status'[v.draft] = "indexed" /\ chunk'[v.draft] = v.key
    <3>1. v \in keys /\ v.draft \in Drafts
      BY <2>2, <1>1 DEF EvolutionInv, Evolution!TypeOK
    <3>2. \A k \in Requests : ~Indexing(k, v.draft, v.key)
      BY <2>1, <1>1 DEF Indexing, OneReflow
    <3>3. status[v.draft] = "indexed" /\ chunk[v.draft] = v.key
      BY <2>1, <3>1, <3>2 DEF VectorsKnown
    <3> QED BY <2>1, <3>1, <3>3, <1>1, <1>3, <1>4
  <2> QED BY <2>2 DEF VectorsKnown
<1> QED BY <1>1, <1>5, <1>6, <1>7, <1>8, <1>9, EvolutionEnds DEF EvolutionInv, d

\* A reflow begins for an approved draft, within the quota it counts.
LEMMA EvolutionBeginReflow ==
  ASSUME EvolutionInv, NEW r \in Requests, NEW d \in Drafts, Evolution!BeginReflow(r, d)
  PROVE  EvolutionInv'
<1>1. /\ status[d] = "approved" /\ (Quota = 0 \/ Evolution!Counted < Quota)
      /\ Evolution!Begin(r, "insert", d, Cardinality(Evolution!Rows))
  BY EvolutionCounts DEF Evolution!BeginReflow
<1>2. Cardinality(Evolution!Rows) \in Nat /\ Cardinality(Evolution!Rows) <= Cardinality(Drafts)
  BY CountedFinite DEF Evolution!Rows
<1>3. Quota \in Nat
  BY KnowledgeAssumption DEF Evolution!EvolutionAssumption
<1> QED BY <1>1, <1>2, <1>3, EvolutionBegins

\* A withdrawal begins for an indexed draft with the chunk it reads.
LEMMA EvolutionBeginWithdraw ==
  ASSUME EvolutionInv, NEW r \in Requests, NEW d \in Drafts, Evolution!BeginWithdraw(r, d)
  PROVE  EvolutionInv'
<1>1. status[d] = "indexed" /\ chunk[d] # None
  BY DEF Evolution!BeginWithdraw, EvolutionInv
<1>2. Evolution!Begin(r, "withdraw", d, chunk[d])
  BY <1>1 DEF Evolution!BeginWithdraw
<1>3. chunk[d] \in Nat /\ chunk[d] <= Cardinality(Drafts)
  BY <1>1, CountedFinite, EvolutionCounts DEF EvolutionInv, Evolution!TypeOK
<1> QED BY <1>1, <1>2, <1>3, EvolutionBegins

\* A reflow gives the chunk the next number.
LEMMA EvolutionInsert ==
  ASSUME EvolutionInv, NEW r \in Requests, Evolution!InsertVector(r)
  PROVE  EvolutionInv'
<1> DEFINE q == v_req[r]
           new == [q EXCEPT !.step = "index"]
           v == [key |-> q.number, draft |-> q.draft]
<1>1. /\ q # None /\ q.step = "insert"
      /\ v_req' = [v_req EXCEPT ![r] = new]
      /\ keys' = keys \cup {v}
      /\ UNCHANGED <<status, chunk, recent, weeks, approved, v_crossed, v_failed>>
  BY DEF Evolution!InsertVector, Evolution!At
<1>2. q \in Evolution!Asking /\ q.number <= Cardinality(Drafts) /\ q.draft \in approved
  BY <1>1 DEF EvolutionInv, AskingOK, Reaches
<1>3. /\ new \in Evolution!Asking /\ new.step = "index" /\ new.draft = q.draft /\ new.number = q.number
      /\ new # None
  BY <1>2, KnowledgeAssumption DEF Evolution!Asking, Evolution!EvolutionAssumption
<1>4. v.key = q.number /\ v.draft = q.draft
  OBVIOUS
<1>5. v \in [key : 0 .. Evolution!Cardinality(Drafts), draft : Drafts]
  <2>1. q.number \in 0 .. Cardinality(Drafts) /\ q.draft \in Drafts
    BY <1>2, CountedFinite DEF Evolution!Asking
  <2> QED BY <2>1, EvolutionCounts
<1> HIDE DEF q, new, v
<1>6. DOMAIN v_req' = Requests /\ v_req'[r] = new /\ \A k \in Requests : k # r => v_req'[k] = v_req[k]
  BY <1>1 DEF EvolutionInv
<1>7. (Evolution!TypeOK /\ Evolution!NothingUnreviewed)'
  BY <1>1, <1>2, <1>4, <1>5 DEF EvolutionInv, Evolution!TypeOK, Evolution!NothingUnreviewed
<1>8. Evolution!Counted' = Evolution!Counted
  BY <1>1 DEF Evolution!Counted
<1>9. ASSUME NEW k \in Requests PROVE AskingOK(k)'
  <2>1. CASE k = r
    BY <2>1, <1>1, <1>2, <1>3, <1>6 DEF AskingOK, Reaches
  <2>2. CASE k # r
    BY <2>2, <1>1, <1>6 DEF AskingOK, Reaches, EvolutionInv
  <2> QED BY <2>1, <2>2
<1>10. ASSUME ~v_crossed' PROVE OneReflow'
  <2>1. ~v_crossed /\ OneReflow
    BY <1>10, <1>1 DEF EvolutionInv
  <2>2. \A k \in Requests : k # r => v_req'[k] = None
    BY <2>1, <1>1, <1>6 DEF OneReflow, q
  <2>3. status[q.draft] = "approved" /\ (Quota > 0 => Evolution!Counted < Quota)
    BY <2>1, <1>1 DEF OneReflow, AsRead, Reaches, q
  <2>4. ASSUME NEW k \in Requests PROVE AsRead(k)'
    BY <2>2, <2>3, <1>1, <1>3, <1>6, <1>8 DEF AsRead, Reaches
  <2>5. Evolution!QuotaKept'
    BY <2>1, <1>1, <1>8 DEF OneReflow, Evolution!QuotaKept
  <2> QED BY <2>2, <2>4, <2>5 DEF OneReflow
<1>11. ASSUME ~v_crossed', ~v_failed' PROVE VectorsKnown'
  <2>1. ~v_crossed /\ VectorsKnown /\ OneReflow
    BY <1>11, <1>1 DEF EvolutionInv
  <2>2. status[q.draft] = "approved"
    BY <2>1, <1>1 DEF OneReflow, AsRead, Reaches, q
  <2>3. \A k \in Requests : \A d, key : ~Indexing(k, d, key)
    BY <2>1, <1>1 DEF OneReflow, Indexing, q
  <2>4. ASSUME NEW w \in keys PROVE status'[w.draft] = "indexed" /\ chunk'[w.draft] = w.key
    BY <2>1, <2>3, <1>1 DEF VectorsKnown
  <2>5. ASSUME NEW w, w = v
        PROVE  status'[w.draft] = "approved" /\ Indexing(r, w.draft, w.key)'
    BY <2>2, <2>5, <1>1, <1>3, <1>4, <1>6 DEF Indexing
  <2> QED BY <2>4, <2>5, <1>1 DEF VectorsKnown
<1> QED BY <1>1, <1>6, <1>7, <1>9, <1>10, <1>11 DEF EvolutionInv

\* A reflow that commits has put its vector first.
LEMMA EvolutionCommit ==
  ASSUME EvolutionInv, NEW r \in Requests, Evolution!CommitReflow(r)
  PROVE  EvolutionInv'
<1> DEFINE q == v_req[r]
           d == q.draft
<1>1. /\ q # None /\ q.step = "index"
      /\ v_req' = [v_req EXCEPT ![r] = None]
      /\ status' = [status EXCEPT ![d] = "indexed"]
      /\ chunk' = [chunk EXCEPT ![d] = q.number]
      /\ recent' = recent \cup {d}
      /\ UNCHANGED <<keys, weeks, approved, v_crossed, v_failed>>
  BY DEF Evolution!CommitReflow, Evolution!At, Evolution!Done
<1>2. q \in Evolution!Asking /\ q.number <= Cardinality(Drafts) /\ d \in approved
  BY <1>1 DEF EvolutionInv, AskingOK, Reaches
<1>3. d \in Drafts /\ q.number \in 0 .. Cardinality(Drafts) /\ q.number # None
  BY <1>2, CountedFinite, KnowledgeAssumption DEF Evolution!Asking, Evolution!EvolutionAssumption
<1> HIDE DEF q, d
<1>4. /\ status' \in [Drafts -> {"draft", "approved", "rejected", "indexed", "withdrawn"}]
      /\ status'[d] = "indexed" /\ \A e \in Drafts : e # d => status'[e] = status[e]
  BY <1>1, <1>3 DEF EvolutionInv, Evolution!TypeOK
<1>5. /\ chunk' \in [Drafts -> {None} \cup 0 .. Evolution!Cardinality(Drafts)]
      /\ chunk'[d] = q.number /\ \A e \in Drafts : e # d => chunk'[e] = chunk[e]
  BY <1>1, <1>3, EvolutionCounts DEF EvolutionInv, Evolution!TypeOK
<1>6. Evolution!TypeOK' /\ Evolution!NothingUnreviewed'
  BY <1>1, <1>3, <1>4, <1>5 DEF EvolutionInv, Evolution!TypeOK, Evolution!NothingUnreviewed
<1>7. (\A k \in Requests : AskingOK(k))'
  BY <1>1, OthersAsk DEF q
<1>8. (\A e \in Drafts : /\ status[e] = "approved" => e \in approved
                         /\ status[e] = "indexed" => chunk[e] # None)'
  BY <1>1, <1>3, <1>4, <1>5 DEF EvolutionInv
<1>9. ASSUME ~v_crossed' PROVE OneReflow'
  <2>1. ~v_crossed /\ OneReflow
    BY <1>9, <1>1 DEF EvolutionInv
  <2>2. \A k \in Requests : v_req'[k] = None
    BY <2>1, <1>1, EvolutionEnds DEF q
  <2>3. Quota > 0 => Evolution!Counted < Quota
    BY <2>1, <1>1 DEF OneReflow, AsRead, Reaches, q
  <2> DEFINE S == {e \in recent : status[e] = "indexed"}
  <2>4. S \subseteq Drafts
    BY DEF EvolutionInv, Evolution!TypeOK
  <2>5. {e \in recent' : status'[e] = "indexed"} = S \cup {d}
    BY <1>1, <1>4 DEF EvolutionInv, Evolution!TypeOK
  <2> HIDE DEF S
  <2>6. IsFiniteSet(S) /\ Cardinality(S) \in Nat
    BY <2>4, CountedFinite
  <2>7. Cardinality(S \cup {d}) \in {Cardinality(S), Cardinality(S) + 1}
    BY <2>6, FS_AddElement
  <2>8. Evolution!Counted = Cardinality(S)
    BY EvolutionCounts DEF Evolution!Counted, S
  <2>9. Evolution!Counted' = Cardinality(S \cup {d})
    <3>1. Evolution!Counted' = Evolution!Cardinality({e \in recent' : status'[e] = "indexed"})
      BY DEF Evolution!Counted
    <3> QED BY <3>1, <2>5, EvolutionCounts
  <2>10. Quota \in Nat
    BY KnowledgeAssumption DEF Evolution!EvolutionAssumption
  <2>11. Evolution!QuotaKept'
    <3>1. Quota > 0 => Cardinality(S \cup {d}) <= Quota
      BY <2>3, <2>6, <2>7, <2>8, <2>10
    <3> QED BY <3>1, <2>9 DEF Evolution!QuotaKept
  <2> QED BY <2>2, <2>11 DEF OneReflow, AsRead
<1>10. ASSUME ~v_crossed', ~v_failed' PROVE VectorsKnown'
  <2>1. ~v_crossed /\ VectorsKnown /\ OneReflow
    BY <1>10, <1>1 DEF EvolutionInv
  <2>2. status[d] = "approved"
    BY <2>1, <1>1 DEF OneReflow, AsRead, Reaches, q, d
  <2>3. ASSUME NEW v \in keys PROVE status'[v.draft] = "indexed" /\ chunk'[v.draft] = v.key
    <3>1. v.draft \in Drafts
      BY DEF EvolutionInv, Evolution!TypeOK
    <3>2. CASE status[v.draft] = "indexed" /\ chunk[v.draft] = v.key
      BY <3>1, <3>2, <2>2, <1>4, <1>5
    <3>3. CASE \E k \in Requests : Indexing(k, v.draft, v.key)
      <4>1. v.draft = d /\ v.key = q.number
        BY <3>3, <2>1, <1>1 DEF OneReflow, Indexing, q, d
      <4> QED BY <4>1, <1>4, <1>5
    <3> QED BY <3>2, <3>3, <2>1 DEF VectorsKnown
  <2> QED BY <2>3, <1>1 DEF VectorsKnown
<1> QED BY <1>1, <1>6, <1>7, <1>8, <1>9, <1>10, EvolutionEnds DEF EvolutionInv, q

\* A withdrawal takes the vector and the index entry back.
LEMMA EvolutionWithdraw ==
  ASSUME EvolutionInv, NEW r \in Requests, Evolution!CommitWithdraw(r)
  PROVE  EvolutionInv'
<1> DEFINE q == v_req[r]
           d == q.draft
<1>1. /\ q # None /\ q.step = "withdraw"
      /\ v_req' = [v_req EXCEPT ![r] = None]
      /\ \/ keys' = {v \in keys : v.key # q.number} /\ v_failed' = v_failed
         \/ keys' = keys /\ v_failed' = TRUE
      /\ status' = [status EXCEPT ![d] = "withdrawn"]
      /\ chunk' = [chunk EXCEPT ![d] = None]
      /\ UNCHANGED <<recent, weeks, approved, v_crossed>>
  BY DEF Evolution!CommitWithdraw, Evolution!At, Evolution!Done
<1>2. d \in Drafts
  BY <1>1 DEF EvolutionInv, AskingOK, Evolution!Asking
<1> HIDE DEF q, d
<1>3. /\ status' \in [Drafts -> {"draft", "approved", "rejected", "indexed", "withdrawn"}]
      /\ status'[d] = "withdrawn" /\ \A e \in Drafts : e # d => status'[e] = status[e]
  BY <1>1, <1>2 DEF EvolutionInv, Evolution!TypeOK
<1>4. /\ chunk' \in [Drafts -> {None} \cup 0 .. Evolution!Cardinality(Drafts)]
      /\ \A e \in Drafts : e # d => chunk'[e] = chunk[e]
  BY <1>1, <1>2 DEF EvolutionInv, Evolution!TypeOK
<1>5. keys' \subseteq keys
  BY <1>1
<1>6. Evolution!TypeOK' /\ Evolution!NothingUnreviewed'
  BY <1>1, <1>3, <1>4, <1>5 DEF EvolutionInv, Evolution!TypeOK, Evolution!NothingUnreviewed
<1>7. (\A k \in Requests : AskingOK(k))'
  BY <1>1, OthersAsk DEF q
<1>8. (\A e \in Drafts : /\ status[e] = "approved" => e \in approved
                         /\ status[e] = "indexed" => chunk[e] # None)'
  BY <1>1, <1>2, <1>3, <1>4 DEF EvolutionInv
<1>9. ASSUME ~v_crossed' PROVE OneReflow'
  <2>1. ~v_crossed /\ OneReflow
    BY <1>9, <1>1 DEF EvolutionInv
  <2>2. \A k \in Requests : v_req'[k] = None
    BY <2>1, <1>1, EvolutionEnds DEF q
  <2> DEFINE S == {e \in recent : status[e] = "indexed"}
             T == {e \in recent' : status'[e] = "indexed"}
  <2>3. S \subseteq Drafts /\ T \subseteq S
    BY <1>1, <1>3 DEF EvolutionInv, Evolution!TypeOK
  <2>4. Evolution!Counted = Cardinality(S) /\ Evolution!Counted' = Cardinality(T)
    BY EvolutionCounts DEF Evolution!Counted
  <2> HIDE DEF S, T
  <2>5. Cardinality(T) \in Nat /\ Cardinality(S) \in Nat /\ Cardinality(T) <= Cardinality(S)
    BY <2>3, CountedFinite, FS_Subset
  <2>6. Quota \in Nat
    BY KnowledgeAssumption DEF Evolution!EvolutionAssumption
  <2>7. Evolution!QuotaKept'
    <3>1. Quota > 0 => Cardinality(T) <= Quota
      BY <2>1, <2>4, <2>5, <2>6 DEF OneReflow, Evolution!QuotaKept
    <3> QED BY <3>1, <2>4 DEF Evolution!QuotaKept
  <2> QED BY <2>2, <2>7 DEF OneReflow, AsRead
<1>10. ASSUME ~v_crossed', ~v_failed' PROVE VectorsKnown'
  <2>1. ~v_crossed /\ ~v_failed /\ VectorsKnown /\ OneReflow /\ keys' = {v \in keys : v.key # q.number}
    BY <1>10, <1>1 DEF EvolutionInv
  <2>2. status[d] = "indexed" /\ chunk[d] = q.number
    BY <2>1, <1>1 DEF OneReflow, AsRead, q, d
  <2>3. ASSUME NEW v \in keys' PROVE status'[v.draft] = "indexed" /\ chunk'[v.draft] = v.key
    <3>1. v \in keys /\ v.key # q.number /\ v.draft \in Drafts
      BY <2>1, <2>3 DEF EvolutionInv, Evolution!TypeOK
    <3>2. \A k \in Requests : ~Indexing(k, v.draft, v.key)
      BY <2>1, <1>1 DEF OneReflow, Indexing, q
    <3>3. status[v.draft] = "indexed" /\ chunk[v.draft] = v.key
      BY <2>1, <3>1, <3>2 DEF VectorsKnown
    <3> QED BY <2>2, <3>1, <3>3, <1>3, <1>4
  <2> QED BY <2>3 DEF VectorsKnown
<1>11. v_failed' \in BOOLEAN
  BY <1>1 DEF EvolutionInv
<1> QED BY <1>1, <1>6, <1>7, <1>8, <1>9, <1>10, <1>11, EvolutionEnds DEF EvolutionInv, q

\* A request that breaks off leaves what it did, and is remembered as failed.
LEMMA EvolutionBreakOff ==
  ASSUME EvolutionInv, NEW r \in Requests, Evolution!BreakOff(r)
  PROVE  EvolutionInv'
<1>1. /\ v_req[r] # None /\ v_req' = [v_req EXCEPT ![r] = None] /\ v_failed' = TRUE
      /\ UNCHANGED <<status, chunk, keys, recent, weeks, approved, v_crossed>>
  BY DEF Evolution!BreakOff, Evolution!Done
<1>2. (\A k \in Requests : AskingOK(k))'
  BY <1>1, OthersAsk
<1>3. Evolution!Counted' = Evolution!Counted
  BY <1>1 DEF Evolution!Counted
<1>4. ASSUME ~v_crossed' PROVE OneReflow'
  BY <1>1, <1>3, <1>4, EvolutionEnds DEF EvolutionInv, OneReflow, AsRead, Evolution!QuotaKept
<1>5. (Evolution!TypeOK /\ Evolution!NothingUnreviewed)'
  BY <1>1 DEF EvolutionInv, Evolution!TypeOK, Evolution!NothingUnreviewed
<1> QED BY <1>1, <1>2, <1>4, <1>5, EvolutionEnds DEF EvolutionInv

\* A new week empties the count.
LEMMA EvolutionNewWeek ==
  ASSUME EvolutionInv, Evolution!NewWeek
  PROVE  EvolutionInv'
<1>1. /\ recent' = {}
      /\ UNCHANGED <<status, chunk, keys, v_req, approved, v_crossed, v_failed>>
  BY DEF Evolution!NewWeek
<1>2. Evolution!Counted' = 0
  <2>1. {e \in recent' : status'[e] = "indexed"} = {}
    BY <1>1
  <2>2. Evolution!Counted' = Evolution!Cardinality({e \in recent' : status'[e] = "indexed"})
    BY DEF Evolution!Counted
  <2> QED BY <2>1, <2>2, EvolutionCounts, FS_EmptySet
<1>3. Quota \in Nat
  BY KnowledgeAssumption DEF Evolution!EvolutionAssumption
<1>4. OneReflow => OneReflow'
  BY <1>1, <1>2, <1>3 DEF OneReflow, AsRead, Reaches, Evolution!QuotaKept
<1>5. (\A k \in Requests : AskingOK(k))'
  BY <1>1 DEF EvolutionInv, AskingOK, Reaches
<1>6. (Evolution!TypeOK /\ Evolution!NothingUnreviewed)'
  BY <1>1 DEF EvolutionInv, Evolution!TypeOK, Evolution!NothingUnreviewed
<1>7. VectorsKnown => VectorsKnown'
  BY <1>1 DEF VectorsKnown, Indexing
<1> QED BY <1>1, <1>4, <1>5, <1>6, <1>7 DEF EvolutionInv

\* No step of the evolution breaks its invariant.
LEMMA EvolutionStep == EvolutionInv /\ [Evolution!Next]_evolution => EvolutionInv'
<1> SUFFICES ASSUME EvolutionInv, [Evolution!Next]_evolution PROVE EvolutionInv'
  OBVIOUS
<1>1. CASE UNCHANGED evolution
  <2>1. Evolution!Counted' = Evolution!Counted
    BY <1>1 DEF evolution, Evolution!Counted
  <2>2. OneReflow => OneReflow'
    BY <1>1, <2>1 DEF evolution, OneReflow, AsRead, Reaches, Evolution!QuotaKept
  <2>3. VectorsKnown => VectorsKnown'
    BY <1>1 DEF evolution, VectorsKnown, Indexing
  <2>4. (\A k \in Requests : AskingOK(k))'
    BY <1>1 DEF evolution, EvolutionInv, AskingOK, Reaches
  <2> QED BY <1>1, <2>2, <2>3, <2>4
      DEF evolution, EvolutionInv, Evolution!TypeOK, Evolution!NothingUnreviewed
<1>2. ASSUME NEW r \in Requests, NEW d \in Drafts, Evolution!BeginReview(r, d)
      PROVE  EvolutionInv'
  <2>1. 0 \in Nat /\ 0 <= Cardinality(Drafts)
    BY CountedFinite
  <2> QED BY <1>2, <2>1, EvolutionBegins DEF Evolution!BeginReview
<1>3. CASE Evolution!Next
  BY <1>2, <1>3, EvolutionDecide, EvolutionBeginReflow, EvolutionBeginWithdraw, EvolutionInsert,
     EvolutionCommit, EvolutionWithdraw, EvolutionBreakOff, EvolutionNewWeek
  DEF Evolution!Next
<1> QED BY <1>1, <1>3

\* A behaviour about the evolution takes only its steps.
LEMMA EvolutionFocus ==
  focus = "evolution" /\ KnowledgeStep => focus' = "evolution" /\ [Evolution!Next]_evolution
BY DEF KnowledgeStep, KnowledgeNext, evolution

\* Whatever requests overlap or break off, nothing unreviewed reaches the index, and with
\* one request at a time the quota holds and the index agrees with the drafts
\* (knowledge_evolution_service).
THEOREM ReflowStaysSound == KnowledgeSpec => []ReflowSound
<1> DEFINE I == focus = "evolution" => EvolutionInv
<1>1. KnowledgeInit => I
  BY EvolutionInit DEF KnowledgeInit
<1>2. I /\ KnowledgeStep => I'
  <2> SUFFICES ASSUME I, KnowledgeStep PROVE I'
    OBVIOUS
  <2>1. CASE focus = "evolution"
    BY <2>1, EvolutionFocus, EvolutionStep
  <2>2. CASE focus # "evolution"
    BY <2>2 DEF KnowledgeStep, KnowledgeNext
  <2> QED BY <2>1, <2>2
<1>3. EvolutionInv => Evolution!ReflowSound
  <2> SUFFICES ASSUME EvolutionInv PROVE Evolution!ReflowSound
    OBVIOUS
  <2>1. Evolution!QuotaKept
    BY DEF EvolutionInv, OneReflow, Evolution!QuotaKept
  <2>2. Evolution!WithdrawnIsGone
    BY DEF EvolutionInv, VectorsKnown, Evolution!WithdrawnIsGone
  <2> QED BY <2>1, <2>2 DEF EvolutionInv, Evolution!ReflowSound
<1> QED BY <1>1, <1>2, <1>3, PTL DEF KnowledgeSpec, KnowledgeStep, ReflowSound

-----------------------------------------------------------------------------
(* The evidence gaps.                                                       *)

Faq == [text : Wordings, vectorized : BOOLEAN]
Faqs == Seq(Faq)
GapRow == [status : Gap!Status, draft : Wordings \cup {None}, final : Wordings \cup {None},
           doc : 0 .. MaxDocs]

\* The FAQ document of a number is there, with a text.
Says(d, text) == d \in 1 .. Len(faq) /\ faq[d].text = text
Found(d, text) == Says(d, text) /\ faq[d].vectorized

\* A request that stored its document knows it, and later that it can be searched.
GapRequestOK(r) ==
  e_req[r] # None =>
    LET q == e_req[r] IN
    /\ q \in Gap!Asking
    /\ q.step = "vectorize" => Says(q.doc, q.text)
    /\ q.step \in {"cache", "redis", "mark"} => Found(q.doc, q.text)

\* The document that a synced row names; what it says, unless the answer was changed under a
\* confirmation that had read it.
Indexed(d) == d \in 1 .. Len(faq) /\ faq[d].vectorized
RowBacked ==
  row.status = "synced" => Indexed(row.doc) /\ (~rewritten => Says(row.doc, row.final))

\* Until then a confirmation has read the answer that the row still has; requests that come one
\* at a time change none under it.
GapReadOK(r) == Gap!Confirming(r) /\ ~rewritten => e_req[r].final = row.final
GapCalm ==
  /\ rewritten \in BOOLEAN /\ \A r \in Requests : GapReadOK(r)
  /\ ~e_crossed => /\ ~rewritten
                   /\ \A r, o \in Requests : e_req[r] # None /\ e_req[o] # None => r = o

\* While requests come one at a time and nothing fails, a confirmation under way has
\* replaced what is served, or it is served as the row says.
GapServed ==
  /\ \A r, o \in Requests : e_req[r] # None /\ e_req[o] # None => r = o
  /\ \A r \in Requests : e_req[r] # None =>
       LET q == e_req[r] IN
       /\ q.step \in {"redis", "mark"} => cache["mysql"] # None /\ cache["mysql"].text = q.text
       /\ q.step = "mark" => cache["redis"] # None /\ cache["redis"].text = q.text
  /\ row.status = "synced" =>
       \/ \E r \in Requests : e_req[r] # None /\ e_req[r].step \in {"redis", "mark"}
       \/ \A s \in Gap!Stores : cache[s] # None /\ cache[s].text = row.final

GapInv ==
  /\ row \in GapRow /\ faq \in Faqs /\ Len(faq) <= MaxDocs
  /\ DOMAIN cache = Gap!Stores /\ DOMAIN e_req = Requests
  /\ e_crossed \in BOOLEAN /\ e_failed \in BOOLEAN
  /\ \A s \in Gap!Stores :
       cache[s] # None => cache[s] \in Gap!Answers /\ Found(cache[s].doc, cache[s].text)
  /\ RowBacked /\ GapCalm
  /\ \A r \in Requests : GapRequestOK(r)
  /\ ~e_crossed /\ ~e_failed => GapServed

\* At the start the gap is pending, nothing is cached and there is no FAQ document.
LEMMA GapInit == Gap!Init => GapInv
<1> SUFFICES ASSUME Gap!Init PROVE GapInv
  OBVIOUS
<1>1. MaxDocs \in Nat /\ 0 \in 0 .. MaxDocs
  BY KnowledgeAssumption DEF Gap!GapAssumption
<1> USE DEF Gap!Init
<1>2. row \in GapRow /\ row.status # "synced"
  BY <1>1 DEF GapRow, Gap!Status, Gap!NoText
<1>3. faq \in Faqs /\ Len(faq) <= MaxDocs
  BY <1>1 DEF Faqs
<1>4. (\A r \in Requests : e_req[r] = None) /\ \A s \in Gap!Stores : cache[s] = None
  OBVIOUS
<1>5. GapServed
  BY <1>2, <1>4 DEF GapServed
<1>6. GapCalm /\ RowBacked
  BY <1>2, <1>4 DEF GapCalm, GapReadOK, Gap!Confirming, RowBacked
<1> QED BY <1>2, <1>3, <1>4, <1>5, <1>6 DEF GapInv, GapRequestOK

\* Documents that are there stay, and stay what they are.
FaqGrows == \A d, text : (Says(d, text) => Says(d, text)')
                        /\ (Found(d, text) => Found(d, text)')
                        /\ (Indexed(d) => Indexed(d)')

\* Where no document is made, none changes.
LEMMA FaqSame == faq' = faq => FaqGrows
BY DEF FaqGrows, Says, Found, Indexed

\* The requests but one are in order after its step.
LEMMA GapOthers ==
  ASSUME GapInv, FaqGrows, NEW r \in Requests, DOMAIN e_req' = Requests,
         \A k \in Requests \ {r} : e_req'[k] = e_req[k], GapRequestOK(r)'
  PROVE  (\A k \in Requests : GapRequestOK(k))'
<1> SUFFICES ASSUME NEW k \in Requests, k # r PROVE GapRequestOK(k)'
  OBVIOUS
<1>1. GapRequestOK(k) /\ e_req'[k] = e_req[k]
  BY DEF GapInv
<1> QED BY <1>1 DEF GapRequestOK, FaqGrows

\* What is cached and what the row says are in order while they are left alone.
LEMMA GapStores ==
  ASSUME GapInv, FaqGrows
  PROVE  /\ cache' = cache => \A s \in Gap!Stores :
              cache'[s] # None => cache'[s] \in Gap!Answers /\ Found(cache[s].doc, cache[s].text)'
         /\ row'.doc = row.doc /\ row'.final = row.final /\ rewritten' = rewritten
              /\ (row'.status = "synced" => row.status = "synced") => RowBacked'
<1>1. ASSUME cache' = cache, NEW s \in Gap!Stores, cache'[s] # None
      PROVE  cache'[s] \in Gap!Answers /\ Found(cache[s].doc, cache[s].text)'
  <2>1. cache[s] \in Gap!Answers /\ Found(cache[s].doc, cache[s].text)
    BY <1>1 DEF GapInv
  <2>2. Found(cache[s].doc, cache[s].text)'
    <3>1. \A d, text : d = cache[s].doc /\ text = cache[s].text /\ Found(d, text) => Found(d, text)'
      BY DEF FaqGrows
    <3>2. PICK d, text : d = cache[s].doc /\ text = cache[s].text
      OBVIOUS
    <3>3. Found(d, text)' /\ d = cache'[s].doc /\ text = cache'[s].text
      BY <1>1, <2>1, <3>1, <3>2
    <3> QED BY <3>3 DEF Found, Says
  <2> QED BY <1>1, <2>1, <2>2
<1>2. ASSUME row'.doc = row.doc, row'.final = row.final, rewritten' = rewritten,
             row'.status = "synced", row.status = "synced"
      PROVE  Indexed(row.doc)' /\ (~rewritten' => Says(row.doc, row.final)')
  <2>1. Indexed(row.doc) /\ (~rewritten => Says(row.doc, row.final))
    BY <1>2 DEF GapInv, RowBacked
  <2>2. PICK d, text : d = row.doc /\ text = row.final
    OBVIOUS
  <2>3. Indexed(d)' /\ (~rewritten => Says(d, text)') /\ d = row'.doc /\ text = row'.final
    BY <1>2, <2>1, <2>2 DEF FaqGrows
  <2> QED BY <1>2, <2>3 DEF Indexed, Says
<1>3. row'.doc = row.doc /\ row'.final = row.final /\ rewritten' = rewritten
        /\ (row'.status = "synced" => row.status = "synced") => RowBacked'
  BY <1>2 DEF RowBacked
<1> QED BY <1>1, <1>3

\* A request that goes on, reads the row or ends leaves the others with what they read.
LEMMA GapCalmOn ==
  ASSUME GapInv, NEW r \in Requests, DOMAIN e_req' = Requests, e_req[r] # None,
         \A k \in Requests \ {r} : e_req'[k] = e_req[k],
         \/ e_req'[r] = None \/ e_req'[r].final = row.final
         \/ Gap!Confirming(r) /\ e_req'[r].final = e_req[r].final,
         row'.final = row.final, e_crossed' = e_crossed, rewritten' = rewritten
  PROVE  GapCalm'
<1>1. GapCalm
  BY DEF GapInv
<1>2. ASSUME NEW k \in Requests PROVE GapReadOK(k)'
  <2>1. CASE k # r
    BY <1>1, <1>2, <2>1 DEF GapCalm, GapReadOK, Gap!Confirming
  <2>2. CASE k = r
    BY <1>1, <1>2, <2>2 DEF GapCalm, GapReadOK, Gap!Confirming
  <2> QED BY <2>1, <2>2
<1>3. \A k \in Requests : e_req'[k] # None => e_req[k] # None
  OBVIOUS
<1> QED BY <1>1, <1>2, <1>3 DEF GapCalm

\* A request begins with the status it reads.
LEMMA GapBegin ==
  ASSUME GapInv, NEW r \in Requests, NEW step \in {"draft", "confirm"}, NEW text \in Wordings,
         Gap!Begin(r, step, text)
  PROVE  GapInv'
<1> DEFINE new == [step |-> step, status |-> row.status, final |-> row.final,
                   text |-> text, doc |-> 0]
<1>1. /\ e_req[r] = None /\ e_req' = [e_req EXCEPT ![r] = new]
      /\ e_crossed' = (e_crossed \/ \E k \in Requests : e_req[k] # None)
      /\ UNCHANGED <<row, faq, cache, e_edits, e_failed, rewritten>>
  BY DEF Gap!Begin, Gap!Busy
<1>2. new \in Gap!Asking /\ new.step = step
  BY DEF Gap!Asking, Gap!Steps, Gap!NoText, GapInv, GapRow
<1> HIDE DEF new
<1>3. DOMAIN e_req' = Requests /\ e_req'[r] = new /\ \A k \in Requests \ {r} : e_req'[k] = e_req[k]
  BY <1>1 DEF GapInv
<1>4. GapRequestOK(r)'
  BY <1>2, <1>3 DEF GapRequestOK
<1>5. FaqGrows
  BY <1>1, FaqSame
<1>6. (\A k \in Requests : GapRequestOK(k))'
  BY <1>3, <1>4, <1>5, GapOthers
<1>7. ASSUME ~e_crossed', ~e_failed' PROVE GapServed'
  <2>1. (\A k \in Requests : e_req[k] = None) /\ GapServed
    BY <1>7, <1>1 DEF GapInv
  <2>2. \A k \in Requests : k # r => e_req'[k] = None
    BY <2>1, <1>3
  <2> QED BY <2>1, <2>2, <1>1, <1>2, <1>3 DEF GapServed
<1>8. e_crossed' \in BOOLEAN
  BY <1>1 DEF GapInv
<1>9. GapCalm'
  <2>1. GapCalm
    BY DEF GapInv
  <2>2. ~e_crossed' => \A k \in Requests : e_req[k] = None /\ (k # r => e_req'[k] = None)
    BY <1>1, <1>3
  <2>3. ASSUME NEW k \in Requests PROVE GapReadOK(k)'
    BY <1>1, <1>2, <1>3, <2>1 DEF GapCalm, GapReadOK, Gap!Confirming
  <2>4. ~e_crossed' => ~e_crossed
    BY <1>1
  <2> QED BY <1>1, <2>1, <2>2, <2>3, <2>4 DEF GapCalm
<1>10. RowBacked'
  BY <1>1, <1>5, GapStores
<1> QED BY <1>1, <1>3, <1>5, <1>6, <1>7, <1>8, <1>9, <1>10, GapStores DEF GapInv

\* A request that ends leaves none behind, if it was the only one.
LEMMA GapEnds ==
  ASSUME GapInv, NEW r \in Requests, e_req[r] # None, e_req' = [e_req EXCEPT ![r] = None]
  PROVE  /\ DOMAIN e_req' = Requests /\ GapRequestOK(r)'
         /\ \A k \in Requests \ {r} : e_req'[k] = e_req[k]
         /\ GapServed => \A k \in Requests : e_req'[k] = None
<1>1. DOMAIN e_req' = Requests /\ e_req'[r] = None /\ \A k \in Requests \ {r} : e_req'[k] = e_req[k]
  BY DEF GapInv
<1>2. GapServed => \A k \in Requests : e_req'[k] = None
  BY <1>1 DEF GapServed
<1> QED BY <1>1, <1>2 DEF GapRequestOK

\* A draft that is saved leaves the answer and its document alone.
LEMMA GapSaveDraft ==
  ASSUME GapInv, NEW r \in Requests, Gap!SaveDraft(r)
  PROVE  GapInv'
<1> DEFINE q == e_req[r]
           status2 == IF q.status = "ai_drafted" THEN row.status ELSE "ai_drafted"
<1>1. /\ q # None /\ q.step = "draft" /\ e_req' = [e_req EXCEPT ![r] = None]
      /\ row' = [row EXCEPT !.draft = q.text, !.status = status2]
      /\ UNCHANGED <<faq, cache, e_crossed, e_failed, rewritten>>
  BY DEF Gap!SaveDraft, Gap!At, Gap!Done, Gap!Restated
<1>2. q \in Gap!Asking
  BY <1>1 DEF GapInv, GapRequestOK
<1>3. /\ row' \in GapRow /\ row'.final = row.final /\ row'.doc = row.doc
      /\ row'.status = "synced" => row.status = "synced"
  BY <1>1, <1>2 DEF GapInv, GapRow, Gap!Asking, Gap!Status
<1>4. FaqGrows
  BY <1>1, FaqSame
<1>5. (\A k \in Requests : GapRequestOK(k))'
  BY <1>1, <1>4, GapEnds, GapOthers DEF q
<1>6. RowBacked' /\ GapCalm'
  <2>1. RowBacked'
    BY <1>1, <1>3, <1>4, GapStores
  <2>2. GapCalm'
    BY <1>1, <1>3, GapEnds, GapCalmOn DEF q
  <2> QED BY <2>1, <2>2
<1>7. GapServed => GapServed'
  BY <1>1, <1>3, GapEnds DEF GapServed, q
<1> QED BY <1>1, <1>3, <1>4, <1>5, <1>6, <1>7, GapEnds, GapStores DEF GapInv, q

\* What a person writes takes the row out of the synced ones.
LEMMA GapEdit ==
  ASSUME GapInv, NEW kind \in {"draft", "final", "ignore"}, NEW text \in Wordings,
         Gap!Edit(kind, text)
  PROVE  GapInv'
<1>1. /\ row' = Gap!Edited(kind, text)
      /\ e_crossed' = (e_crossed \/ \E k \in Requests : e_req[k] # None)
      /\ rewritten' = (rewritten \/ (row'.final # row.final /\ \E k \in Requests : Gap!Confirming(k)))
      /\ UNCHANGED <<faq, cache, e_req, e_failed>>
  BY DEF Gap!Edit, Gap!Busy, Gap!Rewrites
<1>2. row' \in GapRow /\ row'.status # "synced"
  BY <1>1 DEF GapInv, GapRow, Gap!Edited, Gap!Status
<1>3. FaqGrows
  BY <1>1, FaqSame
<1>4. (\A k \in Requests : GapRequestOK(k))'
  BY <1>1 DEF GapInv, GapRequestOK, Found, Says
<1>5. e_crossed' \in BOOLEAN /\ (~e_crossed' => ~e_crossed)
  BY <1>1 DEF GapInv
<1>6. GapServed => GapServed'
  BY <1>1, <1>2 DEF GapServed
<1>7. GapCalm'
  <2>1. GapCalm
    BY DEF GapInv
  <2>2. ASSUME NEW k \in Requests PROVE GapReadOK(k)'
    BY <1>1, <2>1 DEF GapCalm, GapReadOK, Gap!Confirming
  <2>3. ~e_crossed' => ~rewritten'
    <3>1. (\E k \in Requests : Gap!Confirming(k)) => e_crossed'
      BY <1>1 DEF Gap!Confirming
    <3> QED BY <1>1, <1>5, <2>1, <3>1 DEF GapCalm
  <2> QED BY <1>1, <1>5, <2>1, <2>2, <2>3 DEF GapCalm
<1>8. RowBacked'
  BY <1>2 DEF RowBacked
<1> QED BY <1>1, <1>2, <1>3, <1>4, <1>5, <1>6, <1>7, <1>8, GapStores DEF GapInv

\* A confirmation begins with the text it will store.
LEMMA GapBeginSync ==
  ASSUME GapInv, NEW r \in Requests, Gap!BeginSync(r)
  PROVE  GapInv'
<1>1. Gap!Chosen \in Wordings /\ Gap!Begin(r, "confirm", Gap!Chosen)
  BY DEF Gap!BeginSync, Gap!Chosen, Gap!NoText, GapInv, GapRow
<1> QED BY <1>1, GapBegin

\* A request goes on, and all it knows it knows rightly.
LEMMA GapGoesOn ==
  ASSUME GapInv, NEW r \in Requests, NEW new \in Gap!Asking, e_req[r] # None,
         e_req' = [e_req EXCEPT ![r] = new], FaqGrows,
         new.step = "vectorize" => Says(new.doc, new.text)',
         new.step \in {"cache", "redis", "mark"} => Found(new.doc, new.text)'
  PROVE  /\ DOMAIN e_req' = Requests /\ e_req'[r] = new
         /\ \A k \in Requests \ {r} : e_req'[k] = e_req[k]
         /\ (\A k \in Requests : GapRequestOK(k))'
         /\ new # None
<1>1. DOMAIN e_req' = Requests /\ e_req'[r] = new /\ \A k \in Requests \ {r} : e_req'[k] = e_req[k]
  BY DEF GapInv
<1>2. GapRequestOK(r)'
  BY <1>1 DEF GapRequestOK
<1>3. new # None
  BY KnowledgeAssumption DEF Gap!GapAssumption
<1> QED BY <1>1, <1>2, <1>3, GapOthers

\* It reads the row in a session of its own.
LEMMA GapRead ==
  ASSUME GapInv, NEW r \in Requests, Gap!ReadGap(r)
  PROVE  GapInv'
<1> DEFINE q == e_req[r]
<1>1. /\ q # None /\ q.step = "confirm"
      /\ e_req' = [e_req EXCEPT ![r] = [q EXCEPT !.step = "store", !.status = row.status,
                                                 !.final = row.final]]
      /\ UNCHANGED <<row, faq, cache, e_crossed, e_failed, rewritten>>
  BY DEF Gap!ReadGap, Gap!At
<1>2. PICK new : new = [q EXCEPT !.step = "store", !.status = row.status, !.final = row.final]
  OBVIOUS
<1>3. q \in Gap!Asking
  BY <1>1 DEF GapInv, GapRequestOK
<1>4. new \in Gap!Asking /\ new.step = "store" /\ new.final = row.final
  BY <1>2, <1>3 DEF Gap!Asking, Gap!Steps, Gap!NoText, GapInv, GapRow
<1>5. e_req' = [e_req EXCEPT ![r] = new]
  BY <1>1, <1>2
<1>6. FaqGrows
  BY <1>1, FaqSame
<1>7. /\ DOMAIN e_req' = Requests /\ e_req'[r] = new
      /\ \A k \in Requests \ {r} : e_req'[k] = e_req[k]
      /\ (\A k \in Requests : GapRequestOK(k))'
      /\ new # None
  BY <1>1, <1>4, <1>5, <1>6, GapGoesOn
<1>8. GapServed => GapServed'
  BY <1>1, <1>4, <1>7 DEF GapServed
<1>9. RowBacked' /\ GapCalm'
  <2>1. RowBacked'
    BY <1>1, <1>6, GapStores
  <2>2. GapCalm'
    BY <1>1, <1>4, <1>7, GapCalmOn
  <2> QED BY <2>1, <2>2
<1> QED BY <1>1, <1>6, <1>7, <1>8, <1>9, GapStores DEF GapInv

\* It appends its document, which says what it confirms.
LEMMA GapStore ==
  ASSUME GapInv, NEW r \in Requests, Gap!StoreFaq(r)
  PROVE  GapInv'
<1> DEFINE q == e_req[r]
           entry == [text |-> q.text, vectorized |-> FALSE]
<1>1. /\ q # None /\ q.step = "store" /\ Len(faq) < MaxDocs
      /\ faq' = Append(faq, entry)
      /\ e_req' = [e_req EXCEPT ![r] = [q EXCEPT !.step = "vectorize", !.doc = Len(faq')]]
      /\ UNCHANGED <<row, cache, e_crossed, e_failed, rewritten>>
  BY DEF Gap!StoreFaq, Gap!At
<1>2. q \in Gap!Asking
  BY <1>1 DEF GapInv, GapRequestOK
<1>3. faq \in Seq(Faq) /\ MaxDocs \in Nat /\ entry \in Faq /\ entry.text = q.text
  BY <1>2, KnowledgeAssumption DEF GapInv, Faqs, Faq, Gap!GapAssumption, Gap!Asking
<1> HIDE DEF q, entry
<1>4. /\ faq' \in Seq(Faq) /\ Len(faq') = Len(faq) + 1 /\ Len(faq') <= MaxDocs
      /\ faq'[Len(faq')] = entry /\ Len(faq') \in Nat
      /\ \A i \in 1 .. Len(faq) : faq'[i] = faq[i]
  BY <1>1, <1>3
<1>5. FaqGrows
  <2> SUFFICES ASSUME NEW d, NEW text, Says(d, text)
               PROVE  Says(d, text)' /\ (faq[d].vectorized => faq'[d].vectorized)
    BY DEF FaqGrows, Found, Says, Indexed
  <2> QED BY <1>3, <1>4 DEF Says
<1>6. PICK new : new = [q EXCEPT !.step = "vectorize", !.doc = Len(faq')]
  OBVIOUS
<1>7. /\ new \in Gap!Asking /\ new.step = "vectorize" /\ new.doc = Len(faq') /\ new.text = q.text
      /\ new.final = q.final
  BY <1>2, <1>4, <1>6 DEF Gap!Asking, Gap!Steps
<1>8. Says(new.doc, new.text)'
  BY <1>3, <1>4, <1>7 DEF Says
<1>9. e_req' = [e_req EXCEPT ![r] = new]
  BY <1>1, <1>6 DEF q
<1>10. /\ DOMAIN e_req' = Requests /\ e_req'[r] = new
       /\ \A k \in Requests \ {r} : e_req'[k] = e_req[k]
       /\ (\A k \in Requests : GapRequestOK(k))'
       /\ new # None
  BY <1>1, <1>5, <1>7, <1>8, <1>9, GapGoesOn DEF q
<1>11. GapServed => GapServed'
  BY <1>1, <1>7, <1>10 DEF GapServed, q
<1>12. faq' \in Faqs
  BY <1>4 DEF Faqs
<1>13. RowBacked' /\ GapCalm'
  <2>1. RowBacked'
    BY <1>1, <1>5, GapStores
  <2>2. Gap!Confirming(r)
    BY <1>1 DEF Gap!Confirming, q
  <2>3. GapCalm'
    BY <1>1, <1>7, <1>10, <2>2, GapCalmOn DEF q
  <2> QED BY <2>1, <2>3
<1> QED BY <1>1, <1>4, <1>5, <1>10, <1>11, <1>12, <1>13, GapStores DEF GapInv

\* It makes its own document searchable.
LEMMA GapVectorize ==
  ASSUME GapInv, NEW r \in Requests, Gap!VectorizeFaq(r)
  PROVE  GapInv'
<1> DEFINE q == e_req[r]
<1>1. /\ q # None /\ q.step = "vectorize"
      /\ faq' = [faq EXCEPT ![q.doc].vectorized = TRUE]
      /\ e_req' = [e_req EXCEPT ![r] = [q EXCEPT !.step = "cache"]]
      /\ UNCHANGED <<row, cache, e_crossed, e_failed, rewritten>>
  BY DEF Gap!VectorizeFaq, Gap!At, Gap!Goto
<1>2. q \in Gap!Asking /\ Says(q.doc, q.text)
  BY <1>1 DEF GapInv, GapRequestOK
<1>3. faq \in Seq(Faq)
  BY DEF GapInv, Faqs
<1> HIDE DEF q
<1>4. q.doc \in 1 .. Len(faq) /\ faq[q.doc] \in Faq /\ faq[q.doc].text = q.text
  BY <1>2, <1>3 DEF Says
<1>5. PICK entry : entry = [faq[q.doc] EXCEPT !.vectorized = TRUE]
  OBVIOUS
<1>6. entry \in Faq /\ entry.vectorized /\ entry.text = q.text
  BY <1>4, <1>5 DEF Faq
<1>7. faq' = [faq EXCEPT ![q.doc] = entry]
  BY <1>1, <1>5
<1>8. /\ faq' \in Seq(Faq) /\ Len(faq') = Len(faq) /\ faq'[q.doc] = entry
      /\ \A i \in 1 .. Len(faq) : i # q.doc => faq'[i] = faq[i]
  BY <1>3, <1>4, <1>6, <1>7
<1>9. FaqGrows
  <2> SUFFICES ASSUME NEW d, NEW text, Says(d, text)
               PROVE  Says(d, text)' /\ (faq[d].vectorized => faq'[d].vectorized)
    BY DEF FaqGrows, Found, Says, Indexed
  <2>1. CASE d = q.doc
    BY <2>1, <1>4, <1>6, <1>8 DEF Says
  <2>2. CASE d # q.doc
    BY <2>2, <1>8 DEF Says
  <2> QED BY <2>1, <2>2
<1>10. PICK new : new = [q EXCEPT !.step = "cache"]
  OBVIOUS
<1>11. new \in Gap!Asking /\ new.step = "cache" /\ new.doc = q.doc /\ new.text = q.text
       /\ new.final = q.final
  BY <1>2, <1>10 DEF Gap!Asking, Gap!Steps
<1>12. Found(new.doc, new.text)'
  BY <1>4, <1>6, <1>8, <1>11 DEF Found, Says
<1>13. e_req' = [e_req EXCEPT ![r] = new]
  BY <1>1, <1>10
<1>14. /\ DOMAIN e_req' = Requests /\ e_req'[r] = new
       /\ \A k \in Requests \ {r} : e_req'[k] = e_req[k]
       /\ (\A k \in Requests : GapRequestOK(k))'
       /\ new # None
  BY <1>1, <1>9, <1>11, <1>12, <1>13, GapGoesOn DEF q
<1>15. GapServed => GapServed'
  BY <1>1, <1>11, <1>14 DEF GapServed, q
<1>16. faq' \in Faqs /\ Len(faq') <= MaxDocs
  BY <1>8 DEF Faqs, GapInv
<1>17. RowBacked' /\ GapCalm'
  <2>1. RowBacked'
    BY <1>1, <1>9, GapStores
  <2>2. Gap!Confirming(r)
    BY <1>1 DEF Gap!Confirming, q
  <2>3. GapCalm'
    BY <1>1, <1>11, <1>14, <2>2, GapCalmOn DEF q
  <2> QED BY <2>1, <2>3
<1> QED BY <1>1, <1>9, <1>14, <1>15, <1>16, <1>17, GapStores DEF GapInv

\* It caches what its document says, or a store refuses.
LEMMA GapCache ==
  ASSUME GapInv, NEW r \in Requests, NEW step \in {"cache", "redis"}, NEW next2,
         next2 = (IF step = "cache" THEN "redis" ELSE "mark"), Gap!CacheAnswer(r, step, next2)
  PROVE  GapInv'
<1> DEFINE q == e_req[r]
           name == IF step = "cache" THEN "mysql" ELSE "redis"
           answer == [text |-> q.text, doc |-> q.doc]
<1>1. /\ q # None /\ q.step = step
      /\ e_req' = [e_req EXCEPT ![r] = [q EXCEPT !.step = next2]]
      /\ \/ cache' = [cache EXCEPT ![name] = answer] /\ e_failed' = e_failed
         \/ cache' = cache /\ e_failed' = TRUE
      /\ UNCHANGED <<row, faq, e_crossed, rewritten>>
  BY DEF Gap!CacheAnswer, Gap!At, Gap!Goto
<1>2. q \in Gap!Asking /\ Found(q.doc, q.text)
  BY <1>1 DEF GapInv, GapRequestOK
<1>3. name \in Gap!Stores
  BY DEF Gap!Stores
<1>4. answer \in Gap!Answers /\ answer.text = q.text /\ answer.doc = q.doc /\ answer # None
  BY <1>2, KnowledgeAssumption DEF Gap!Asking, Gap!Answers, Gap!GapAssumption
<1>5. DOMAIN cache' = Gap!Stores /\ \A s \in Gap!Stores : cache'[s] # cache[s] => cache'[s] = answer
  BY <1>1, <1>3 DEF GapInv
<1>6. ~e_failed' => cache'[name] = answer /\ \A s \in Gap!Stores : s # name => cache'[s] = cache[s]
  BY <1>1, <1>3 DEF GapInv
<1>7. FaqGrows
  BY <1>1, FaqSame
<1>8. PICK new : new = [q EXCEPT !.step = next2]
  OBVIOUS
<1>9. new \in Gap!Asking /\ new.step = next2 /\ new.doc = q.doc /\ new.text = q.text
      /\ new.final = q.final
  BY <1>2, <1>8 DEF Gap!Asking, Gap!Steps
<1>10. Found(new.doc, new.text)'
  BY <1>2, <1>9, <1>1 DEF Found, Says
<1>11. e_req' = [e_req EXCEPT ![r] = new]
  BY <1>1, <1>8
<1>12. /\ DOMAIN e_req' = Requests /\ e_req'[r] = new
       /\ \A k \in Requests \ {r} : e_req'[k] = e_req[k]
       /\ (\A k \in Requests : GapRequestOK(k))'
       /\ new # None
  BY <1>1, <1>7, <1>9, <1>10, <1>11, GapGoesOn
<1>13. ASSUME NEW s \in Gap!Stores, cache'[s] # None
       PROVE  cache'[s] \in Gap!Answers /\ Found(cache'[s].doc, cache'[s].text)
  BY <1>13, <1>2, <1>4, <1>5 DEF GapInv
<1>14. \A s \in Gap!Stores :
         cache'[s] # None => cache'[s] \in Gap!Answers /\ Found(cache[s].doc, cache[s].text)'
  BY <1>13, <1>1 DEF Found, Says
<1>15. ASSUME ~e_crossed', ~e_failed' PROVE GapServed'
  <2>1. GapServed
    BY <1>15, <1>1 DEF GapInv
  <2>2. \A k \in Requests \ {r} : e_req'[k] = None
    BY <2>1, <1>1, <1>12 DEF GapServed
  <2>3. next2 \in {"redis", "mark"}
    OBVIOUS
  <2>4. cache'["mysql"] # None /\ cache'["mysql"].text = q.text
    BY <2>1, <1>1, <1>4, <1>6, <1>15 DEF GapServed, Gap!Stores
  <2>5. next2 = "mark" => cache'["redis"] # None /\ cache'["redis"].text = q.text
    BY <1>4, <1>6, <1>15 DEF Gap!Stores
  <2> QED BY <2>2, <2>3, <2>4, <2>5, <1>9, <1>12 DEF GapServed
<1>16. e_failed' \in BOOLEAN /\ RowBacked'
  BY <1>1, <1>7, GapStores DEF GapInv
<1>17. GapCalm'
  <2>1. Gap!Confirming(r)
    BY <1>1 DEF Gap!Confirming
  <2> QED BY <1>1, <1>9, <1>12, <2>1, GapCalmOn
<1> QED BY <1>1, <1>5, <1>12, <1>14, <1>15, <1>16, <1>17 DEF GapInv

\* It marks the row with its document, and with its answer unless it read just that.
LEMMA GapMark ==
  ASSUME GapInv, NEW r \in Requests, Gap!MarkSynced(r)
  PROVE  GapInv'
<1> DEFINE q == e_req[r]
           status2 == IF q.status = "synced" THEN row.status ELSE "synced"
           final2 == IF q.final = q.text THEN row.final ELSE q.text
<1>1. /\ q # None /\ q.step = "mark" /\ e_req' = [e_req EXCEPT ![r] = None]
      /\ row' = [row EXCEPT !.final = final2, !.doc = q.doc, !.status = status2]
      /\ rewritten' = (rewritten \/ (row'.final # row.final /\ \E k \in Requests \ {r} : Gap!Confirming(k)))
      /\ UNCHANGED <<faq, cache, e_crossed, e_failed>>
  BY DEF Gap!MarkSynced, Gap!At, Gap!Done, Gap!Restated, Gap!Answered, Gap!Rewrites
<1>2. q \in Gap!Asking /\ Found(q.doc, q.text)
  BY <1>1 DEF GapInv, GapRequestOK
<1>3. q.doc \in 0 .. MaxDocs
  <2>1. Len(faq) \in Nat /\ Len(faq) <= MaxDocs /\ q.doc \in 1 .. Len(faq) /\ MaxDocs \in Nat
    BY <1>2, KnowledgeAssumption DEF GapInv, Faqs, Found, Says, Gap!GapAssumption
  <2> QED BY <2>1
<1>4. row' \in GapRow /\ row'.final = final2 /\ row'.doc = q.doc
  BY <1>1, <1>2, <1>3 DEF GapInv, GapRow, Gap!Asking, Gap!Status
<1>5. FaqGrows
  BY <1>1, FaqSame
<1>6. (\A k \in Requests : GapRequestOK(k))'
  BY <1>1, <1>5, GapEnds, GapOthers DEF q
<1>7. GapCalm /\ rewritten \in BOOLEAN
  BY DEF GapInv, GapCalm
<1>8. ~rewritten => row'.final = q.text
  <2>1. ~rewritten => q.final = row.final
    BY <1>1, <1>7 DEF GapCalm, GapReadOK, Gap!Confirming
  <2> QED BY <1>4, <2>1
<1>9. rewritten => rewritten'
  BY <1>1
<1>10. RowBacked'
  <2>1. Indexed(q.doc) /\ Says(q.doc, q.text)
    BY <1>2 DEF Found, Says, Indexed
  <2>2. Indexed(row.doc)'
    BY <1>1, <1>4, <2>1 DEF Indexed
  <2>3. ~rewritten' => Says(row.doc, row.final)'
    BY <1>1, <1>4, <1>8, <1>9, <2>1 DEF Says
  <2> QED BY <2>2, <2>3 DEF RowBacked
<1>11. e_req'[r] = None /\ DOMAIN e_req' = Requests /\ \A k \in Requests \ {r} : e_req'[k] = e_req[k]
  BY <1>1 DEF GapInv
<1>12. GapCalm'
  <2>1. ASSUME NEW k \in Requests PROVE GapReadOK(k)'
    <3>1. CASE k = r
      BY <1>11, <3>1 DEF GapReadOK, Gap!Confirming
    <3>2. CASE k # r
      BY <1>1, <1>7, <1>9, <1>11, <3>2 DEF GapCalm, GapReadOK, Gap!Confirming
    <3> QED BY <3>1, <3>2
  <2>2. ~e_crossed' => ~rewritten'
    <3>1. ~e_crossed => \A k \in Requests \ {r} : ~Gap!Confirming(k)
      BY <1>1, <1>7 DEF GapCalm, Gap!Confirming
    <3> QED BY <1>1, <1>7, <3>1 DEF GapCalm
  <2> QED BY <1>1, <1>7, <1>11, <2>1, <2>2 DEF GapCalm
<1>13. ~e_crossed /\ GapServed => GapServed'
  <2>1. ~e_crossed => row'.final = q.text
    BY <1>7, <1>8 DEF GapCalm
  <2>2. ~e_crossed /\ GapServed => \A s \in Gap!Stores : cache[s] # None /\ cache[s].text = q.text
    BY <1>1 DEF GapServed, Gap!Stores
  <2> HIDE DEF q
  <2> QED BY <1>1, <2>1, <2>2, GapEnds DEF GapServed, Gap!Stores, q
<1> QED BY <1>1, <1>4, <1>5, <1>6, <1>10, <1>12, <1>13, GapEnds, GapStores DEF GapInv, q

\* A confirmation that breaks off leaves documents and answers as they are.
LEMMA GapBreakOff ==
  ASSUME GapInv, NEW r \in Requests, Gap!BreakOff(r)
  PROVE  GapInv'
<1>1. /\ e_req[r] # None /\ e_req' = [e_req EXCEPT ![r] = None] /\ e_failed' = TRUE
      /\ UNCHANGED <<row, faq, cache, e_crossed, rewritten>>
  BY DEF Gap!BreakOff, Gap!Done
<1>2. FaqGrows
  BY <1>1, FaqSame
<1>3. (\A k \in Requests : GapRequestOK(k))'
  BY <1>1, <1>2, GapEnds, GapOthers
<1>4. RowBacked' /\ GapCalm'
  <2>1. RowBacked'
    BY <1>1, <1>2, GapStores
  <2>2. e_req'[r] = None
    BY <1>1 DEF GapInv
  <2>3. GapCalm'
    BY <1>1, <2>2, GapEnds, GapCalmOn
  <2> QED BY <2>1, <2>3
<1> QED BY <1>1, <1>2, <1>3, <1>4, GapEnds, GapStores DEF GapInv

\* No step of the gap breaks its invariant.
LEMMA GapStep == GapInv /\ [Gap!Next]_gap => GapInv'
<1> SUFFICES ASSUME GapInv, [Gap!Next]_gap PROVE GapInv'
  OBVIOUS
<1>1. CASE UNCHANGED gap
  <2>1. FaqGrows
    BY <1>1, FaqSame DEF gap
  <2>2. (\A k \in Requests : GapRequestOK(k))'
    BY <1>1 DEF gap, GapInv, GapRequestOK, Found, Says
  <2>3. GapServed => GapServed'
    BY <1>1 DEF gap, GapServed
  <2>4. GapCalm'
    BY <1>1 DEF gap, GapInv, GapCalm, GapReadOK, Gap!Confirming
  <2>5. RowBacked'
    BY <1>1, <2>1, GapStores DEF gap
  <2> QED BY <1>1, <2>1, <2>2, <2>3, <2>4, <2>5, GapStores DEF gap, GapInv
<1>2. ASSUME NEW r \in Requests, Gap!CacheAnswer(r, "cache", "redis") \/ Gap!CacheAnswer(r, "redis", "mark")
      PROVE  GapInv'
  BY <1>2, GapCache
<1>3. ASSUME NEW r \in Requests, NEW t \in Wordings, Gap!BeginDraft(r, t)
      PROVE  GapInv'
  BY <1>3, GapBegin DEF Gap!BeginDraft
<1>4. CASE Gap!Next
  BY <1>2, <1>3, <1>4, GapEdit, GapSaveDraft, GapBeginSync, GapRead, GapStore, GapVectorize,
     GapMark, GapBreakOff
  DEF Gap!Next
<1> QED BY <1>1, <1>4

\* A behaviour about the gap takes only its steps.
LEMMA GapFocus == focus = "gap" /\ KnowledgeStep => focus' = "gap" /\ [Gap!Next]_gap
BY DEF KnowledgeStep, KnowledgeNext, gap

\* Whatever requests overlap or break off, answers in the caches are backed by documents that can
\* be found, and a synced row names such a document, which says what the row answers unless the
\* answer was changed under a confirmation that had read it; with one request at a time and no
\* failure, a synced row is served (confirm_and_sync).
THEOREM GapsStaySound == KnowledgeSpec => []GapsSound
<1> DEFINE I == focus = "gap" => GapInv
<1>1. KnowledgeInit => I
  BY GapInit DEF KnowledgeInit
<1>2. I /\ KnowledgeStep => I'
  <2> SUFFICES ASSUME I, KnowledgeStep PROVE I'
    OBVIOUS
  <2>1. CASE focus = "gap"
    BY <2>1, GapFocus, GapStep
  <2>2. CASE focus # "gap"
    BY <2>2 DEF KnowledgeStep, KnowledgeNext
  <2> QED BY <2>1, <2>2
<1>3. GapInv => Gap!GapsSound
  <2> SUFFICES ASSUME GapInv PROVE Gap!GapsSound
    OBVIOUS
  <2>1. Gap!TypeOK
    BY DEF GapInv, GapRow, GapRequestOK, Gap!Asking, Gap!TypeOK, Gap!NoText
  <2>2. DOMAIN faq = 1 .. Len(faq)
    BY DEF GapInv, Faqs
  <2>3. Gap!AnswersAreBacked /\ Gap!SyncedIsIndexed
    BY <2>2 DEF GapInv, GapCalm, RowBacked, Indexed, Found, Says, Gap!AnswersAreBacked,
                Gap!SyncedIsIndexed
  <2>4. Gap!SyncedIsServed
    BY DEF GapInv, GapServed, Gap!SyncedIsServed, Gap!Busy
  <2> QED BY <2>1, <2>3, <2>4 DEF Gap!GapsSound
<1> QED BY <1>1, <1>2, <1>3, PTL DEF KnowledgeSpec, KnowledgeStep, GapsSound

-----------------------------------------------------------------------------
(* Backups.                                                                 *)

\* A store's place in the order of the dumps.
Rank == [mysql |-> 1, redis |-> 2, milvus |-> 3]

\* The stores and the order of their dumps, spelt out.
LEMMA StoreOrder ==
  /\ Backups!StoreSet = {"mysql", "redis", "milvus"}
  /\ \A s \in Backups!StoreSet : Rank[s] \in 1 .. 3 /\ Backups!Stores[Rank[s]] = s
  /\ \A i \in 1 .. 3 : Backups!Stores[i] \in Backups!StoreSet /\ Rank[Backups!Stores[i]] = i
<1>1. Backups!Stores[1] = "mysql" /\ Backups!Stores[2] = "redis" /\ Backups!Stores[3] = "milvus"
  BY DEF Backups!Stores
<1>2. \A i \in 1 .. 3 : i = 1 \/ i = 2 \/ i = 3
  OBVIOUS
<1>3. Backups!StoreSet = {"mysql", "redis", "milvus"}
  BY <1>1, <1>2 DEF Backups!StoreSet
<1>4. Rank["mysql"] = 1 /\ Rank["redis"] = 2 /\ Rank["milvus"] = 3
  BY DEF Rank
<1> QED BY <1>1, <1>2, <1>3, <1>4

Names == [Backups!StoreSet -> Backups!Seconds]
Loose == SUBSET (Keys \cup Vectors)
Dumps == [Backups!Tables -> SUBSET TableRows] \cup Loose \cup {None}

\* What a dump may hold.
LEMMA DumpKinds ==
  /\ None \in Dumps
  /\ \A s \in Backups!StoreSet : Backups!Contents(s) \subseteq Dumps
  /\ \A s \in Backups!StoreSet : s # "mysql" => /\ Backups!Contents(s) = SUBSET Backups!Items(s)
                                                /\ SUBSET Backups!Items(s) \subseteq Loose
BY StoreOrder DEF Dumps, Loose, Backups!Contents, Backups!Items

\* No content of a store is None.
LEMMA ContentIsNotNone ==
  ASSUME NEW s \in Backups!StoreSet, NEW what \in Backups!Contents(s) PROVE what # None
BY KnowledgeAssumption DEF Backups!BackupAssumption

\* A backup under way, a restore between two stores, a restore that puts items back.
BackupRun ==
  [op : {"next", "reading"}, single : BOOLEAN, ts : Backups!Seconds, at : 1 .. 4,
   files : [Backups!StoreSet -> Backups!Seconds \cup {None}], dump : Dumps, left : Loose]
RestoreRun == [op : {"restore"}, files : Names, at : 1 .. 3]
PuttingRun == [op : {"putting"}, files : Names, at : {1, 3}, dump : Loose, left : Loose]
Run == BackupRun \cup RestoreRun \cup PuttingRun

Backing(p) == proc[p] # None /\ proc[p].op \in {"next", "reading"}
Refilling(p) == proc[p] # None /\ proc[p].op = "putting"

\* Where a key that could not be read may be missing.
Missed == {s \in {"redis"} : skipped}

\* What a dump keeps of a store: one of its contents for MySQL, otherwise items of them and
\* every item that is in all of them.
Kept(s, saved, moments, missed) ==
  /\ saved \in Backups!Contents(s)
  /\ IF s = "mysql" THEN saved \in moments
     ELSE /\ saved \subseteq UNION moments
          /\ \A x \in Backups!Items(s) :
               (\A what \in moments : x \in what) => x \in saved \/ s \in missed

\* And while it is read, with the items it has still to meet.
HalfRead(s, dump, left, moments, missed) ==
  IF s = "mysql" THEN left = {} /\ (dump = None \/ dump \in moments)
  ELSE /\ dump \subseteq Backups!Items(s) /\ left \subseteq Backups!Items(s)
       /\ dump \subseteq UNION moments
       /\ \A x \in Backups!Items(s) :
            (\A what \in moments : x \in what) => x \in dump \/ x \in left \/ s \in missed

\* Both outlast whatever a store comes to hold, and keys that are missed.
LEMMA KeptOutlasts ==
  ASSUME NEW s, NEW saved, NEW old, NEW new, old \subseteq new, NEW before, NEW after,
         before \subseteq after, Kept(s, saved, old, before)
  PROVE  Kept(s, saved, new, after)
BY DEF Kept

LEMMA HalfReadOutlasts ==
  ASSUME NEW s, NEW dump, NEW left, NEW old, NEW new, old \subseteq new, NEW before, NEW after,
         before \subseteq after, HalfRead(s, dump, left, old, before)
  PROVE  HalfRead(s, dump, left, new, after)
BY DEF HalfRead

\* The span of a backup has what each store holds, and nothing that no store may hold.
SpanOK(p) ==
  \A s \in Backups!StoreSet : content[s] \in span[p][s] /\ span[p][s] \subseteq Backups!Contents(s)

NamesOK(p) ==
  \A s \in Backups!StoreSet : Rank[s] < proc[p].at => proc[p].files[s] \in Backups!Seconds

ReadOK(p) ==
  LET q == proc[p]
      s == Backups!Stores[q.at] IN
  /\ q.at <= 3 /\ q.files[s] \in Backups!Seconds
  /\ HalfRead(s, q.dump, q.left, span[p][s], Missed)

\* A process is a backup or a restore; what a restore has left to put back is in its file.
ProcOK(p) ==
  /\ proc[p] # None => proc[p] \in Run
  /\ Backing(p) => SpanOK(p) /\ NamesOK(p)
  /\ Backing(p) /\ proc[p].op = "reading" => ReadOK(p)
  /\ Refilling(p) => /\ proc[p].dump \subseteq Backups!Items(Backups!RestoreOrder[proc[p].at])
                     /\ proc[p].left \subseteq proc[p].dump

ManifestOK(t) == manifest[t] # None => manifest[t].files \in Names

\* No two backups, listed or under way, name the same file of a store.
Distinct ==
  /\ \A p, o \in Requests : Backing(p) /\ Backing(o) /\ p # o =>
       \A s \in Backups!StoreSet :
         proc[p].files[s] \in Backups!Seconds => proc[p].files[s] # proc[o].files[s]
  /\ \A t \in Backups!Seconds, p \in Requests : manifest[t] # None /\ Backing(p) =>
       \A s \in Backups!StoreSet : manifest[t].files[s] # proc[p].files[s]
  /\ \A t, u \in Backups!Seconds : manifest[t] # None /\ manifest[u] # None /\ t # u =>
       \A s \in Backups!StoreSet : manifest[t].files[s] # manifest[u].files[s]

\* And the files they name keep of the stores what a dump keeps.
Filed ==
  /\ \A p \in Requests, s \in Backups!StoreSet : Backing(p) /\ Rank[s] < proc[p].at =>
       Kept(s, file[s][proc[p].files[s]], span[p][s], Missed)
  /\ \A t \in Backups!Seconds, s \in Backups!StoreSet : manifest[t] # None =>
       Kept(s, file[s][manifest[t].files[s]], manifest[t].span[s], Missed)

\* While items are put back, Milvus holds those of the file that were, and Redis at least
\* those, unless an error or others came between; nobody else fills Milvus then.
Refilled(p) ==
  LET q == proc[p] IN
  /\ q.at = 1 /\ "milvus" \notin blurred =>
       /\ content["milvus"] = q.dump \ q.left /\ restored["milvus"] = None
       /\ \A o \in Requests : Refilling(o) /\ proc[o].at = 1 => o = p
  /\ q.at = 3 /\ "redis" \notin blurred => q.dump \ q.left \subseteq content["redis"]

AllRefilled == \A p \in Requests : Refilling(p) => Refilled(p)

Shapes ==
  /\ now \in Backups!Seconds /\ shared \in BOOLEAN /\ tampered \in BOOLEAN /\ skipped \in BOOLEAN
  /\ DOMAIN content = Backups!StoreSet /\ DOMAIN restored = Backups!StoreSet
  /\ DOMAIN file = Backups!StoreSet /\ DOMAIN manifest = Backups!Seconds
  /\ DOMAIN proc = Requests /\ DOMAIN span = Requests
  /\ \A p \in Requests : DOMAIN span[p] = Backups!StoreSet
  /\ \A s \in Backups!StoreSet :
       /\ content[s] \in Backups!Contents(s)
       /\ file[s] \in [Backups!Seconds -> Backups!Contents(s) \cup {None}]
  /\ \A t \in Backups!Seconds : ManifestOK(t)

BackupsInv ==
  /\ Shapes
  /\ \A p \in Requests : ProcOK(p)
  /\ ~shared /\ ~tampered => Distinct /\ Filed
  /\ AllRefilled
  /\ Backups!ReportedIsRestored

\* At the start there is no file, no manifest and no process.
LEMMA BackupsBegin == Backups!Init => BackupsInv
<1> SUFFICES ASSUME Backups!Init PROVE BackupsInv
  OBVIOUS
<1>1. 0 \in Backups!Seconds
  BY KnowledgeAssumption DEF Backups!BackupAssumption, Backups!Seconds
<1> USE DEF Backups!Init
<1>2. /\ \A p \in Requests : proc[p] = None
      /\ \A t \in Backups!Seconds : manifest[t] = None
      /\ \A s \in Backups!StoreSet : restored[s] = None
  OBVIOUS
<1>3. \A p \in Requests : ~Backing(p) /\ ~Refilling(p)
  BY <1>2 DEF Backing, Refilling
<1>4. \A s \in Backups!StoreSet : content[s] \in Backups!Contents(s)
  BY DEF Backups!Contents
<1>5. Shapes
  BY <1>1, <1>2, <1>4 DEF Shapes, ManifestOK
<1>6. \A p \in Requests : ProcOK(p)
  BY <1>2, <1>3 DEF ProcOK
<1>7. Distinct /\ Filed /\ AllRefilled
  BY <1>2, <1>3 DEF Distinct, Filed, AllRefilled
<1>8. Backups!ReportedIsRestored
  BY <1>2 DEF Backups!ReportedIsRestored
<1> QED BY <1>5, <1>6, <1>7, <1>8 DEF BackupsInv

\* A step of no backup: what backups do is as before, and their spans only grow.
Apart ==
  /\ skipped => skipped'
  /\ \A p \in Requests : Backing(p)' => Backing(p) /\ proc'[p] = proc[p]
  /\ \A p \in Requests, s \in Backups!StoreSet : Backing(p)' =>
       /\ span[p][s] \subseteq span'[p][s] /\ content'[s] \in span'[p][s]
       /\ span'[p][s] \subseteq Backups!Contents(s)

\* A restore is of its kind.
RestoreOK(p) ==
  /\ proc[p] # None => proc[p] \in Run
  /\ Refilling(p) => /\ proc[p].dump \subseteq Backups!Items(Backups!RestoreOrder[proc[p].at])
                     /\ proc[p].left \subseteq proc[p].dump

LEMMA MissedGrows == (skipped => skipped') => Missed \subseteq Missed'
BY DEF Missed

\* Then the backups under way are in order after it, whatever the restores do ...
LEMMA ApartKeepsRuns ==
  ASSUME BackupsInv, Apart, NEW p \in Requests, RestoreOK(p)'
  PROVE  ProcOK(p)'
<1>1. CASE ~Backing(p)'
  BY <1>1 DEF ProcOK, RestoreOK
<1>2. CASE Backing(p)'
  <2>1. Backing(p) /\ proc'[p] = proc[p] /\ ProcOK(p)
    BY <1>2 DEF Apart, BackupsInv
  <2>2. \A s \in Backups!StoreSet :
          /\ span[p][s] \subseteq span'[p][s] /\ content'[s] \in span'[p][s]
          /\ span'[p][s] \subseteq Backups!Contents(s)
    BY <1>2 DEF Apart
  <2>3. proc[p] \in BackupRun
    BY <2>1 DEF ProcOK, Backing, Run, BackupRun, RestoreRun, PuttingRun
  <2>4. SpanOK(p)' /\ NamesOK(p)'
    BY <2>1, <2>2 DEF ProcOK, SpanOK, NamesOK
  <2>5. ASSUME proc[p].op = "reading" PROVE ReadOK(p)'
    <3>1. ReadOK(p) /\ Backups!Stores[proc[p].at] \in Backups!StoreSet
      BY <2>1, <2>3, <2>5, StoreOrder DEF ProcOK, ReadOK, BackupRun
    <3>2. Missed \subseteq Missed'
      BY MissedGrows DEF Apart
    <3> QED BY <2>1, <2>2, <3>1, <3>2, HalfReadOutlasts DEF ReadOK
  <2> QED BY <2>1, <2>4, <2>5 DEF ProcOK, Refilling, Backing
<1> QED BY <1>1, <1>2

\* ... and what is filed stays filed while no file is touched.
LEMMA ApartKeepsFiles ==
  ASSUME BackupsInv, Apart, UNCHANGED <<file, manifest>>
  PROVE  Distinct /\ Filed => Distinct' /\ Filed'
<1> SUFFICES ASSUME Distinct, Filed PROVE Distinct' /\ Filed'
  OBVIOUS
<1>1. \A p \in Requests : Backing(p)' => Backing(p) /\ proc'[p] = proc[p]
  BY DEF Apart
<1>2. Distinct'
  BY <1>1 DEF Distinct
<1>3. \A p \in Requests, s \in Backups!StoreSet : Backing(p)' => span[p][s] \subseteq span'[p][s]
  BY DEF Apart
<1>4. Missed \subseteq Missed'
  BY MissedGrows DEF Apart
<1>5. ASSUME NEW p \in Requests, NEW s \in Backups!StoreSet, Backing(p)', Rank[s] < proc'[p].at
      PROVE  Kept(s, file'[s][proc'[p].files[s]], span'[p][s], Missed')
  <2>1. Kept(s, file[s][proc[p].files[s]], span[p][s], Missed)
    BY <1>1, <1>5 DEF Filed
  <2> QED BY <1>1, <1>3, <1>4, <1>5, <2>1, KeptOutlasts
<1>6. ASSUME NEW t \in Backups!Seconds, NEW s \in Backups!StoreSet, manifest[t] # None
      PROVE  Kept(s, file'[s][manifest'[t].files[s]], manifest'[t].span[s], Missed')
  <2>1. Kept(s, file[s][manifest[t].files[s]], manifest[t].span[s], Missed)
    BY <1>6 DEF Filed
  <2> QED BY <1>4, <2>1, KeptOutlasts
<1>7. Filed'
  BY <1>5, <1>6 DEF Filed
<1> QED BY <1>2, <1>7

\* A step that changes no store and no span of a backup is apart from the backups.
LEMMA StillApart ==
  ASSUME BackupsInv, content' = content, skipped => skipped',
         \A p \in Requests : Backing(p)' => Backing(p) /\ proc'[p] = proc[p] /\ span'[p] = span[p]
  PROVE  Apart
BY DEF Apart, BackupsInv, ProcOK, SpanOK

\* What everybody remembers when a store changes.
LEMMA HoldsApart ==
  ASSUME BackupsInv, NEW s \in Backups!StoreSet, NEW what \in Backups!Contents(s),
         Backups!Holds(s, what), skipped => skipped',
         \A p \in Requests : Backing(p)' => Backing(p) /\ proc'[p] = proc[p]
  PROVE  /\ Apart
         /\ DOMAIN content' = Backups!StoreSet /\ content'[s] = what
         /\ \A u \in Backups!StoreSet : u # s => content'[u] = content[u]
         /\ \A u \in Backups!StoreSet : content'[u] \in Backups!Contents(u)
         /\ DOMAIN span' = Requests /\ \A p \in Requests : DOMAIN span'[p] = Backups!StoreSet
<1>1. /\ DOMAIN content' = Backups!StoreSet /\ content'[s] = what
      /\ \A u \in Backups!StoreSet : u # s => content'[u] = content[u]
  BY DEF Backups!Holds, BackupsInv, Shapes
<1>2. \A u \in Backups!StoreSet : content'[u] \in Backups!Contents(u)
  BY <1>1 DEF BackupsInv, Shapes
<1>3. DOMAIN span' = Requests /\ \A p \in Requests : DOMAIN span'[p] = Backups!StoreSet
  BY DEF Backups!Holds, BackupsInv, Shapes
<1>4. ASSUME NEW p \in Requests, Backing(p)
      PROVE  /\ span'[p][s] = span[p][s] \cup {what}
             /\ \A u \in Backups!StoreSet : u # s => span'[p][u] = span[p][u]
  <2>1. Backups!BackingUp(p)
    BY <1>4 DEF Backing, Backups!BackingUp, Backups!Doing, Backups!Idle
  <2>2. span'[p] = [span[p] EXCEPT ![s] = @ \cup {what}]
    BY <2>1 DEF Backups!Holds
  <2> QED BY <2>2 DEF BackupsInv, Shapes
<1>5. ASSUME NEW p \in Requests, NEW u \in Backups!StoreSet, Backing(p)
      PROVE  /\ span[p][u] \subseteq span'[p][u] /\ content'[u] \in span'[p][u]
             /\ span'[p][u] \subseteq Backups!Contents(u)
  <2>1. content[u] \in span[p][u] /\ span[p][u] \subseteq Backups!Contents(u)
    BY <1>5 DEF BackupsInv, ProcOK, SpanOK
  <2>2. CASE u = s
    BY <1>1, <1>4, <1>5, <2>1, <2>2
  <2>3. CASE u # s
    BY <1>1, <1>4, <1>5, <2>1, <2>3
  <2> QED BY <2>2, <2>3
<1>6. Apart
  BY <1>5 DEF Apart
<1> QED BY <1>1, <1>2, <1>3, <1>6

\* A process that does nothing remains what it was.
LEMMA RestoreKept ==
  ASSUME BackupsInv, NEW p \in Requests, proc'[p] = proc[p] PROVE RestoreOK(p)'
BY DEF BackupsInv, ProcOK, RestoreOK, Refilling

\* What is put back is not disturbed by a step that changes no store.
LEMMA QuietKeepsRefills ==
  ASSUME BackupsInv, UNCHANGED <<content, restored, blurred>>,
         \A o \in Requests : Refilling(o)' => Refilling(o) /\ proc'[o] = proc[o]
  PROVE  AllRefilled' /\ Backups!ReportedIsRestored'
<1>1. AllRefilled'
  BY DEF BackupsInv, AllRefilled, Refilled
<1>2. Backups!ReportedIsRestored'
  BY DEF BackupsInv, Backups!ReportedIsRestored
<1> QED BY <1>1, <1>2

\* The clock goes on without touching anything.
LEMMA BackupTick == BackupsInv /\ Backups!Tick => BackupsInv'
<1> SUFFICES ASSUME BackupsInv, Backups!Tick PROVE BackupsInv'
  OBVIOUS
<1>1. now' \in Backups!Seconds
  BY KnowledgeAssumption DEF BackupsInv, Shapes, Backups!Tick, Backups!BackupAssumption, Backups!Seconds
<1>2. UNCHANGED <<content, file, manifest, proc, restored, span, shared, tampered, skipped, blurred>>
  BY DEF Backups!Tick, Backups!disk, Backups!history
<1>3. \A p \in Requests : (Backing(p)' => Backing(p)) /\ (Refilling(p)' => Refilling(p))
  BY <1>2 DEF Backing, Refilling
<1>4. Apart /\ AllRefilled' /\ Backups!ReportedIsRestored'
  BY <1>2, <1>3, StillApart, QuietKeepsRefills
<1>5. \A p \in Requests : ProcOK(p)'
  BY <1>2, <1>4, ApartKeepsRuns, RestoreKept
<1>6. Shapes'
  BY <1>1, <1>2 DEF BackupsInv, Shapes, ManifestOK
<1> QED BY <1>2, <1>4, <1>5, <1>6, ApartKeepsFiles DEF BackupsInv

\* The program writes to a store, which every backup under way remembers.
LEMMA BackupWrite ==
  ASSUME BackupsInv, NEW s \in Backups!StoreSet, NEW what \in Backups!Contents(s),
         Backups!Write(s, what)
  PROVE  BackupsInv'
<1>1. /\ Backups!Holds(s, what) /\ restored' = [restored EXCEPT ![s] = None]
      /\ blurred' = blurred \cup Backups!Meeting(s)
      /\ UNCHANGED <<now, file, manifest, proc, shared, tampered, skipped>>
  BY DEF Backups!Write, Backups!disk
<1>2. \A p \in Requests : (Backing(p)' => Backing(p)) /\ (Refilling(p)' => Refilling(p))
  BY <1>1 DEF Backing, Refilling
<1>3. /\ Apart
      /\ DOMAIN content' = Backups!StoreSet /\ content'[s] = what
      /\ \A u \in Backups!StoreSet : u # s => content'[u] = content[u]
      /\ \A u \in Backups!StoreSet : content'[u] \in Backups!Contents(u)
      /\ DOMAIN span' = Requests /\ \A p \in Requests : DOMAIN span'[p] = Backups!StoreSet
  BY <1>1, <1>2, HoldsApart
<1>4. \A p \in Requests : ProcOK(p)'
  BY <1>1, <1>3, ApartKeepsRuns, RestoreKept
<1>5. DOMAIN restored' = Backups!StoreSet /\ restored'[s] = None
      /\ \A u \in Backups!StoreSet : u # s => restored'[u] = restored[u]
  BY <1>1 DEF BackupsInv, Shapes
<1>6. AllRefilled'
  <2> SUFFICES ASSUME NEW p \in Requests, Refilling(p)' PROVE Refilled(p)'
    BY DEF AllRefilled
  <2>1. Refilling(p) /\ proc'[p] = proc[p] /\ Refilled(p) /\ blurred \subseteq blurred'
    BY <1>1, <1>2 DEF BackupsInv, AllRefilled
  <2>2. ASSUME Backups!RestoreOrder[proc[p].at] = s PROVE s \in blurred'
    <3>1. Backups!Putting(p, s)
      BY <2>1, <2>2 DEF Refilling, Backups!Putting, Backups!Doing, Backups!Idle
    <3> QED BY <1>1, <3>1 DEF Backups!Meeting
  <2>3. /\ proc[p].at = 1 /\ "milvus" \notin blurred' => s # "milvus"
        /\ proc[p].at = 3 /\ "redis" \notin blurred' => s # "redis"
    BY <2>2 DEF Backups!RestoreOrder
  <2> QED BY <1>1, <1>2, <1>3, <1>5, <2>1, <2>3, StoreOrder DEF Refilled
<1>7. Backups!ReportedIsRestored'
  <2>1. blurred \subseteq blurred'
    BY <1>1
  <2> QED BY <1>3, <1>5, <2>1 DEF BackupsInv, Backups!ReportedIsRestored
<1>8. Shapes'
  BY <1>1, <1>3, <1>5 DEF BackupsInv, Shapes, ManifestOK
<1> QED BY <1>1, <1>3, <1>4, <1>6, <1>7, <1>8, ApartKeepsFiles DEF BackupsInv

\* A backup begins its span with what the stores hold, and names no file yet.
LEMMA BackupBegin ==
  ASSUME BackupsInv, NEW p \in Requests, NEW single \in BOOLEAN, Backups!Begin(p, single)
  PROVE  BackupsInv'
<1>1. PICK q : q = [op |-> "next", single |-> single, ts |-> now, at |-> 1,
                    files |-> [s \in Backups!StoreSet |-> None], dump |-> None, left |-> {}]
  OBVIOUS
<1>2. /\ proc[p] = None /\ proc' = [proc EXCEPT ![p] = q]
      /\ span' = [span EXCEPT ![p] = [s \in Backups!StoreSet |-> {content[s]}]]
      /\ UNCHANGED <<now, content, file, manifest, restored, shared, tampered, skipped, blurred>>
  BY <1>1 DEF Backups!Begin, Backups!Idle, Backups!disk
<1>3. q \in BackupRun /\ q.op = "next" /\ q.at = 1 /\ \A s \in Backups!StoreSet : q.files[s] = None
  <2>1. PICK names : names = [s \in Backups!StoreSet |-> None]
    OBVIOUS
  <2>2. names \in [Backups!StoreSet -> Backups!Seconds \cup {None}]
        /\ \A s \in Backups!StoreSet : names[s] = None
    BY <2>1
  <2>3. q = [op |-> "next", single |-> single, ts |-> now, at |-> 1, files |-> names,
             dump |-> None, left |-> {}]
    BY <1>1, <2>1
  <2>4. None \in Dumps /\ {} \in Loose /\ now \in Backups!Seconds /\ 1 \in 1 .. 4
    BY DumpKinds DEF BackupsInv, Shapes, Loose
  <2> QED BY <2>2, <2>3, <2>4 DEF BackupRun
<1>4. /\ proc'[p] = q /\ DOMAIN proc' = Requests /\ DOMAIN span' = Requests
      /\ \A s \in Backups!StoreSet : span'[p][s] = {content[s]}
      /\ DOMAIN span'[p] = Backups!StoreSet
      /\ \A o \in Requests \ {p} : proc'[o] = proc[o] /\ span'[o] = span[o]
  BY <1>2 DEF BackupsInv, Shapes
<1>5. ProcOK(p)'
  <2>1. ASSUME NEW s \in Backups!StoreSet
        PROVE  content'[s] \in span'[p][s] /\ span'[p][s] \subseteq Backups!Contents(s) /\ ~(Rank[s] < q.at)
    <3>1. content'[s] = content[s] /\ content[s] \in Backups!Contents(s) /\ span'[p][s] = {content[s]}
      BY <1>2, <1>4 DEF BackupsInv, Shapes
    <3>2. ~(Rank[s] < 1)
      BY StoreOrder
    <3> QED BY <1>3, <3>1, <3>2
  <2> QED BY <1>3, <1>4, <2>1 DEF ProcOK, SpanOK, NamesOK, Refilling, Run
<1>6. ASSUME NEW o \in Requests \ {p} PROVE ProcOK(o)'
  <2>1. ProcOK(o) /\ Missed' = Missed
    BY <1>2 DEF BackupsInv, Missed
  <2> QED BY <1>2, <1>4, <2>1 DEF ProcOK, SpanOK, NamesOK, ReadOK, Backing, Refilling
<1>7. ASSUME Distinct, Filed PROVE Distinct' /\ Filed'
  <2>1. \A o \in Requests : Backing(o)' => o = p \/ Backing(o)
    BY <1>4 DEF Backing
  <2>2. None \notin Backups!Seconds
    BY KnowledgeAssumption DEF Backups!BackupAssumption
  <2>3. \A t \in Backups!Seconds, s \in Backups!StoreSet : manifest[t] # None => manifest[t].files[s] \in Backups!Seconds
    BY DEF BackupsInv, Shapes, ManifestOK, Names
  <2>4. Distinct'
    BY <1>2, <1>3, <1>4, <1>7, <2>1, <2>2, <2>3 DEF Distinct
  <2>5. (\A s \in Backups!StoreSet : ~(Rank[s] < 1)) /\ Missed' = Missed
    BY <1>2, StoreOrder DEF Missed
  <2>6. Filed'
    BY <1>2, <1>3, <1>4, <1>7, <2>1, <2>5 DEF Filed
  <2> QED BY <2>4, <2>6
<1>8. \A o \in Requests : Refilling(o)' => Refilling(o) /\ proc'[o] = proc[o]
  BY <1>3, <1>4 DEF Refilling
<1>9. AllRefilled' /\ Backups!ReportedIsRestored'
  BY <1>2, <1>8, QuietKeepsRefills
<1>10. Shapes'
  BY <1>2, <1>4 DEF BackupsInv, Shapes, ManifestOK
<1> QED BY <1>2, <1>4, <1>5, <1>6, <1>7, <1>9, <1>10 DEF BackupsInv

\* A dump names a file that no other backup names, or two share a second.
LEMMA DumpBegins ==
  ASSUME BackupsInv, NEW p \in Requests, Backups!BeginDump(p)
  PROVE  BackupsInv'
<1>1. PICK s : s = Backups!Stores[proc[p].at]
  OBVIOUS
<1>2. PICK dump, left : dump = (IF s = "mysql" THEN None ELSE {})
                        /\ left = (IF s = "mysql" THEN {} ELSE Backups!Items(s))
  OBVIOUS
<1>3. PICK q : q = [proc[p] EXCEPT !.op = "reading", !.files = [@ EXCEPT ![s] = now],
                                   !.dump = dump, !.left = left]
  OBVIOUS
<1>4. /\ proc[p] # None /\ proc[p].op = "next" /\ proc[p].at <= 3
      /\ proc' = [proc EXCEPT ![p] = q]
      /\ shared' = (shared \/ file[s][now] # None
                     \/ \E o \in Requests : Backups!BackingUp(o) /\ proc[o].files[s] = now)
      /\ UNCHANGED <<now, content, file, manifest, restored, span, tampered, skipped, blurred>>
  BY <1>1, <1>2, <1>3 DEF Backups!BeginDump, Backups!Doing, Backups!Idle, Backups!Name, Backups!disk
<1>5. Backing(p) /\ ProcOK(p) /\ proc[p] \in BackupRun
  BY <1>4 DEF BackupsInv, Backing, ProcOK, Run, BackupRun, RestoreRun, PuttingRun
<1>6. s \in Backups!StoreSet /\ Rank[s] = proc[p].at
  BY <1>1, <1>4, <1>5, StoreOrder DEF BackupRun
<1>7. /\ q \in BackupRun /\ q.op = "reading" /\ q.at = proc[p].at /\ q.dump = dump /\ q.left = left
      /\ q.files[s] = now /\ \A u \in Backups!StoreSet : u # s => q.files[u] = proc[p].files[u]
  <2>1. dump \in Dumps /\ left \in Loose
    BY <1>2, <1>6, DumpKinds DEF Dumps, Loose
  <2>2. now \in Backups!Seconds
    BY DEF BackupsInv, Shapes
  <2>3. PICK names : names = [proc[p].files EXCEPT ![s] = now]
    OBVIOUS
  <2>4. names \in [Backups!StoreSet -> Backups!Seconds \cup {None}] /\ names[s] = now
        /\ \A u \in Backups!StoreSet : u # s => names[u] = proc[p].files[u]
    BY <1>5, <1>6, <2>2, <2>3 DEF BackupRun
  <2>5. q = [proc[p] EXCEPT !.op = "reading", !.files = names, !.dump = dump, !.left = left]
    BY <1>3, <1>5, <2>3 DEF BackupRun
  <2> QED BY <1>5, <2>1, <2>4, <2>5 DEF BackupRun
<1>8. DOMAIN proc' = Requests /\ proc'[p] = q /\ \A o \in Requests \ {p} : proc'[o] = proc[o]
  BY <1>4 DEF BackupsInv, Shapes
<1>9. Missed' = Missed
  BY <1>4 DEF Missed
<1>10. ProcOK(p)'
  <2>1. now \in Backups!Seconds /\ \A u \in Backups!StoreSet : Rank[u] < q.at => u # s
    BY <1>6, <1>7 DEF BackupsInv, Shapes, BackupRun
  <2>2. ASSUME NEW u \in Backups!StoreSet
        PROVE  Rank[u] < q.at => q.files[u] \in Backups!Seconds
    BY <1>5, <1>7, <2>1 DEF ProcOK, NamesOK
  <2>3. HalfRead(s, dump, left, span[p][s], Missed)
    BY <1>2 DEF HalfRead
  <2>4. ReadOK(p)'
    BY <1>1, <1>4, <1>7, <1>8, <1>9, <2>1, <2>3 DEF ReadOK
  <2> QED BY <1>4, <1>5, <1>7, <1>8, <2>2, <2>4 DEF ProcOK, SpanOK, NamesOK, Refilling, Run
<1>11. ASSUME NEW o \in Requests \ {p} PROVE ProcOK(o)'
  <2>1. ProcOK(o)
    BY DEF BackupsInv
  <2> QED BY <1>4, <1>8, <1>9, <2>1 DEF ProcOK, SpanOK, NamesOK, ReadOK, Backing, Refilling
<1>12. ASSUME ~shared', Distinct, Filed PROVE Distinct' /\ Filed'
  <2>1. \A o \in Requests : Backing(o)' => Backing(o)
    BY <1>5, <1>8 DEF Backing
  <2>2. \A o \in Requests : Backing(o) => proc[o].files[s] # now
    BY <1>4, <1>12 DEF Backing, Backups!BackingUp, Backups!Doing, Backups!Idle
  <2>3. ASSUME NEW t \in Backups!Seconds, manifest[t] # None PROVE manifest[t].files[s] # now
    <3>1. file[s][manifest[t].files[s]] \in Backups!Contents(s)
      BY <1>6, <1>12, <2>3 DEF Filed, Kept
    <3> QED BY <1>4, <1>6, <1>12, <3>1, ContentIsNotNone
  <2>4. Distinct'
    <3>1. ASSUME NEW o \in Requests, Backing(o), o # p, NEW u \in Backups!StoreSet
          PROVE  /\ q.files[u] \in Backups!Seconds => q.files[u] # proc[o].files[u]
                 /\ proc[o].files[u] \in Backups!Seconds => proc[o].files[u] # q.files[u]
      <4>1. CASE u = s
        BY <1>7, <2>2, <3>1, <4>1
      <4>2. CASE u # s
        BY <1>5, <1>7, <1>12, <3>1, <4>2 DEF Distinct
      <4> QED BY <4>1, <4>2
    <3>2. ASSUME NEW t \in Backups!Seconds, manifest[t] # None, NEW u \in Backups!StoreSet
          PROVE  manifest[t].files[u] # q.files[u]
      <4>1. CASE u = s
        BY <1>7, <2>3, <3>2, <4>1
      <4>2. CASE u # s
        BY <1>5, <1>7, <1>12, <3>2, <4>2 DEF Distinct
      <4> QED BY <4>1, <4>2
    <3> QED BY <1>4, <1>8, <1>12, <2>1, <3>1, <3>2 DEF Distinct
  <2>5. Filed'
    <3>1. ASSUME NEW u \in Backups!StoreSet, Rank[u] < q.at
          PROVE  Kept(u, file[u][q.files[u]], span[p][u], Missed)
      <4>1. u # s
        BY <1>6, <1>7, <3>1 DEF BackupRun
      <4> QED BY <1>5, <1>7, <1>12, <3>1, <4>1 DEF Filed
    <3> QED BY <1>4, <1>8, <1>9, <1>12, <2>1, <3>1 DEF Filed
  <2> QED BY <2>4, <2>5
<1>13. \A o \in Requests : Refilling(o)' => Refilling(o) /\ proc'[o] = proc[o]
  BY <1>7, <1>8 DEF Refilling
<1>14. AllRefilled' /\ Backups!ReportedIsRestored'
  BY <1>4, <1>13, QuietKeepsRefills
<1>15. shared' \in BOOLEAN /\ (~shared' => ~shared)
  BY <1>4 DEF BackupsInv, Shapes
<1>16. Shapes'
  BY <1>4, <1>8, <1>15 DEF BackupsInv, Shapes, ManifestOK
<1> QED BY <1>4, <1>10, <1>11, <1>12, <1>14, <1>15, <1>16 DEF BackupsInv

\* A dump that reads on has read what it should, and names the same files.
LEMMA ReadingGoesOn ==
  ASSUME BackupsInv, NEW p \in Requests, NEW q \in BackupRun, Backing(p), proc[p].op = "reading",
         proc' = [proc EXCEPT ![p] = q],
         q.op = "reading", q.at = proc[p].at, q.files = proc[p].files,
         HalfRead(Backups!Stores[q.at], q.dump, q.left, span[p][Backups!Stores[q.at]], Missed'),
         skipped => skipped', skipped' \in BOOLEAN,
         UNCHANGED <<now, content, file, manifest, restored, span, shared, tampered, blurred>>
  PROVE  BackupsInv'
<1>1. DOMAIN proc' = Requests /\ proc'[p] = q /\ \A o \in Requests \ {p} : proc'[o] = proc[o]
  BY DEF BackupsInv, Shapes
<1>2. Missed \subseteq Missed'
  BY MissedGrows
<1>3. ProcOK(p) /\ \A o \in Requests : Backing(o)' => Backing(o)
  BY <1>1 DEF BackupsInv, Backing
<1>4. ProcOK(p)'
  BY <1>1, <1>3 DEF ProcOK, SpanOK, NamesOK, ReadOK, Refilling, Run
<1>5. ASSUME NEW o \in Requests \ {p} PROVE ProcOK(o)'
  <2>1. ProcOK(o) /\ proc'[o] = proc[o]
    BY <1>1 DEF BackupsInv
  <2>2. ASSUME Backing(o), proc[o].op = "reading" PROVE ReadOK(o)'
    <3>1. ReadOK(o)
      BY <2>1, <2>2 DEF ProcOK
    <3> QED BY <1>2, <2>1, <3>1, HalfReadOutlasts DEF ReadOK
  <2> QED BY <2>1, <2>2 DEF ProcOK, SpanOK, NamesOK, Backing, Refilling
<1>6. ASSUME Distinct, Filed PROVE Distinct' /\ Filed'
  <2>1. \A o \in Requests : Backing(o)' => Backing(o) /\ proc'[o].files = proc[o].files /\ proc'[o].at = proc[o].at
    BY <1>1, <1>3
  <2>2. Distinct'
    BY <1>6, <2>1 DEF Distinct
  <2>3. ASSUME NEW o \in Requests, NEW s \in Backups!StoreSet, Backing(o)', Rank[s] < proc'[o].at
        PROVE  Kept(s, file[s][proc'[o].files[s]], span[o][s], Missed')
    <3>1. Kept(s, file[s][proc[o].files[s]], span[o][s], Missed)
      BY <1>6, <2>1, <2>3 DEF Filed
    <3> QED BY <1>2, <2>1, <2>3, <3>1, KeptOutlasts
  <2>4. ASSUME NEW t \in Backups!Seconds, NEW s \in Backups!StoreSet, manifest[t] # None
        PROVE  Kept(s, file[s][manifest[t].files[s]], manifest[t].span[s], Missed')
    <3>1. Kept(s, file[s][manifest[t].files[s]], manifest[t].span[s], Missed)
      BY <1>6, <2>4 DEF Filed
    <3> QED BY <1>2, <3>1, KeptOutlasts
  <2>5. Filed'
    BY <2>3, <2>4 DEF Filed
  <2> QED BY <2>2, <2>5
<1>7. \A o \in Requests : Refilling(o)' => Refilling(o) /\ proc'[o] = proc[o]
  BY <1>1 DEF Refilling
<1>8. AllRefilled' /\ Backups!ReportedIsRestored'
  BY <1>7, QuietKeepsRefills
<1>9. Shapes'
  BY <1>1 DEF BackupsInv, Shapes, ManifestOK
<1> QED BY <1>4, <1>5, <1>6, <1>8, <1>9 DEF BackupsInv

\* What is known of a dump under way.
LEMMA ReadingKnown ==
  ASSUME BackupsInv, NEW p \in Requests, Backups!Doing(p, "reading")
  PROVE  /\ proc[p].op = "reading" /\ Backing(p) /\ ProcOK(p) /\ ReadOK(p) /\ SpanOK(p)
         /\ proc[p] \in BackupRun /\ Backups!Stores[proc[p].at] \in Backups!StoreSet
         /\ Rank[Backups!Stores[proc[p].at]] = proc[p].at
<1>1. proc[p] # None /\ proc[p].op = "reading"
  BY DEF Backups!Doing, Backups!Idle
<1>2. Backing(p) /\ ProcOK(p) /\ proc[p] \in BackupRun
  BY <1>1 DEF BackupsInv, Backing, ProcOK, Run, BackupRun, RestoreRun, PuttingRun
<1>3. ReadOK(p) /\ SpanOK(p)
  BY <1>1, <1>2 DEF ProcOK
<1>4. proc[p].at \in 1 .. 3
  BY <1>2, <1>3 DEF ReadOK, BackupRun
<1> QED BY <1>1, <1>2, <1>3, <1>4, StoreOrder

\* The tables are read all at once.
LEMMA TablesRead ==
  ASSUME BackupsInv, NEW p \in Requests, Backups!ReadTables(p)
  PROVE  BackupsInv'
<1>1. PICK q : q = [proc[p] EXCEPT !.dump = content["mysql"]]
  OBVIOUS
<1>2. PICK s : s = Backups!Stores[proc[p].at]
  OBVIOUS
<1>3. /\ Backups!Doing(p, "reading") /\ proc[p].dump = None /\ proc' = [proc EXCEPT ![p] = q]
      /\ UNCHANGED <<now, content, file, manifest, restored, span, shared, tampered, skipped, blurred>>
  BY <1>1 DEF Backups!ReadTables, Backups!disk, Backups!history
<1>4. /\ proc[p].op = "reading" /\ Backing(p) /\ ReadOK(p) /\ SpanOK(p)
      /\ proc[p] \in BackupRun /\ s \in Backups!StoreSet
  BY <1>2, <1>3, ReadingKnown
<1>5. s = "mysql"
  <2>1. ASSUME s # "mysql" PROVE FALSE
    <3>1. proc[p].dump \in Backups!Contents(s)
      BY <1>2, <1>4, <2>1, DumpKinds DEF ReadOK, HalfRead
    <3> QED BY <1>3, <1>4, <3>1, ContentIsNotNone
  <2> QED BY <2>1
<1>6. content["mysql"] \in span[p]["mysql"] /\ content["mysql"] \in Dumps
  BY <1>4, <1>5, DumpKinds DEF SpanOK, BackupsInv, Shapes
<1>7. /\ q \in BackupRun /\ q.op = "reading" /\ q.at = proc[p].at /\ q.files = proc[p].files
      /\ q.dump = content["mysql"] /\ q.left = proc[p].left
  BY <1>1, <1>4, <1>6 DEF BackupRun
<1>8. HalfRead(s, q.dump, q.left, span[p][s], Missed')
  BY <1>2, <1>4, <1>5, <1>6, <1>7 DEF ReadOK, HalfRead
<1>9. skipped' \in BOOLEAN /\ (skipped => skipped')
  BY <1>3 DEF BackupsInv, Shapes
<1>10. HalfRead(Backups!Stores[q.at], q.dump, q.left, span[p][Backups!Stores[q.at]], Missed')
  BY <1>2, <1>7, <1>8
<1> QED BY <1>3, <1>4, <1>7, <1>9, <1>10, ReadingGoesOn

\* An item that was there all the time is met, unless a key is missed.
LEMMA ItemRead ==
  ASSUME BackupsInv, NEW p \in Requests, NEW x \in Keys \cup Vectors, Backups!ReadItem(p, x)
  PROVE  BackupsInv'
<1>1. PICK s : s = Backups!Stores[proc[p].at]
  OBVIOUS
<1>2. PICK left : left = proc[p].left \ {x}
  OBVIOUS
<1>3. PICK dump : /\ proc' = [proc EXCEPT ![p] = [@ EXCEPT !.left = left, !.dump = dump]]
                  /\ \/ dump = proc[p].dump \cup ({x} \cap content[s]) /\ skipped' = skipped
                     \/ dump = proc[p].dump /\ s = "redis" /\ skipped' = TRUE
  <2>1. CASE /\ proc' = [proc EXCEPT ![p].left = @ \ {x}, ![p].dump = @ \cup ({x} \cap content[s])]
             /\ UNCHANGED skipped
    <3>1. PICK more : more = proc[p].dump \cup ({x} \cap content[s])
      OBVIOUS
    <3>2. p \in DOMAIN proc /\ proc[p] \in BackupRun
      BY ReadingKnown DEF BackupsInv, Shapes, Backups!ReadItem
    <3>3. proc' = [proc EXCEPT ![p] = [@ EXCEPT !.left = left, !.dump = more]]
      BY <1>2, <2>1, <3>1, <3>2 DEF BackupRun
    <3> QED BY <2>1, <3>1, <3>3
  <2>2. CASE s = "redis" /\ skipped' = TRUE /\ proc' = [proc EXCEPT ![p].left = @ \ {x}]
    <3>1. [proc[p] EXCEPT !.left = left] = [proc[p] EXCEPT !.left = left, !.dump = proc[p].dump]
      <4>1. proc[p] \in BackupRun
        BY ReadingKnown DEF Backups!ReadItem
      <4> QED BY <4>1 DEF BackupRun
    <3> QED BY <1>2, <2>2, <3>1
  <2> QED BY <1>1, <2>1, <2>2 DEF Backups!ReadItem
<1>4. /\ Backups!Doing(p, "reading") /\ x \in proc[p].left
      /\ UNCHANGED <<now, content, file, manifest, restored, span, shared, tampered, blurred>>
  BY DEF Backups!ReadItem, Backups!disk
<1>5. /\ proc[p].op = "reading" /\ Backing(p) /\ ReadOK(p) /\ SpanOK(p)
      /\ proc[p] \in BackupRun /\ s \in Backups!StoreSet
  BY <1>1, <1>4, ReadingKnown
<1>6. PICK q : q = [proc[p] EXCEPT !.left = left, !.dump = dump]
  OBVIOUS
<1>7. HalfRead(s, proc[p].dump, proc[p].left, span[p][s], Missed) /\ s # "mysql"
  BY <1>1, <1>4, <1>5 DEF ReadOK, HalfRead
<1>8. content[s] \in span[p][s] /\ content[s] \subseteq Backups!Items(s) /\ SUBSET Backups!Items(s) \subseteq Loose
  <2>1. content[s] \in Backups!Contents(s)
    BY <1>5 DEF BackupsInv, Shapes
  <2> QED BY <1>5, <1>7, <2>1, DumpKinds DEF SpanOK
<1>9. dump \subseteq Backups!Items(s) /\ left \subseteq Backups!Items(s)
  BY <1>2, <1>3, <1>7, <1>8 DEF HalfRead
<1>10. /\ q \in BackupRun /\ q.op = "reading" /\ q.at = proc[p].at /\ q.files = proc[p].files
       /\ q.dump = dump /\ q.left = left
  <2>1. dump \in Dumps /\ left \in Loose
    BY <1>8, <1>9 DEF Dumps
  <2> QED BY <1>5, <1>6, <2>1 DEF BackupRun
<1>11. skipped' \in BOOLEAN /\ (skipped => skipped')
  BY <1>3 DEF BackupsInv, Shapes
<1>12. HalfRead(s, dump, left, span[p][s], Missed')
  <2>1. dump \subseteq UNION span[p][s]
    BY <1>3, <1>7, <1>8 DEF HalfRead
  <2>2. Missed \subseteq Missed'
    BY <1>11, MissedGrows
  <2>3. ASSUME NEW y \in Backups!Items(s), \A what \in span[p][s] : y \in what
        PROVE  y \in dump \/ y \in left \/ s \in Missed'
    <3>1. y \in proc[p].dump \/ y \in proc[p].left \/ s \in Missed
      BY <1>7, <2>3 DEF HalfRead
    <3>2. y \in content[s]
      BY <1>8, <2>3
    <3>3. s = "redis" /\ skipped' = TRUE => s \in Missed'
      BY DEF Missed
    <3> QED BY <1>2, <1>3, <2>2, <3>1, <3>2, <3>3
  <2> QED BY <1>7, <1>9, <2>1, <2>3 DEF HalfRead
<1>13. proc' = [proc EXCEPT ![p] = q]
  BY <1>3, <1>6
<1> QED BY <1>1, <1>4, <1>5, <1>10, <1>11, <1>12, <1>13, ReadingGoesOn

\* A dump is saved under its own name, over nobody else's.
LEMMA BackupSave ==
  ASSUME BackupsInv, NEW p \in Requests, Backups!Save(p)
  PROVE  BackupsInv'
<1>1. PICK s : s = Backups!Stores[proc[p].at]
  OBVIOUS
<1>2. PICK name : name = proc[p].files[s]
  OBVIOUS
<1>3. PICK q : q = [proc[p] EXCEPT !.op = "next", !.at = @ + 1, !.dump = None]
  OBVIOUS
<1>4. /\ Backups!Doing(p, "reading") /\ proc[p].left = {} /\ proc[p].dump # None
      /\ file' = [file EXCEPT ![s] = [@ EXCEPT ![name] = proc[p].dump]]
      /\ \/ proc' = [proc EXCEPT ![p] = None] /\ span' = [span EXCEPT ![p] = Backups!NoSpan]
         \/ proc' = [proc EXCEPT ![p] = q] /\ span' = span
      /\ UNCHANGED <<now, content, manifest, restored, shared, tampered, skipped, blurred>>
  BY <1>1, <1>2, <1>3 DEF Backups!Save, Backups!EndBackup
<1>5. /\ proc[p].op = "reading" /\ Backing(p) /\ ProcOK(p) /\ ReadOK(p) /\ SpanOK(p)
      /\ proc[p] \in BackupRun /\ s \in Backups!StoreSet /\ Rank[s] = proc[p].at
  BY <1>1, <1>4, ReadingKnown
<1>6. name \in Backups!Seconds /\ proc[p].at \in 1 .. 3
  BY <1>1, <1>2, <1>5 DEF ReadOK, BackupRun
<1>7. Kept(s, proc[p].dump, span[p][s], Missed)
  <2>1. HalfRead(s, proc[p].dump, {}, span[p][s], Missed) /\ span[p][s] \subseteq Backups!Contents(s)
    BY <1>1, <1>4, <1>5 DEF ReadOK, SpanOK
  <2>2. CASE s = "mysql"
    BY <1>4, <2>1, <2>2 DEF HalfRead, Kept
  <2>3. CASE s # "mysql"
    BY <1>5, <2>1, <2>3, DumpKinds DEF HalfRead, Kept
  <2> QED BY <2>2, <2>3
<1>8. q \in BackupRun /\ q.op = "next" /\ q.at = proc[p].at + 1 /\ q.files = proc[p].files
  <2>1. None \in Dumps /\ proc[p].at + 1 \in 1 .. 4
    BY <1>6, DumpKinds
  <2> QED BY <1>3, <1>5, <2>1 DEF BackupRun
<1>9. /\ DOMAIN proc' = Requests /\ proc'[p] \in {None, q}
      /\ \A o \in Requests \ {p} : proc'[o] = proc[o] /\ span'[o] = span[o]
      /\ proc'[p] # None => span'[p] = span[p]
      /\ DOMAIN span' = Requests /\ \A o \in Requests : DOMAIN span'[o] = Backups!StoreSet
  <2>1. CASE proc' = [proc EXCEPT ![p] = None] /\ span' = [span EXCEPT ![p] = Backups!NoSpan]
    BY <2>1 DEF BackupsInv, Shapes, Backups!NoSpan
  <2>2. CASE proc' = [proc EXCEPT ![p] = q] /\ span' = span
    BY <2>2 DEF BackupsInv, Shapes
  <2> QED BY <1>4, <2>1, <2>2
<1>10. /\ DOMAIN file' = Backups!StoreSet
       /\ \A u \in Backups!StoreSet : file'[u] \in [Backups!Seconds -> Backups!Contents(u) \cup {None}]
       /\ file'[s][name] = proc[p].dump
       /\ \A u \in Backups!StoreSet, t \in Backups!Seconds : u # s \/ t # name => file'[u][t] = file[u][t]
  <2>1. file[s] \in [Backups!Seconds -> Backups!Contents(s) \cup {None}] /\ proc[p].dump \in Backups!Contents(s)
    BY <1>5, <1>7 DEF BackupsInv, Shapes, Kept
  <2>2. PICK f : f = [file[s] EXCEPT ![name] = proc[p].dump]
    OBVIOUS
  <2>3. f \in [Backups!Seconds -> Backups!Contents(s) \cup {None}] /\ f[name] = proc[p].dump
        /\ \A t \in Backups!Seconds : t # name => f[t] = file[s][t]
    BY <1>6, <2>1, <2>2
  <2>4. DOMAIN file' = Backups!StoreSet /\ file'[s] = f
        /\ \A u \in Backups!StoreSet : u # s => file'[u] = file[u]
    BY <1>4, <1>5, <2>2 DEF BackupsInv, Shapes
  <2> QED BY <2>3, <2>4 DEF BackupsInv, Shapes
<1>11. \A u \in Backups!StoreSet : Rank[u] < q.at => u = s \/ Rank[u] < proc[p].at
  <2>1. ASSUME NEW u \in Backups!StoreSet, u # s PROVE Rank[u] # Rank[s]
    BY <1>5, <2>1, StoreOrder
  <2> QED BY <1>5, <1>6, <1>8, <2>1, StoreOrder
<1>12. Missed' = Missed
  BY <1>4 DEF Missed
<1>13. ProcOK(p)'
  <2>1. CASE proc'[p] = None
    BY <2>1 DEF ProcOK, Backing, Refilling
  <2>2. CASE proc'[p] = q /\ q # None
    <3>1. ASSUME NEW u \in Backups!StoreSet, Rank[u] < q.at PROVE q.files[u] \in Backups!Seconds
      BY <1>2, <1>5, <1>6, <1>8, <1>11, <3>1 DEF ProcOK, NamesOK
    <3> QED BY <1>4, <1>5, <1>8, <1>9, <2>2, <3>1 DEF ProcOK, SpanOK, NamesOK, Refilling, Run
  <2> QED BY <1>9, <2>1, <2>2
<1>14. ASSUME NEW o \in Requests \ {p} PROVE ProcOK(o)'
  <2>1. ProcOK(o)
    BY DEF BackupsInv
  <2> QED BY <1>4, <1>9, <1>12, <2>1 DEF ProcOK, SpanOK, NamesOK, ReadOK, Backing, Refilling
<1>15. ASSUME Distinct, Filed PROVE Distinct' /\ Filed'
  <2>1. \A o \in Requests : Backing(o)' => Backing(o) /\ proc'[o].files = proc[o].files /\ span'[o] = span[o]
    BY <1>5, <1>8, <1>9 DEF Backing
  <2>2. Distinct'
    BY <1>4, <1>15, <2>1 DEF Distinct
  <2>3. ASSUME NEW o \in Requests, NEW u \in Backups!StoreSet, Backing(o)', Rank[u] < proc'[o].at
        PROVE  Kept(u, file'[u][proc'[o].files[u]], span'[o][u], Missed)
    <3>1. CASE o = p /\ u = s
      BY <1>2, <1>7, <1>10, <2>1, <2>3, <3>1
    <3>2. CASE o # p \/ u # s
      <4>1. Backing(o) /\ proc'[o].files = proc[o].files /\ Rank[u] < proc[o].at
        <5>1. o = p => proc'[o] = q
          BY <1>9, <2>3 DEF Backing
        <5> QED BY <1>9, <1>11, <2>1, <2>3, <3>2, <5>1
      <4>2. Kept(u, file[u][proc[o].files[u]], span[o][u], Missed) /\ proc[o].files[u] \in Backups!Seconds
        BY <1>15, <4>1 DEF Filed, BackupsInv, ProcOK, NamesOK
      <4>3. u # s \/ proc[o].files[u] # name
        BY <1>2, <1>5, <1>6, <1>15, <3>2, <4>1, <4>2 DEF Distinct
      <4>4. file'[u][proc[o].files[u]] = file[u][proc[o].files[u]]
        BY <1>10, <4>2, <4>3
      <4> QED BY <2>1, <2>3, <4>1, <4>2, <4>4
    <3> QED BY <3>1, <3>2
  <2>4. ASSUME NEW t \in Backups!Seconds, NEW u \in Backups!StoreSet, manifest[t] # None
        PROVE  Kept(u, file'[u][manifest[t].files[u]], manifest[t].span[u], Missed)
    <3>1. /\ manifest[t].files[u] \in Backups!Seconds
          /\ Kept(u, file[u][manifest[t].files[u]], manifest[t].span[u], Missed)
      BY <1>15, <2>4 DEF Filed, BackupsInv, Shapes, ManifestOK, Names
    <3>2. u # s \/ manifest[t].files[u] # name
      BY <1>2, <1>5, <1>15, <2>4 DEF Distinct
    <3>3. file'[u][manifest[t].files[u]] = file[u][manifest[t].files[u]]
      BY <1>10, <3>1, <3>2
    <3> QED BY <3>1, <3>3
  <2>5. Filed'
    BY <1>4, <1>12, <2>3, <2>4 DEF Filed
  <2> QED BY <2>2, <2>5
<1>16. \A o \in Requests : Refilling(o)' => Refilling(o) /\ proc'[o] = proc[o]
  BY <1>8, <1>9 DEF Refilling
<1>17. AllRefilled' /\ Backups!ReportedIsRestored'
  BY <1>4, <1>16, QuietKeepsRefills
<1>18. Shapes'
  BY <1>4, <1>9, <1>10 DEF BackupsInv, Shapes, ManifestOK
<1> QED BY <1>4, <1>13, <1>14, <1>15, <1>17, <1>18 DEF BackupsInv

\* A backup that ends leaves the others alone.
LEMMA BackupLeaves ==
  ASSUME BackupsInv, NEW p \in Requests, Backing(p), Backups!EndBackup(p),
         UNCHANGED <<content, restored, skipped, blurred>>
  PROVE  /\ DOMAIN proc' = Requests /\ DOMAIN span' = Requests
         /\ \A o \in Requests : DOMAIN span'[o] = Backups!StoreSet
         /\ \A o \in Requests : Backing(o)' => o # p /\ Backing(o) /\ proc'[o] = proc[o] /\ span'[o] = span[o]
         /\ Apart /\ \A o \in Requests : ProcOK(o)'
         /\ AllRefilled' /\ Backups!ReportedIsRestored'
<1>1. proc' = [proc EXCEPT ![p] = None] /\ span' = [span EXCEPT ![p] = Backups!NoSpan]
  BY DEF Backups!EndBackup
<1>2. /\ DOMAIN proc' = Requests /\ proc'[p] = None
      /\ \A o \in Requests \ {p} : proc'[o] = proc[o] /\ span'[o] = span[o]
      /\ DOMAIN span' = Requests /\ \A o \in Requests : DOMAIN span'[o] = Backups!StoreSet
  BY <1>1 DEF BackupsInv, Shapes, Backups!NoSpan
<1>3. \A o \in Requests : Backing(o)' => o # p /\ Backing(o) /\ proc'[o] = proc[o] /\ span'[o] = span[o]
  BY <1>2 DEF Backing
<1>4. \A o \in Requests : Refilling(o)' => Refilling(o) /\ proc'[o] = proc[o]
  BY <1>2 DEF Refilling
<1>5. Apart /\ AllRefilled' /\ Backups!ReportedIsRestored'
  BY <1>3, <1>4, StillApart, QuietKeepsRefills
<1>6. ASSUME NEW o \in Requests PROVE ProcOK(o)'
  <2>1. RestoreOK(o)'
    BY <1>2, RestoreKept DEF RestoreOK, Refilling
  <2> QED BY <1>5, <2>1, ApartKeepsRuns
<1> QED BY <1>2, <1>3, <1>5, <1>6

\* A manifest takes over the names and the span of its backup.
LEMMA BackupConclude ==
  ASSUME BackupsInv, NEW p \in Requests, Backups!Conclude(p)
  PROVE  BackupsInv'
<1>1. PICK t : t = proc[p].ts
  OBVIOUS
<1>2. PICK m : m = [files |-> proc[p].files, span |-> span[p]]
  OBVIOUS
<1>3. /\ proc[p] # None /\ proc[p].op = "next" /\ proc[p].at = 4
      /\ manifest' = [manifest EXCEPT ![t] = m]
      /\ shared' = (shared \/ manifest[t] # None) /\ Backups!EndBackup(p)
      /\ UNCHANGED <<now, content, file, restored, tampered, skipped, blurred>>
  BY <1>1, <1>2 DEF Backups!Conclude, Backups!Doing, Backups!Idle
<1>4. Backing(p) /\ ProcOK(p) /\ proc[p] \in BackupRun
  BY <1>3 DEF BackupsInv, Backing, ProcOK, Run, BackupRun, RestoreRun, PuttingRun
<1>5. \A s \in Backups!StoreSet : Rank[s] < proc[p].at /\ proc[p].files[s] \in Backups!Seconds
  <2>1. \A s \in Backups!StoreSet : Rank[s] < proc[p].at
    BY <1>3, StoreOrder
  <2> QED BY <1>4, <2>1 DEF ProcOK, NamesOK
<1>6. /\ m.files \in Names /\ m.files = proc[p].files /\ m.span = span[p] /\ t \in Backups!Seconds
  <2>1. DOMAIN proc[p].files = Backups!StoreSet /\ proc[p].files = [s \in Backups!StoreSet |-> proc[p].files[s]]
    BY <1>4 DEF BackupRun
  <2> QED BY <1>1, <1>2, <1>4, <1>5, <2>1 DEF BackupRun, Names
<1>7. /\ DOMAIN manifest' = Backups!Seconds /\ manifest'[t] = m
      /\ \A u \in Backups!Seconds \ {t} : manifest'[u] = manifest[u]
  BY <1>3, <1>6 DEF BackupsInv, Shapes
<1>8. /\ DOMAIN proc' = Requests /\ DOMAIN span' = Requests
      /\ \A o \in Requests : DOMAIN span'[o] = Backups!StoreSet
      /\ \A o \in Requests : Backing(o)' => o # p /\ Backing(o) /\ proc'[o] = proc[o] /\ span'[o] = span[o]
      /\ \A o \in Requests : ProcOK(o)'
      /\ AllRefilled' /\ Backups!ReportedIsRestored'
  BY <1>3, <1>4, BackupLeaves
<1>9. \A u \in Backups!Seconds : ManifestOK(u)'
  BY <1>6, <1>7 DEF BackupsInv, Shapes, ManifestOK
<1>10. ASSUME ~shared', Distinct, Filed PROVE Distinct' /\ Filed'
  <2>1. ASSUME NEW o \in Requests, Backing(o), o # p, NEW s \in Backups!StoreSet
        PROVE  m.files[s] # proc[o].files[s]
    BY <1>4, <1>5, <1>6, <1>10, <2>1 DEF Distinct
  <2>2. ASSUME NEW u \in Backups!Seconds, manifest[u] # None, NEW s \in Backups!StoreSet
        PROVE  m.files[s] # manifest[u].files[s]
    BY <1>4, <1>6, <1>10, <2>2 DEF Distinct
  <2>3. Distinct'
    BY <1>7, <1>8, <1>10, <2>1, <2>2 DEF Distinct
  <2>4. \A s \in Backups!StoreSet : Kept(s, file[s][m.files[s]], m.span[s], Missed)
    BY <1>4, <1>5, <1>6, <1>10 DEF Filed
  <2>5. Missed' = Missed
    BY <1>3 DEF Missed
  <2>6. Filed'
    BY <1>3, <1>7, <1>8, <1>10, <2>4, <2>5 DEF Filed
  <2> QED BY <2>3, <2>6
<1>11. shared' \in BOOLEAN /\ (~shared' => ~shared)
  BY <1>3 DEF BackupsInv, Shapes
<1>12. Shapes'
  BY <1>3, <1>7, <1>8, <1>9, <1>11 DEF BackupsInv, Shapes
<1> QED BY <1>3, <1>8, <1>10, <1>11, <1>12 DEF BackupsInv

\* A backup that fails gives its names up.
LEMMA BackupBreaks ==
  ASSUME BackupsInv, NEW p \in Requests, Backups!BackupFails(p)
  PROVE  BackupsInv'
<1>1. /\ Backing(p) /\ Backups!EndBackup(p)
      /\ UNCHANGED <<now, content, file, manifest, restored, shared, tampered, skipped, blurred>>
  BY DEF Backups!BackupFails, Backups!disk, Backups!BackingUp, Backups!Doing, Backups!Idle, Backing
<1>2. /\ DOMAIN proc' = Requests /\ DOMAIN span' = Requests
      /\ \A o \in Requests : DOMAIN span'[o] = Backups!StoreSet
      /\ Apart /\ \A o \in Requests : ProcOK(o)'
      /\ AllRefilled' /\ Backups!ReportedIsRestored'
  BY <1>1, BackupLeaves
<1>3. Shapes'
  BY <1>1, <1>2 DEF BackupsInv, Shapes, ManifestOK
<1> QED BY <1>1, <1>2, <1>3, ApartKeepsFiles DEF BackupsInv

\* A step of a restore that changes no store: it reads what is saved, or goes on.
LEMMA RestoreTurns ==
  ASSUME BackupsInv, NEW p \in Requests, NEW q, proc' = [proc EXCEPT ![p] = q],
         q = None \/ q \in RestoreRun,
         UNCHANGED <<now, content, file, manifest, restored, span, shared, tampered, skipped, blurred>>
  PROVE  BackupsInv'
<1>1. DOMAIN proc' = Requests /\ proc'[p] = q /\ \A o \in Requests \ {p} : proc'[o] = proc[o]
  BY DEF BackupsInv, Shapes
<1>2. q # None => q.op = "restore"
  BY DEF RestoreRun
<1>3. \A o \in Requests : /\ Backing(o)' => Backing(o) /\ proc'[o] = proc[o]
                          /\ Refilling(o)' => Refilling(o) /\ proc'[o] = proc[o]
  BY <1>1, <1>2 DEF Backing, Refilling
<1>4. Apart /\ AllRefilled' /\ Backups!ReportedIsRestored'
  BY <1>3, StillApart, QuietKeepsRefills
<1>5. ASSUME NEW o \in Requests PROVE ProcOK(o)'
  <2>1. RestoreOK(p)'
    BY <1>1, <1>2 DEF RestoreOK, Refilling, Run
  <2>2. RestoreOK(o)'
    BY <1>1, <2>1, RestoreKept
  <2> QED BY <1>4, <2>2, ApartKeepsRuns
<1>6. Shapes'
  BY <1>1 DEF BackupsInv, Shapes, ManifestOK
<1> QED BY <1>4, <1>5, <1>6, ApartKeepsFiles DEF BackupsInv

\* A restore takes the names of a listed backup.
LEMMA RestoreBegins ==
  ASSUME BackupsInv, NEW p \in Requests, NEW t \in Backups!Seconds, Backups!BeginRestore(p, t)
  PROVE  BackupsInv'
<1>1. PICK q : q = [op |-> "restore", files |-> manifest[t].files, at |-> 1]
  OBVIOUS
<1>2. /\ manifest[t] # None /\ proc' = [proc EXCEPT ![p] = q]
      /\ UNCHANGED <<now, content, file, manifest, restored, span, shared, tampered, skipped, blurred>>
  BY <1>1 DEF Backups!BeginRestore, Backups!disk, Backups!history
<1>3. q \in RestoreRun
  BY <1>1, <1>2 DEF BackupsInv, Shapes, ManifestOK, RestoreRun
<1> QED BY <1>2, <1>3, RestoreTurns

\* A restore that goes on to its next store, or ends.
LEMMA OnwardIsQuiet ==
  ASSUME BackupsInv, NEW p \in Requests, proc[p] # None, proc[p].op \in {"restore", "putting"},
         Backups!Onward(p)
  PROVE  \E q : proc' = [proc EXCEPT ![p] = q] /\ (q = None \/ q \in RestoreRun)
<1>1. PICK q : q = IF proc[p].at = 3 THEN None
                   ELSE [op |-> "restore", files |-> proc[p].files, at |-> proc[p].at + 1]
  OBVIOUS
<1>2. proc' = [proc EXCEPT ![p] = q]
  BY <1>1 DEF Backups!Onward
<1>3. proc[p] \in RestoreRun \cup PuttingRun
  BY DEF BackupsInv, ProcOK, Run, BackupRun, RestoreRun, PuttingRun
<1>4. proc[p].files \in Names /\ (proc[p].at # 3 => proc[p].at + 1 \in 1 .. 3)
  BY <1>3 DEF RestoreRun, PuttingRun
<1>5. q = None \/ q \in RestoreRun
  BY <1>1, <1>4 DEF RestoreRun
<1> QED BY <1>2, <1>5

\* A store that fails is passed over.
LEMMA RestoreBreaks ==
  ASSUME BackupsInv, NEW p \in Requests, Backups!RestoreFails(p)
  PROVE  BackupsInv'
<1>1. /\ proc[p] # None /\ proc[p].op \in {"restore", "putting"} /\ Backups!Onward(p)
      /\ UNCHANGED <<now, content, file, manifest, restored, span, shared, tampered, skipped, blurred>>
  BY DEF Backups!RestoreFails, Backups!Doing, Backups!Idle, Backups!disk, Backups!history
<1>2. PICK q : proc' = [proc EXCEPT ![p] = q] /\ (q = None \/ q \in RestoreRun)
  BY <1>1, OnwardIsQuiet
<1> QED BY <1>1, <1>2, RestoreTurns

\* What a restore reads from a file that is there.
LEMMA SavedKind ==
  ASSUME BackupsInv, NEW p \in Requests, NEW s \in Backups!StoreSet,
         Backups!Restoring(p, s), Backups!Saved(p, s) # None
  PROVE  /\ Backups!Saved(p, s) \in Backups!Contents(s)
         /\ proc[p] # None /\ proc[p].op = "restore" /\ proc[p] \in RestoreRun
         /\ Backups!RestoreOrder[proc[p].at] = s
<1>1. proc[p] # None /\ proc[p].op = "restore" /\ Backups!RestoreOrder[proc[p].at] = s
  BY DEF Backups!Restoring, Backups!Doing, Backups!Idle
<1>2. proc[p] \in RestoreRun
  BY <1>1 DEF BackupsInv, ProcOK, Run, BackupRun, RestoreRun, PuttingRun
<1>3. proc[p].files[s] \in Backups!Seconds
  BY <1>2 DEF RestoreRun, Names
<1> QED BY <1>1, <1>2, <1>3 DEF BackupsInv, Shapes, Backups!Saved

\* A restore that begins to put items back has all of them before it.
LEMMA PutBackKind ==
  ASSUME BackupsInv, NEW p \in Requests, NEW s \in {"milvus", "redis"},
         Backups!Restoring(p, s), Backups!Saved(p, s) # None, Backups!PutBack(p, s)
  PROVE  \E q \in PuttingRun :
           /\ proc' = [proc EXCEPT ![p] = q]
           /\ DOMAIN proc' = Requests /\ proc'[p] = q /\ \A o \in Requests \ {p} : proc'[o] = proc[o]
           /\ q.dump = Backups!Saved(p, s) /\ q.left = q.dump /\ q.at = IF s = "milvus" THEN 1 ELSE 3
           /\ RestoreOK(p)'
           /\ \A o \in Requests : Backing(o)' => Backing(o) /\ proc'[o] = proc[o]
<1>1. PICK q : q = [op |-> "putting", files |-> proc[p].files, at |-> proc[p].at,
                    dump |-> Backups!Saved(p, s), left |-> Backups!Saved(p, s)]
  OBVIOUS
<1>2. s \in Backups!StoreSet /\ s # "mysql"
  BY StoreOrder
<1>3. /\ Backups!Saved(p, s) \subseteq Backups!Items(s) /\ Backups!Saved(p, s) \in Loose
      /\ proc[p] # None /\ proc[p] \in RestoreRun /\ Backups!RestoreOrder[proc[p].at] = s
  BY <1>2, SavedKind, DumpKinds
<1>4. proc[p].at = IF s = "milvus" THEN 1 ELSE 3
  BY <1>3 DEF RestoreRun, Backups!RestoreOrder
<1>5. q \in PuttingRun /\ q.op = "putting"
  BY <1>1, <1>3, <1>4 DEF RestoreRun, PuttingRun
<1>6. proc' = [proc EXCEPT ![p] = q]
  BY <1>1 DEF Backups!PutBack
<1>7. DOMAIN proc' = Requests /\ proc'[p] = q /\ \A o \in Requests \ {p} : proc'[o] = proc[o]
  BY <1>6 DEF BackupsInv, Shapes
<1>8. RestoreOK(p)'
  BY <1>1, <1>3, <1>5, <1>7 DEF RestoreOK, Run
<1>9. \A o \in Requests : Backing(o)' => Backing(o) /\ proc'[o] = proc[o]
  BY <1>5, <1>7 DEF Backing
<1> QED BY <1>1, <1>4, <1>5, <1>6, <1>7, <1>8, <1>9

\* Milvus is empty after the drop, or the error is remembered.
LEMMA VectorsDropped ==
  ASSUME BackupsInv, NEW p \in Requests, Backups!DropVectors(p)
  PROVE  BackupsInv'
<1>1. PICK rest \in SUBSET content["milvus"] :
        /\ Backups!Holds("milvus", rest)
        /\ \/ rest = {} /\ blurred' = blurred \cup Backups!Meeting("milvus")
           \/ blurred' = blurred \cup {"milvus"}
  BY DEF Backups!DropVectors
<1>2. /\ Backups!Restoring(p, "milvus") /\ Backups!Saved(p, "milvus") # None
      /\ Backups!PutBack(p, "milvus") /\ restored' = [restored EXCEPT !["milvus"] = None]
      /\ UNCHANGED <<now, file, manifest, shared, tampered, skipped>>
  BY DEF Backups!DropVectors, Backups!disk
<1>3. PICK q \in PuttingRun :
        /\ DOMAIN proc' = Requests /\ proc'[p] = q /\ \A o \in Requests \ {p} : proc'[o] = proc[o]
        /\ q.left = q.dump /\ q.at = 1
        /\ RestoreOK(p)'
        /\ \A o \in Requests : Backing(o)' => Backing(o) /\ proc'[o] = proc[o]
  BY <1>2, PutBackKind
<1>4. "milvus" \in Backups!StoreSet /\ rest \in Backups!Contents("milvus")
  <2>1. "milvus" \in Backups!StoreSet /\ content["milvus"] \in SUBSET Backups!Items("milvus")
    BY StoreOrder, DumpKinds DEF BackupsInv, Shapes
  <2> QED BY <2>1, DumpKinds
<1>5. /\ Apart
      /\ DOMAIN content' = Backups!StoreSet /\ content'["milvus"] = rest
      /\ \A u \in Backups!StoreSet : u # "milvus" => content'[u] = content[u]
      /\ \A u \in Backups!StoreSet : content'[u] \in Backups!Contents(u)
      /\ DOMAIN span' = Requests /\ \A o \in Requests : DOMAIN span'[o] = Backups!StoreSet
  BY <1>1, <1>2, <1>3, <1>4, HoldsApart
<1>6. \A o \in Requests : ProcOK(o)'
  BY <1>3, <1>5, ApartKeepsRuns, RestoreKept
<1>7. /\ DOMAIN restored' = Backups!StoreSet /\ restored'["milvus"] = None
      /\ \A u \in Backups!StoreSet : u # "milvus" => restored'[u] = restored[u]
  BY <1>2, <1>4 DEF BackupsInv, Shapes
<1>8. blurred \subseteq blurred'
  BY <1>1
<1>9. ASSUME "milvus" \notin blurred'
      PROVE  rest = {} /\ \A o \in Requests : ~(Refilling(o) /\ proc[o].at = 1)
  <2>1. rest = {} /\ "milvus" \notin Backups!Meeting("milvus")
    BY <1>1, <1>9
  <2>2. \A o \in Requests : ~Backups!Putting(o, "milvus")
    BY <2>1 DEF Backups!Meeting
  <2> QED
    BY <2>1, <2>2 DEF Refilling, Backups!Putting, Backups!Doing, Backups!Idle, Backups!RestoreOrder
<1>10. AllRefilled'
  <2> SUFFICES ASSUME NEW o \in Requests, Refilling(o)' PROVE Refilled(o)'
    BY DEF AllRefilled
  <2>1. CASE o = p
    <3>1. ASSUME "milvus" \notin blurred'
          PROVE  /\ content'["milvus"] = q.dump \ q.left /\ restored'["milvus"] = None
                 /\ \A r \in Requests : Refilling(r)' /\ proc'[r].at = 1 => r = p
      <4>1. \A r \in Requests \ {p} : Refilling(r)' => Refilling(r) /\ proc'[r] = proc[r]
        BY <1>3 DEF Refilling
      <4> QED BY <1>3, <1>5, <1>7, <1>9, <3>1, <4>1
    <3> QED BY <1>3, <2>1, <3>1 DEF Refilled
  <2>2. CASE o # p
    <3>1. Refilling(o) /\ proc'[o] = proc[o] /\ Refilled(o)
      BY <1>3, <2>2 DEF Refilling, BackupsInv, AllRefilled
    <3> QED BY <1>5, <1>7, <1>8, <1>9, <3>1, StoreOrder DEF Refilled
  <2> QED BY <2>1, <2>2
<1>11. Backups!ReportedIsRestored'
  BY <1>5, <1>7, <1>8 DEF BackupsInv, Backups!ReportedIsRestored
<1>12. Shapes'
  BY <1>2, <1>3, <1>5, <1>7 DEF BackupsInv, Shapes, ManifestOK
<1> QED BY <1>2, <1>5, <1>6, <1>10, <1>11, <1>12, ApartKeepsFiles DEF BackupsInv

\* Of the keys none is put back yet.
LEMMA KeysBegun ==
  ASSUME BackupsInv, NEW p \in Requests, Backups!BeginKeys(p)
  PROVE  BackupsInv'
<1>1. /\ Backups!Restoring(p, "redis") /\ Backups!Saved(p, "redis") # None /\ Backups!PutBack(p, "redis")
      /\ UNCHANGED <<now, content, file, manifest, restored, span, shared, tampered, skipped, blurred>>
  BY DEF Backups!BeginKeys, Backups!disk, Backups!history
<1>2. PICK q \in PuttingRun :
        /\ DOMAIN proc' = Requests /\ proc'[p] = q /\ \A o \in Requests \ {p} : proc'[o] = proc[o]
        /\ q.left = q.dump /\ q.at = 3
        /\ RestoreOK(p)'
        /\ \A o \in Requests : Backing(o)' => Backing(o) /\ proc'[o] = proc[o]
  BY <1>1, PutBackKind
<1>3. Apart
  BY <1>1, <1>2, StillApart
<1>4. \A o \in Requests : ProcOK(o)'
  BY <1>2, <1>3, ApartKeepsRuns, RestoreKept
<1>5. AllRefilled'
  <2> SUFFICES ASSUME NEW o \in Requests, Refilling(o)' PROVE Refilled(o)'
    BY DEF AllRefilled
  <2>1. CASE o = p
    BY <1>2, <2>1 DEF Refilled
  <2>2. CASE o # p
    <3>1. Refilling(o) /\ proc'[o] = proc[o] /\ Refilled(o)
      BY <1>2, <2>2 DEF Refilling, BackupsInv, AllRefilled
    <3>2. \A r \in Requests : Refilling(r)' /\ proc'[r].at = 1 => Refilling(r) /\ proc[r].at = 1
      BY <1>2 DEF Refilling
    <3> QED BY <1>1, <3>1, <3>2 DEF Refilled
  <2> QED BY <2>1, <2>2
<1>6. Backups!ReportedIsRestored'
  BY <1>1 DEF BackupsInv, Backups!ReportedIsRestored
<1>7. Shapes'
  BY <1>1, <1>2 DEF BackupsInv, Shapes, ManifestOK
<1> QED BY <1>1, <1>3, <1>4, <1>5, <1>6, <1>7, ApartKeepsFiles DEF BackupsInv

\* A restore that puts items back is of its kind.
LEMMA PuttingKnown ==
  ASSUME BackupsInv, NEW p \in Requests, Backups!Doing(p, "putting")
  PROVE  /\ proc[p] # None /\ proc[p].op = "putting" /\ Refilling(p) /\ Refilled(p)
         /\ proc[p] \in PuttingRun /\ proc[p].left \subseteq proc[p].dump
         /\ \E s \in {"milvus", "redis"} :
              /\ s = Backups!RestoreOrder[proc[p].at] /\ s \in Backups!StoreSet
              /\ proc[p].at = (IF s = "milvus" THEN 1 ELSE 3)
              /\ proc[p].dump \subseteq Backups!Items(s)
<1>1. proc[p] # None /\ proc[p].op = "putting" /\ Refilling(p)
  BY DEF Backups!Doing, Backups!Idle, Refilling
<1>2. proc[p] \in PuttingRun
  BY <1>1 DEF BackupsInv, ProcOK, Run, BackupRun, RestoreRun, PuttingRun
<1>3. /\ proc[p].left \subseteq proc[p].dump /\ Refilled(p)
      /\ proc[p].dump \subseteq Backups!Items(Backups!RestoreOrder[proc[p].at])
  BY <1>1 DEF BackupsInv, ProcOK, AllRefilled
<1>4. \/ proc[p].at = 1 /\ Backups!RestoreOrder[proc[p].at] = "milvus"
      \/ proc[p].at = 3 /\ Backups!RestoreOrder[proc[p].at] = "redis"
  BY <1>2 DEF PuttingRun, Backups!RestoreOrder
<1> QED BY <1>1, <1>2, <1>3, <1>4, StoreOrder

\* One more item is back, or the error with a key is remembered.
LEMMA ItemPut ==
  ASSUME BackupsInv, NEW p \in Requests, NEW x \in Keys \cup Vectors, Backups!PutItem(p, x)
  PROVE  BackupsInv'
<1>1. PICK s \in {"milvus", "redis"} :
        /\ s = Backups!RestoreOrder[proc[p].at] /\ s \in Backups!StoreSet
        /\ proc[p].at = (IF s = "milvus" THEN 1 ELSE 3)
        /\ proc[p].dump \subseteq Backups!Items(s)
  BY PuttingKnown DEF Backups!PutItem
<1>2. PICK q : q = [proc[p] EXCEPT !.left = @ \ {x}]
  OBVIOUS
<1>3. /\ Backups!Doing(p, "putting") /\ x \in proc[p].left /\ proc' = [proc EXCEPT ![p] = q]
      /\ \/ Backups!Holds(s, content[s] \cup {x}) /\ blurred' = blurred
         \/ s = "redis" /\ blurred' = blurred \cup {s} /\ content' = content /\ span' = span
      /\ UNCHANGED <<now, file, manifest, restored, shared, tampered, skipped>>
  BY <1>1, <1>2 DEF Backups!PutItem, Backups!disk
<1>4. /\ proc[p] # None /\ proc[p].op = "putting" /\ Refilling(p) /\ Refilled(p)
      /\ proc[p] \in PuttingRun /\ proc[p].left \subseteq proc[p].dump
  BY <1>3, PuttingKnown
<1>5. /\ q \in PuttingRun /\ q.op = "putting" /\ q.at = proc[p].at /\ q.dump = proc[p].dump
      /\ q.left = proc[p].left \ {x}
  BY <1>2, <1>4 DEF PuttingRun, Loose
<1>6. DOMAIN proc' = Requests /\ proc'[p] = q /\ \A o \in Requests \ {p} : proc'[o] = proc[o]
  BY <1>3 DEF BackupsInv, Shapes
<1>7. /\ \A o \in Requests : Backing(o)' => Backing(o) /\ proc'[o] = proc[o]
      /\ \A o \in Requests : Refilling(o)' => Refilling(o) /\ proc'[o].at = proc[o].at
  BY <1>4, <1>5, <1>6 DEF Backing, Refilling
<1>8. /\ x \in Backups!Items(s) /\ content[s] \cup {x} \in Backups!Contents(s)
  <2>1. x \in Backups!Items(s)
    BY <1>1, <1>3, <1>4
  <2>2. s # "mysql" /\ content[s] \in Backups!Contents(s)
    BY <1>1 DEF BackupsInv, Shapes
  <2> QED BY <1>1, <2>1, <2>2, DumpKinds
<1>9. /\ Apart
      /\ DOMAIN content' = Backups!StoreSet
      /\ content'[s] = content[s] \cup {x} \/ (content'[s] = content[s] /\ s = "redis" /\ s \in blurred')
      /\ \A u \in Backups!StoreSet : u # s => content'[u] = content[u]
      /\ \A u \in Backups!StoreSet : content'[u] \in Backups!Contents(u)
      /\ DOMAIN span' = Requests /\ \A o \in Requests : DOMAIN span'[o] = Backups!StoreSet
      /\ blurred \subseteq blurred'
  <2>1. CASE Backups!Holds(s, content[s] \cup {x}) /\ blurred' = blurred
    BY <1>1, <1>3, <1>7, <1>8, <2>1, HoldsApart
  <2>2. CASE s = "redis" /\ blurred' = blurred \cup {s} /\ content' = content /\ span' = span
    <3>1. Apart
      BY <1>3, <1>7, <2>2, StillApart
    <3> QED BY <2>2, <3>1 DEF BackupsInv, Shapes
  <2> QED BY <1>3, <2>1, <2>2
<1>10. ASSUME NEW o \in Requests PROVE ProcOK(o)'
  <2>1. RestoreOK(p)'
    BY <1>1, <1>4, <1>5, <1>6 DEF RestoreOK, Run
  <2>2. RestoreOK(o)'
    BY <1>6, <2>1, RestoreKept
  <2> QED BY <1>9, <2>2, ApartKeepsRuns
<1>11. ASSUME "milvus" \notin blurred, s = "milvus"
       PROVE  /\ content["milvus"] = q.dump \ proc[p].left /\ restored["milvus"] = None
              /\ \A o \in Requests : Refilling(o) /\ proc[o].at = 1 => o = p
  BY <1>1, <1>4, <1>5, <1>11 DEF Refilled
<1>12. AllRefilled'
  <2> SUFFICES ASSUME NEW o \in Requests, Refilling(o)' PROVE Refilled(o)'
    BY DEF AllRefilled
  <2>1. CASE o = p
    <3>1. ASSUME s = "milvus", "milvus" \notin blurred'
          PROVE  /\ content'["milvus"] = q.dump \ q.left /\ restored'["milvus"] = None
                 /\ \A r \in Requests : Refilling(r)' /\ proc'[r].at = 1 => r = p
      BY <1>3, <1>4, <1>5, <1>7, <1>9, <1>11, <3>1
    <3>2. ASSUME s = "redis", "redis" \notin blurred' PROVE q.dump \ q.left \subseteq content'["redis"]
      BY <1>1, <1>4, <1>5, <1>9, <3>2 DEF Refilled
    <3> QED BY <1>1, <1>5, <1>6, <2>1, <3>1, <3>2 DEF Refilled
  <2>2. CASE o # p
    <3>1. Refilling(o) /\ proc'[o] = proc[o] /\ Refilled(o)
      BY <1>6, <2>2 DEF Refilling, BackupsInv, AllRefilled
    <3>2. ASSUME proc[o].at = 1, "milvus" \notin blurred'
          PROVE  /\ content'["milvus"] = proc[o].dump \ proc[o].left /\ restored'["milvus"] = None
                 /\ \A r \in Requests : Refilling(r)' /\ proc'[r].at = 1 => r = o
      <4>1. s # "milvus" /\ "milvus" \notin blurred
        BY <1>9, <1>11, <2>2, <3>1, <3>2
      <4> QED BY <1>3, <1>7, <1>9, <3>1, <3>2, <4>1, StoreOrder DEF Refilled
    <3>3. ASSUME proc[o].at = 3, "redis" \notin blurred'
          PROVE  proc[o].dump \ proc[o].left \subseteq content'["redis"]
      <4>1. content["redis"] \subseteq content'["redis"] /\ "redis" \notin blurred
        BY <1>9, <3>3, StoreOrder
      <4> QED BY <3>1, <3>3, <4>1 DEF Refilled
    <3> QED BY <3>1, <3>2, <3>3 DEF Refilled
  <2> QED BY <2>1, <2>2
<1>13. Backups!ReportedIsRestored'
  <2> SUFFICES ASSUME NEW u \in Backups!StoreSet, u \notin blurred', restored'[u] # None
               PROVE  IF u = "redis" THEN restored'[u] \subseteq content'[u] ELSE content'[u] = restored'[u]
    BY DEF Backups!ReportedIsRestored
  <2>1. /\ u \notin blurred /\ restored'[u] = restored[u]
        /\ IF u = "redis" THEN restored[u] \subseteq content[u] ELSE content[u] = restored[u]
    BY <1>3, <1>9 DEF BackupsInv, Backups!ReportedIsRestored
  <2>2. CASE u # s
    BY <1>9, <2>1, <2>2
  <2>3. CASE u = s
    <3>1. s # "milvus"
      BY <1>11, <2>1, <2>3
    <3> QED BY <1>1, <1>9, <2>1, <2>3, <3>1
  <2> QED BY <2>2, <2>3
<1>14. Shapes'
  BY <1>3, <1>6, <1>9 DEF BackupsInv, Shapes, ManifestOK
<1> QED BY <1>3, <1>9, <1>10, <1>12, <1>13, <1>14, ApartKeepsFiles DEF BackupsInv

\* What is reported is in the store, if nobody came between.
LEMMA ItemsReported ==
  ASSUME BackupsInv, NEW p \in Requests, Backups!ReportItems(p)
  PROVE  BackupsInv'
<1>1. PICK s \in {"milvus", "redis"} :
        /\ s = Backups!RestoreOrder[proc[p].at] /\ s \in Backups!StoreSet
        /\ proc[p].at = (IF s = "milvus" THEN 1 ELSE 3)
  BY PuttingKnown DEF Backups!ReportItems
<1>2. /\ Backups!Doing(p, "putting") /\ proc[p].left = {} /\ Backups!Onward(p)
      /\ restored' = [restored EXCEPT ![s] = proc[p].dump]
      /\ UNCHANGED <<now, content, file, manifest, span, shared, tampered, skipped, blurred>>
  BY <1>1 DEF Backups!ReportItems, Backups!disk, Backups!history
<1>3. proc[p] # None /\ proc[p].op = "putting" /\ Refilling(p) /\ Refilled(p)
  BY <1>2, PuttingKnown
<1>4. PICK q : proc' = [proc EXCEPT ![p] = q] /\ (q = None \/ q \in RestoreRun)
  BY <1>2, <1>3, OnwardIsQuiet
<1>5. /\ DOMAIN proc' = Requests /\ proc'[p] = q /\ \A o \in Requests \ {p} : proc'[o] = proc[o]
      /\ q # None => q.op = "restore"
  BY <1>4 DEF BackupsInv, Shapes, RestoreRun
<1>6. /\ \A o \in Requests : Backing(o)' => Backing(o) /\ proc'[o] = proc[o]
      /\ \A o \in Requests : Refilling(o)' => Refilling(o) /\ proc'[o] = proc[o] /\ o # p
  BY <1>5 DEF Backing, Refilling
<1>7. Apart
  BY <1>2, <1>6, StillApart
<1>8. ASSUME NEW o \in Requests PROVE ProcOK(o)'
  <2>1. RestoreOK(p)'
    BY <1>4, <1>5 DEF RestoreOK, Refilling, Run
  <2>2. RestoreOK(o)'
    BY <1>5, <2>1, RestoreKept
  <2> QED BY <1>7, <2>2, ApartKeepsRuns
<1>9. /\ DOMAIN restored' = Backups!StoreSet /\ restored'[s] = proc[p].dump
      /\ \A u \in Backups!StoreSet : u # s => restored'[u] = restored[u]
  BY <1>1, <1>2 DEF BackupsInv, Shapes
<1>10. AllRefilled'
  <2> SUFFICES ASSUME NEW o \in Requests, Refilling(o)' PROVE Refilled(o)'
    BY DEF AllRefilled
  <2>1. Refilling(o) /\ proc'[o] = proc[o] /\ Refilled(o) /\ o # p
    BY <1>6 DEF BackupsInv, AllRefilled
  <2>2. ASSUME proc[o].at = 1, "milvus" \notin blurred PROVE s # "milvus"
    BY <1>1, <1>3, <2>1, <2>2 DEF Refilled
  <2> QED BY <1>2, <1>6, <1>9, <2>1, <2>2, StoreOrder DEF Refilled
<1>11. Backups!ReportedIsRestored'
  <2> SUFFICES ASSUME NEW u \in Backups!StoreSet, u \notin blurred', restored'[u] # None
               PROVE  IF u = "redis" THEN restored'[u] \subseteq content'[u] ELSE content'[u] = restored'[u]
    BY DEF Backups!ReportedIsRestored
  <2>1. CASE u # s
    BY <1>2, <1>9, <2>1 DEF BackupsInv, Backups!ReportedIsRestored
  <2>2. CASE u = s
    BY <1>1, <1>2, <1>3, <1>9, <2>2 DEF Refilled
  <2> QED BY <2>1, <2>2
<1>12. Shapes'
  BY <1>2, <1>5, <1>9 DEF BackupsInv, Shapes, ManifestOK
<1> QED BY <1>2, <1>7, <1>8, <1>10, <1>11, <1>12, ApartKeepsFiles DEF BackupsInv

\* MySQL is reported as restored only when the replay has left it as saved.
LEMMA TablesRestored ==
  ASSUME BackupsInv, NEW p \in Requests, Backups!RestoreTables(p)
  PROVE  BackupsInv'
<1>1. PICK saved : saved = Backups!Saved(p, "mysql")
  OBVIOUS
<1>2. PICK left : left = [t \in Backups!Tables |-> IF Backups!Recreated(t) THEN saved[t]
                                                 ELSE content["mysql"][t]]
  OBVIOUS
<1>3. /\ Backups!Restoring(p, "mysql") /\ saved # None
      /\ Backups!Holds("mysql", left)
      /\ restored' = [restored EXCEPT !["mysql"] = IF Backups!Recreated(NumTables) THEN saved ELSE None]
      /\ Backups!Onward(p)
      /\ UNCHANGED <<now, file, manifest, shared, tampered, skipped, blurred>>
  BY <1>1, <1>2 DEF Backups!RestoreTables, Backups!disk
<1>4. /\ "mysql" \in Backups!StoreSet /\ saved \in Backups!Contents("mysql")
      /\ proc[p] # None /\ proc[p].op = "restore"
  BY <1>1, <1>3, StoreOrder, SavedKind
<1>5. left \in Backups!Contents("mysql") /\ (Backups!Recreated(NumTables) => left = saved)
  <2>1. content["mysql"] \in Backups!Contents("mysql")
    BY <1>4 DEF BackupsInv, Shapes
  <2>2. ASSUME Backups!Recreated(NumTables) PROVE \A t \in Backups!Tables : Backups!Recreated(t)
    BY <2>2, KnowledgeAssumption DEF Backups!BackupAssumption, Backups!Tables, Backups!Recreated
  <2> QED
    BY <1>2, <1>4, <2>1, <2>2 DEF Backups!Contents
<1>6. PICK q : proc' = [proc EXCEPT ![p] = q] /\ (q = None \/ q \in RestoreRun)
  BY <1>3, <1>4, OnwardIsQuiet
<1>7. /\ DOMAIN proc' = Requests /\ proc'[p] = q /\ \A o \in Requests \ {p} : proc'[o] = proc[o]
      /\ q # None => q.op = "restore"
  BY <1>6 DEF BackupsInv, Shapes, RestoreRun
<1>8. /\ \A o \in Requests : Backing(o)' => Backing(o) /\ proc'[o] = proc[o]
      /\ \A o \in Requests : Refilling(o)' => Refilling(o) /\ proc'[o] = proc[o]
  BY <1>7 DEF Backing, Refilling
<1>9. /\ Apart
      /\ DOMAIN content' = Backups!StoreSet /\ content'["mysql"] = left
      /\ \A u \in Backups!StoreSet : u # "mysql" => content'[u] = content[u]
      /\ \A u \in Backups!StoreSet : content'[u] \in Backups!Contents(u)
      /\ DOMAIN span' = Requests /\ \A o \in Requests : DOMAIN span'[o] = Backups!StoreSet
  BY <1>3, <1>4, <1>5, <1>8, HoldsApart
<1>10. ASSUME NEW o \in Requests PROVE ProcOK(o)'
  <2>1. RestoreOK(p)'
    BY <1>6, <1>7 DEF RestoreOK, Refilling, Run
  <2>2. RestoreOK(o)'
    BY <1>7, <2>1, RestoreKept
  <2> QED BY <1>9, <2>2, ApartKeepsRuns
<1>11. /\ DOMAIN restored' = Backups!StoreSet
       /\ restored'["mysql"] = IF Backups!Recreated(NumTables) THEN saved ELSE None
       /\ \A u \in Backups!StoreSet : u # "mysql" => restored'[u] = restored[u]
  BY <1>3, <1>4 DEF BackupsInv, Shapes
<1>12. AllRefilled'
  <2> SUFFICES ASSUME NEW o \in Requests, Refilling(o)' PROVE Refilled(o)'
    BY DEF AllRefilled
  <2>1. Refilling(o) /\ proc'[o] = proc[o] /\ Refilled(o)
    BY <1>8 DEF BackupsInv, AllRefilled
  <2> QED BY <1>3, <1>8, <1>9, <1>11, <2>1, StoreOrder DEF Refilled
<1>13. Backups!ReportedIsRestored'
  BY <1>3, <1>5, <1>9, <1>11 DEF BackupsInv, Backups!ReportedIsRestored
<1>14. Shapes'
  BY <1>3, <1>7, <1>9, <1>11 DEF BackupsInv, Shapes, ManifestOK
<1> QED BY <1>3, <1>9, <1>10, <1>12, <1>13, <1>14, ApartKeepsFiles DEF BackupsInv

\* A listed backup takes along its own files and no others.
LEMMA BackupDeleted ==
  ASSUME BackupsInv, NEW t \in Backups!Seconds, Backups!DeleteBackup(t)
  PROVE  BackupsInv'
<1>1. /\ manifest[t] # None
      /\ file' = [s \in Backups!StoreSet |-> [file[s] EXCEPT ![manifest[t].files[s]] = None]]
      /\ manifest' = [manifest EXCEPT ![t] = None]
      /\ UNCHANGED <<now, content, proc, restored, span, shared, tampered, skipped, blurred>>
  BY DEF Backups!DeleteBackup, Backups!history
<1>2. /\ DOMAIN manifest' = Backups!Seconds /\ manifest'[t] = None
      /\ \A u \in Backups!Seconds \ {t} : manifest'[u] = manifest[u]
  BY <1>1 DEF BackupsInv, Shapes
<1>3. /\ DOMAIN file' = Backups!StoreSet
      /\ \A s \in Backups!StoreSet :
           /\ file'[s] \in [Backups!Seconds -> Backups!Contents(s) \cup {None}]
           /\ \A u \in Backups!Seconds : u # manifest[t].files[s] => file'[s][u] = file[s][u]
  BY <1>1 DEF BackupsInv, Shapes
<1>4. \A p \in Requests : /\ Backing(p)' => Backing(p) /\ proc'[p] = proc[p]
                          /\ Refilling(p)' => Refilling(p) /\ proc'[p] = proc[p]
  BY <1>1 DEF Backing, Refilling
<1>5. Apart /\ AllRefilled' /\ Backups!ReportedIsRestored'
  BY <1>1, <1>4, StillApart, QuietKeepsRefills
<1>6. \A p \in Requests : ProcOK(p)'
  BY <1>1, <1>5, ApartKeepsRuns, RestoreKept
<1>7. ASSUME Distinct, Filed PROVE Distinct' /\ Filed'
  <2>1. Distinct'
    BY <1>1, <1>2, <1>4, <1>7 DEF Distinct
  <2>2. ASSUME NEW p \in Requests, NEW s \in Backups!StoreSet, Backing(p), Rank[s] < proc[p].at
        PROVE  Kept(s, file'[s][proc[p].files[s]], span[p][s], Missed)
    <3>1. Kept(s, file[s][proc[p].files[s]], span[p][s], Missed) /\ proc[p].files[s] \in Backups!Seconds
      BY <1>7, <2>2 DEF Filed, BackupsInv, ProcOK, NamesOK
    <3>2. proc[p].files[s] # manifest[t].files[s]
      BY <1>1, <1>7, <2>2 DEF Distinct
    <3>3. file'[s][proc[p].files[s]] = file[s][proc[p].files[s]]
      BY <1>3, <3>1, <3>2
    <3> QED BY <3>1, <3>3
  <2>3. ASSUME NEW u \in Backups!Seconds \ {t}, NEW s \in Backups!StoreSet, manifest[u] # None
        PROVE  Kept(s, file'[s][manifest[u].files[s]], manifest[u].span[s], Missed)
    <3>1. /\ Kept(s, file[s][manifest[u].files[s]], manifest[u].span[s], Missed)
          /\ manifest[u].files[s] \in Backups!Seconds
      BY <1>7, <2>3 DEF Filed, BackupsInv, Shapes, ManifestOK, Names
    <3>2. manifest[u].files[s] # manifest[t].files[s]
      BY <1>1, <1>7, <2>3 DEF Distinct
    <3>3. file'[s][manifest[u].files[s]] = file[s][manifest[u].files[s]]
      BY <1>3, <3>1, <3>2
    <3> QED BY <3>1, <3>3
  <2>4. Missed' = Missed
    BY <1>1 DEF Missed
  <2>5. Filed'
    BY <1>1, <1>2, <1>4, <2>2, <2>3, <2>4 DEF Filed
  <2> QED BY <2>1, <2>5
<1>8. Shapes'
  BY <1>1, <1>2, <1>3 DEF BackupsInv, Shapes, ManifestOK
<1> QED BY <1>1, <1>5, <1>6, <1>7, <1>8 DEF BackupsInv

\* A file deleted by itself is remembered.
LEMMA FileDeleted ==
  ASSUME BackupsInv, NEW s \in Backups!StoreSet, NEW t \in Backups!Seconds, Backups!DeleteFile(s, t)
  PROVE  BackupsInv'
<1>1. /\ file' = [file EXCEPT ![s] = [@ EXCEPT ![t] = None]] /\ tampered' = TRUE
      /\ UNCHANGED <<now, content, manifest, proc, restored, span, shared, skipped, blurred>>
  BY DEF Backups!DeleteFile
<1>2. /\ DOMAIN file' = Backups!StoreSet
      /\ \A u \in Backups!StoreSet : file'[u] \in [Backups!Seconds -> Backups!Contents(u) \cup {None}]
  BY <1>1 DEF BackupsInv, Shapes
<1>3. \A p \in Requests : /\ Backing(p)' => Backing(p) /\ proc'[p] = proc[p]
                          /\ Refilling(p)' => Refilling(p) /\ proc'[p] = proc[p]
  BY <1>1 DEF Backing, Refilling
<1>4. Apart /\ AllRefilled' /\ Backups!ReportedIsRestored'
  BY <1>1, <1>3, StillApart, QuietKeepsRefills
<1>5. \A p \in Requests : ProcOK(p)'
  BY <1>1, <1>4, ApartKeepsRuns, RestoreKept
<1>6. Shapes'
  BY <1>1, <1>2 DEF BackupsInv, Shapes, ManifestOK
<1> QED BY <1>1, <1>4, <1>5, <1>6 DEF BackupsInv

\* No step of the backups breaks their invariant.
LEMMA BackupsStep == BackupsInv /\ [Backups!Next]_backups => BackupsInv'
<1> SUFFICES ASSUME BackupsInv, [Backups!Next]_backups PROVE BackupsInv'
  OBVIOUS
<1>1. CASE UNCHANGED backups
  <2>1. UNCHANGED <<now, content, file, manifest, proc, restored, span, shared, tampered, skipped, blurred>>
    BY <1>1 DEF backups
  <2>2. \A p \in Requests : (Backing(p)' => Backing(p)) /\ (Refilling(p)' => Refilling(p))
    BY <2>1 DEF Backing, Refilling
  <2>3. Apart /\ AllRefilled' /\ Backups!ReportedIsRestored'
    BY <2>1, <2>2, StillApart, QuietKeepsRefills
  <2>4. \A p \in Requests : ProcOK(p)'
    BY <2>1, <2>3, ApartKeepsRuns, RestoreKept
  <2>5. Shapes'
    BY <2>1 DEF BackupsInv, Shapes, ManifestOK
  <2> QED BY <2>1, <2>3, <2>4, <2>5, ApartKeepsFiles DEF BackupsInv
<1>2. CASE \E p \in Requests :
             \/ \E single \in BOOLEAN : Backups!Begin(p, single)
             \/ Backups!BeginDump(p) \/ Backups!ReadTables(p)
             \/ \E x \in Keys \cup Vectors : Backups!ReadItem(p, x)
             \/ Backups!Save(p) \/ Backups!Conclude(p) \/ Backups!BackupFails(p)
  BY <1>2, BackupBegin, DumpBegins, TablesRead, ItemRead, BackupSave, BackupConclude, BackupBreaks
<1>3. CASE \E p \in Requests :
             \/ \E t \in Backups!Seconds : Backups!BeginRestore(p, t)
             \/ Backups!RestoreFails(p) \/ Backups!RestoreTables(p)
             \/ Backups!DropVectors(p) \/ Backups!BeginKeys(p) \/ Backups!ReportItems(p)
             \/ \E x \in Keys \cup Vectors : Backups!PutItem(p, x)
  BY <1>3, RestoreBegins, RestoreBreaks, TablesRestored, VectorsDropped, KeysBegun, ItemsReported, ItemPut
<1>4. CASE \/ Backups!Tick
           \/ \E s \in Backups!StoreSet : \E what \in Backups!Contents(s) : Backups!Write(s, what)
           \/ \E t \in Backups!Seconds :
                \/ Backups!DeleteBackup(t)
                \/ \E s \in Backups!StoreSet : Backups!DeleteFile(s, t)
  BY <1>4, BackupTick, BackupWrite, BackupDeleted, FileDeleted
<1> QED BY <1>1, <1>2, <1>3, <1>4 DEF Backups!Next

\* A behaviour about the backups takes only their steps.
LEMMA BackupsFocus == focus = "backups" /\ KnowledgeStep => focus' = "backups" /\ [Backups!Next]_backups
BY DEF KnowledgeStep, KnowledgeNext, backups

\* However backups, restores, writes and deletions interleave, a listed backup is whole; its
\* dump of MySQL is of one moment, those of Redis and Milvus hold only items that were there
\* during it and all that were there throughout, unless a key's error was swallowed; and what a
\* restore reports as restored is restored (backup_service).
THEOREM BackupsStaySound == KnowledgeSpec => []BackupsSound
<1> DEFINE I == focus = "backups" => BackupsInv
<1>1. KnowledgeInit => I
  BY BackupsBegin DEF KnowledgeInit
<1>2. I /\ KnowledgeStep => I'
  <2> SUFFICES ASSUME I, KnowledgeStep PROVE I'
    OBVIOUS
  <2>1. CASE focus = "backups"
    BY <2>1, BackupsFocus, BackupsStep
  <2>2. CASE focus # "backups"
    BY <2>2 DEF KnowledgeStep, KnowledgeNext
  <2> QED BY <2>1, <2>2
<1>3. BackupsInv => Backups!BackupsSound
  <2> SUFFICES ASSUME BackupsInv PROVE Backups!BackupsSound
    OBVIOUS
  <2>1. Backups!TypeOK
    BY DEF BackupsInv, Shapes, ManifestOK, Names, Backups!TypeOK
  <2>2. ASSUME ~shared, ~tampered, NEW t \in Backups!Seconds, manifest[t] # None, NEW s \in Backups!StoreSet
        PROVE  Kept(s, file[s][manifest[t].files[s]], manifest[t].span[s], Missed)
    BY <2>2 DEF BackupsInv, Filed
  <2>3. Backups!ListedIsWhole
    BY <2>2, ContentIsNotNone DEF Kept, Backups!ListedIsWhole
  <2>4. Backups!BackupIsOfItsTime
    BY <2>2 DEF Kept, Missed, Backups!BackupIsOfItsTime
  <2> QED BY <2>1, <2>3, <2>4 DEF BackupsInv, Backups!BackupsSound
<1> QED BY <1>1, <1>2, <1>3, PTL DEF KnowledgeSpec, KnowledgeStep, BackupsSound

-----------------------------------------------------------------------------
(* The store of documents.                                                  *)

\* A request has read what it is going to use.
Asks(q) ==
  /\ q.kind # "upload" => q.doc # None
  /\ q.kind \in {"upload", "rollback"} => q.arg \in Objects
  /\ q.kind \in {"vectorize", "insert"} => q.text # None
  /\ q.last < MaxOps
Engaged == {r \in Requests : d_req[r] # None}
StoreKinds ==
  /\ Store!TypeOK /\ IsFiniteSet(versions) /\ IsFiniteSet(Engaged)
  /\ ops \in 0 .. MaxOps /\ d_edits \in 0 .. MaxChunkEdits
  /\ \A r \in Requests : d_req[r] # None => Asks(d_req[r])

\* Every version was archived by a request that is over.
Counted == Cardinality(versions) + Cardinality(Engaged) <= ops

\* Requests that come one after the other: what one has read is still so when it writes.
Faces(q) ==
  /\ extract = None /\ q.doc = doc
  /\ q.kind \in {"upload", "rollback"} => q.last = Cardinality(versions)
  /\ q.kind \in {"vectorize", "insert"} => q.text = chunks
  /\ q.kind = "rollback" => q.arg \in accepted
OneRequest ==
  ~d_crossed =>
    /\ \A r, s \in Requests : d_req[r] # None /\ d_req[s] # None => r = s
    /\ \A r \in Requests : d_req[r] # None => Faces(d_req[r])
    /\ ~twin
    /\ doc = None => accepted = {} /\ versions = {} /\ extract = None

\* Every object of the row and its versions was accepted, and versions are counted through.
KeptVersions ==
  ~d_crossed =>
    /\ doc # None => doc.object \in accepted
    /\ \A v \in versions : v.object \in accepted /\ v.version <= Cardinality(versions)

\* Without a failure as well: which objects there are, what a deletion leaves, and which
\* vectors there are when no request is under way.
Rooted(o) ==
  \/ doc # None /\ o = doc.object
  \/ \E v \in versions : v.object = o
  \/ \E r \in Requests : d_req[r] # None /\ d_req[r].kind = "upload" /\ d_req[r].arg = o
Copied ==
  (\A r \in Requests : d_req[r] = None) /\ doc # None /\ doc.object \in objects
    /\ doc.status = "vectorized" => chunks # None /\ vectors = {chunks}
CopiesAgree ==
  ~d_crossed /\ ~d_failed =>
    /\ \A o \in objects : Rooted(o)
    /\ doc = None => vectors = {} /\ triples = {} /\ chunks = None
    /\ \A r \in Requests : d_req[r] # None =>
         /\ d_req[r].kind \in {"insert", "delete"} => vectors = {}
         /\ d_req[r].kind = "delete" => doc.object \notin objects
    /\ Copied

StoreInv ==
  /\ StoreKinds /\ Counted /\ OneRequest /\ KeptVersions /\ CopiesAgree
  /\ Store!NoVersionLost /\ Store!VersionsNumbered

LEMMA StoreNames ==
  /\ MaxOps \in Nat /\ MaxChunkEdits \in Nat
  /\ None \notin Store!Row /\ None \notin Store!Texts /\ None \notin Store!Seen
  /\ None # Store!Due
  /\ \A S : Store!Cardinality(S) = Cardinality(S)
<1>1. ASSUME NEW S PROVE Store!Cardinality(S) = Cardinality(S)
  BY DEF Store!Cardinality, Cardinality
<1> QED
  BY <1>1, KnowledgeAssumption DEF Store!StoreAssumption

LEMMA StoreTypes ==
  ASSUME StoreKinds
  PROVE  /\ doc \in {None} \cup Store!Row /\ d_req \in [Requests -> {None} \cup Store!Seen]
         /\ doc # None => doc \in Store!Row /\ doc.object \in Objects /\ doc.status \in Store!DocStatus
         /\ chunks \in {None} \cup Store!Texts /\ vectors \subseteq Store!Texts
         /\ Cardinality(versions) \in Nat /\ Cardinality(Engaged) \in Nat
         /\ \A v \in versions : v.version \in 1 .. MaxOps /\ v.object \in Objects
         /\ \A r \in Requests : d_req[r] # None =>
              /\ d_req[r] \in Store!Seen /\ d_req[r].kind \in Store!Ops
              /\ d_req[r].doc \in {None} \cup Store!Row /\ d_req[r].text \in {None} \cup Store!Texts
              /\ d_req[r].arg \in {None} \cup Objects /\ d_req[r].last \in Nat
              /\ d_req[r].doc # None => d_req[r].doc.object \in Objects
<1>1. Cardinality(versions) \in Nat /\ Cardinality(Engaged) \in Nat
  BY FS_CardinalityType DEF StoreKinds
<1>2. ASSUME NEW r \in Requests, d_req[r] # None
      PROVE  /\ d_req[r] \in Store!Seen /\ d_req[r].kind \in Store!Ops
             /\ d_req[r].doc \in {None} \cup Store!Row /\ d_req[r].text \in {None} \cup Store!Texts
             /\ d_req[r].arg \in {None} \cup Objects /\ d_req[r].last \in Nat
             /\ d_req[r].doc # None => d_req[r].doc.object \in Objects
  <2>1. d_req[r] \in Store!Seen
    BY <1>2 DEF StoreKinds, Store!TypeOK
  <2> QED
    BY <2>1 DEF Store!Seen, Store!Row
<1>3. doc \in {None} \cup Store!Row /\ (doc # None => doc.object \in Objects /\ doc.status \in Store!DocStatus)
  BY DEF StoreKinds, Store!TypeOK, Store!Row
<1>4. \A v \in versions : v.version \in 1 .. MaxOps /\ v.object \in Objects
  BY DEF StoreKinds, Store!TypeOK
<1> QED
  BY <1>1, <1>2, <1>3, <1>4 DEF StoreKinds, Store!TypeOK

\* Nothing is stored at the start.
LEMMA StoreBegins == Store!Init => StoreInv
<1> SUFFICES ASSUME Store!Init PROVE StoreInv
  OBVIOUS
<1>0. /\ objects = {} /\ doc = None /\ twin = FALSE /\ versions = {}
      /\ chunks = None /\ vectors = {} /\ triples = {}
      /\ corpus = None /\ dirty = FALSE /\ rebuild = None /\ extract = None
      /\ d_req = [r \in Requests |-> None]
      /\ ops = 0 /\ d_edits = 0 /\ accepted = {} /\ d_crossed = FALSE /\ d_failed = FALSE
  BY DEF Store!Init
<1>1. Engaged = {} /\ IsFiniteSet({}) /\ Cardinality({}) = 0
  BY <1>0, FS_EmptySet DEF Engaged
<1>2. MaxOps \in Nat /\ MaxChunkEdits \in Nat
  BY StoreNames
<1>3. Store!TypeOK
  BY <1>0 DEF Store!TypeOK
<1>4. StoreKinds /\ Counted
  BY <1>0, <1>1, <1>2, <1>3 DEF StoreKinds, Counted
<1>5. OneRequest /\ KeptVersions /\ CopiesAgree /\ Store!NoVersionLost /\ Store!VersionsNumbered
  BY <1>0 DEF OneRequest, KeptVersions, CopiesAgree, Copied, Store!NoVersionLost, Store!VersionsNumbered
<1> QED
  BY <1>4, <1>5 DEF StoreInv

\* Requests come and go one by one.
LEMMA Engages ==
  ASSUME StoreKinds, NEW r \in Requests, d_req[r] = None, NEW q \in Store!Seen,
         d_req' = [d_req EXCEPT ![r] = q]
  PROVE  IsFiniteSet(Engaged)' /\ Cardinality(Engaged)' = Cardinality(Engaged) + 1
<1>1. q # None
  BY StoreNames
<1>2. d_req'[r] = q /\ \A s \in Requests : s # r => d_req'[s] = d_req[s]
  BY StoreTypes
<1>3. Engaged' = Engaged \cup {r} /\ r \notin Engaged
  BY <1>1, <1>2 DEF Engaged
<1> QED
  BY <1>3, FS_AddElement DEF StoreKinds

LEMMA Disengages ==
  ASSUME StoreKinds, NEW r \in Requests, d_req[r] # None, d_req' = [d_req EXCEPT ![r] = None]
  PROVE  IsFiniteSet(Engaged)' /\ Cardinality(Engaged)' = Cardinality(Engaged) - 1
<1>2. d_req'[r] = None /\ \A s \in Requests : s # r => d_req'[s] = d_req[s]
  BY StoreTypes
<1>3. Engaged' = Engaged \ {r} /\ r \in Engaged
  BY <1>2 DEF Engaged
<1> QED
  BY <1>3, FS_RemoveElement DEF StoreKinds

\* A request that starts has read what there is, and crosses whoever is under way.
Starts(r, q) ==
  /\ d_req[r] = None /\ ops < MaxOps /\ ops' = ops + 1
  /\ q \in Store!Seen /\ Asks(q) /\ d_req' = [d_req EXCEPT ![r] = q]
  /\ d_crossed' = (d_crossed \/ ~Store!Quiet)
  /\ UNCHANGED <<doc, twin, versions, accepted, extract>>
  /\ q.doc = doc
  /\ q.kind \in {"upload", "rollback"} => q.last = Cardinality(versions)
  /\ q.kind \in {"vectorize", "insert"} => q.text = chunks'
  /\ q.kind = "rollback" => \E v \in versions : v.object = q.arg

LEMMA RequestStarts ==
  ASSUME StoreInv, NEW r \in Requests, NEW q, Starts(r, q)
  PROVE  /\ IsFiniteSet(Engaged)' /\ ops' \in 0 .. MaxOps
         /\ d_req' \in [Requests -> {None} \cup Store!Seen]
         /\ \A s \in Requests : d_req'[s] # None => Asks(d_req'[s])
         /\ Counted' /\ OneRequest' /\ KeptVersions' /\ Store!NoVersionLost' /\ Store!VersionsNumbered'
         /\ d_req'[r] = q /\ q # None
         /\ ~d_crossed' => ~d_crossed /\ \A s \in Requests : d_req[s] = None /\ (s # r => d_req'[s] = None)
<1>0. StoreKinds /\ Counted /\ OneRequest /\ KeptVersions /\ Store!NoVersionLost /\ Store!VersionsNumbered
  BY DEF StoreInv
<1>1. q \in Store!Seen /\ q # None /\ d_req[r] = None /\ d_req' = [d_req EXCEPT ![r] = q] /\ Asks(q)
  BY StoreNames DEF Starts
<1>2. IsFiniteSet(Engaged)' /\ Cardinality(Engaged)' = Cardinality(Engaged) + 1
  BY <1>0, <1>1, Engages
<1>3. /\ d_req'[r] = q /\ \A s \in Requests : s # r => d_req'[s] = d_req[s]
      /\ d_req' \in [Requests -> {None} \cup Store!Seen]
  BY <1>0, <1>1, StoreTypes
<1>4. ops' \in 0 .. MaxOps
  BY <1>0, StoreNames DEF Starts, StoreKinds
<1>5. Counted'
  <2>1. Cardinality(versions)' = Cardinality(versions) /\ ops' = ops + 1 /\ ops \in Nat
    BY <1>0, StoreNames DEF Starts, StoreKinds
  <2> QED
    BY <1>0, <1>2, <2>1, StoreTypes DEF Counted
<1>6. ~d_crossed' => ~d_crossed /\ extract = None /\ \A s \in Requests : d_req[s] = None /\ (s # r => d_req'[s] = None)
  BY <1>3 DEF Starts, Store!Quiet, Store!Busy
<1>7. \A s \in Requests : d_req'[s] # None => Asks(d_req'[s])
  BY <1>0, <1>1, <1>3 DEF StoreKinds
<1>8. OneRequest'
  <2> SUFFICES ASSUME ~d_crossed' PROVE OneRequest'
    BY DEF OneRequest
  <2>1. Faces(q)'
    BY <1>0, <1>6 DEF Faces, Starts, KeptVersions
  <2> QED
    BY <1>0, <1>3, <1>6, <2>1 DEF OneRequest, Starts
<1>9. KeptVersions' /\ Store!NoVersionLost' /\ Store!VersionsNumbered'
  BY <1>0, <1>6 DEF KeptVersions, Store!NoVersionLost, Store!VersionsNumbered, Starts
<1> QED
  BY <1>1, <1>2, <1>3, <1>4, <1>5, <1>6, <1>7, <1>8, <1>9

\* A request that began with Start saw the row and its text.
LEMMA StartsAsAsked ==
  ASSUME StoreInv, NEW r \in Requests, NEW kind \in Store!Ops, NEW arg \in {None} \cup Objects,
         Store!Start(r, kind, arg), UNCHANGED <<doc, twin, versions, accepted, extract, chunks>>,
         kind # "upload" => doc # None, kind \in {"upload", "rollback"} => arg \in Objects,
         kind \in {"vectorize", "insert"} => chunks # None,
         kind = "rollback" => \E v \in versions : v.object = arg
  PROVE  \E q : /\ Starts(r, q) /\ q.kind = kind /\ q.arg = arg
<1> DEFINE q == [kind |-> kind, doc |-> doc, text |-> chunks, arg |-> arg, last |-> Cardinality(versions)]
<1>0. StoreKinds /\ Counted
  BY DEF StoreInv
<1>1. /\ d_req[r] = None /\ ops < MaxOps /\ d_req' = [d_req EXCEPT ![r] = q] /\ ops' = ops + 1
      /\ d_crossed' = (d_crossed \/ ~Store!Quiet)
  BY StoreNames DEF Store!Start
<1>2. Cardinality(versions) \in Nat /\ Cardinality(versions) < MaxOps
  BY <1>0, <1>1, StoreTypes, StoreNames DEF Counted, StoreKinds
<1>3. q \in Store!Seen
  BY <1>0, <1>2, StoreTypes DEF Store!Seen
<1>4. Asks(q)
  BY <1>2 DEF Asks
<1>5. Starts(r, q) /\ q.kind = kind /\ q.arg = arg
  BY <1>1, <1>3, <1>4 DEF Starts
<1> QED
  BY <1>5

\* What a request leaves alone while it starts keeps the copies as they were.
LEMMA StartsQuietly ==
  ASSUME StoreInv, NEW r \in Requests, NEW q, Starts(r, q), q.kind \notin {"insert", "delete"},
         Store!TypeOK', d_edits' \in 0 .. MaxChunkEdits, UNCHANGED <<vectors, triples, d_failed>>,
         \A o \in objects' : o \in objects \/ (q.kind = "upload" /\ q.arg = o),
         doc = None => chunks' = chunks
  PROVE  StoreInv'
<1>0. StoreKinds /\ OneRequest /\ CopiesAgree
  BY DEF StoreInv
<1>1. UNCHANGED <<doc, versions, twin, accepted>>
  BY DEF Starts
<1>3. /\ d_req'[r] = q /\ q # None
      /\ ~d_crossed' => ~d_crossed /\ \A s \in Requests : d_req[s] = None /\ (s # r => d_req'[s] = None)
  BY RequestStarts
<1>5. StoreKinds'
  BY <1>0, <1>1, RequestStarts DEF StoreKinds
<1>6. CopiesAgree'
  <2> SUFFICES ASSUME ~d_crossed', ~d_failed' PROVE CopiesAgree'
    BY DEF CopiesAgree
  <2>1. /\ \A s \in Requests : d_req[s] = None /\ (s # r => d_req'[s] = None)
        /\ ~d_crossed /\ ~d_failed
    BY <1>3
  <2>2. \A p \in objects' : Rooted(p)'
    BY <1>0, <1>1, <1>3, <2>1 DEF CopiesAgree, Rooted
  <2>3. Copied'
    BY <1>3 DEF Copied
  <2> QED
    BY <1>0, <1>1, <1>3, <2>1, <2>2, <2>3 DEF CopiesAgree
<1> QED
  BY <1>5, <1>6, RequestStarts DEF StoreInv

LEMMA UploadBegins ==
  ASSUME StoreInv, NEW r \in Requests, NEW o \in Objects, Store!BeginUpload(r, o)
  PROVE  StoreInv'
<1>1. /\ Store!Start(r, "upload", o) /\ objects' = objects \cup {o}
      /\ UNCHANGED <<doc, twin, versions, chunks, vectors, triples, corpus, dirty, rebuild, extract,
                     d_edits, accepted, d_failed>>
  BY DEF Store!BeginUpload, Store!index
<1>2. PICK q : Starts(r, q) /\ q.kind = "upload" /\ q.arg = o
  <2>1. "upload" \in Store!Ops /\ o \in {None} \cup Objects
    BY DEF Store!Ops
  <2> QED
    BY <1>1, <2>1, StartsAsAsked
<1>3. Store!TypeOK' /\ d_edits' \in 0 .. MaxChunkEdits
  BY <1>1, <1>2, RequestStarts DEF StoreInv, StoreKinds, Store!TypeOK
<1> QED
  BY <1>1, <1>2, <1>3, StartsQuietly

LEMMA ParseBegins ==
  ASSUME StoreInv, NEW r \in Requests, Store!BeginParse(r) \/ Store!BeginVectorize(r)
  PROVE  StoreInv'
<1> DEFINE kind == IF Store!BeginParse(r) THEN "parse" ELSE "vectorize"
<1>1. /\ Store!Start(r, kind, None) /\ doc # None /\ (kind = "vectorize" => chunks # None)
      /\ UNCHANGED <<objects, doc, twin, versions, chunks, vectors, triples, corpus, dirty, rebuild,
                     extract, d_edits, accepted, d_failed>>
  BY DEF Store!BeginParse, Store!BeginVectorize, Store!store, Store!index
<1>2. kind \in {"parse", "vectorize"} /\ kind \in Store!Ops
  BY DEF Store!Ops
<1> HIDE DEF kind
<1>3. PICK q : Starts(r, q) /\ q.kind = kind
  BY <1>1, <1>2, StartsAsAsked
<1>4. Store!TypeOK' /\ d_edits' \in 0 .. MaxChunkEdits
  BY <1>1, <1>3, RequestStarts DEF StoreInv, StoreKinds, Store!TypeOK
<1> QED
  BY <1>1, <1>2, <1>3, <1>4, StartsQuietly

LEMMA RollbackBegins ==
  ASSUME StoreInv, NEW r \in Requests, NEW v \in versions, Store!BeginRollback(r, v)
  PROVE  StoreInv'
<1>1. /\ Store!Start(r, "rollback", v.object) /\ doc # None
      /\ UNCHANGED <<objects, doc, twin, versions, chunks, vectors, triples, corpus, dirty, rebuild,
                     extract, d_edits, accepted, d_failed>>
  BY DEF Store!BeginRollback, Store!store, Store!index
<1>2. "rollback" \in Store!Ops /\ v.object \in Objects
  BY StoreTypes DEF Store!Ops, StoreInv
<1>3. PICK q : Starts(r, q) /\ q.kind = "rollback"
  BY <1>1, <1>2, StartsAsAsked
<1>4. Store!TypeOK' /\ d_edits' \in 0 .. MaxChunkEdits
  BY <1>1, <1>3, RequestStarts DEF StoreInv, StoreKinds, Store!TypeOK
<1> QED
  BY <1>1, <1>3, <1>4, StartsQuietly

LEMMA ChunkEdited ==
  ASSUME StoreInv, NEW r \in Requests, Store!EditChunk(r)
  PROVE  StoreInv'
<1> DEFINE q == [kind |-> "vectorize", doc |-> doc, text |-> chunks', arg |-> None, last |-> 0]
<1>0. StoreKinds
  BY DEF StoreInv
<1>1. /\ doc # None /\ chunks # None /\ d_edits < MaxChunkEdits /\ d_req[r] = None /\ ops < MaxOps
      /\ d_edits' = d_edits + 1 /\ ops' = ops + 1 /\ d_crossed' = (d_crossed \/ ~Store!Quiet)
      /\ chunks' = <<chunks[1], d_edits + 1>> /\ d_req' = [d_req EXCEPT ![r] = q]
      /\ UNCHANGED <<objects, doc, twin, versions, vectors, triples, corpus, dirty, rebuild,
                     extract, accepted, d_failed>>
  BY DEF Store!EditChunk, Store!index
<1>2. d_edits' \in 0 .. MaxChunkEdits /\ chunks' \in Store!Texts
  <2>1. chunks \in Objects \X (0 .. MaxChunkEdits)
    BY <1>0, <1>1, StoreTypes DEF Store!Texts
  <2>2. chunks[1] \in Objects /\ d_edits + 1 \in 0 .. MaxChunkEdits
    BY <1>0, <1>1, <2>1, StoreNames DEF StoreKinds
  <2> QED
    BY <1>1, <2>2 DEF Store!Texts
<1>3. Starts(r, q) /\ q.kind = "vectorize"
  <2>1. q \in Store!Seen
    BY <1>0, <1>2, StoreTypes DEF Store!Seen, Store!Ops
  <2>2. Asks(q)
    <3>1. chunks' # None /\ 0 < MaxOps
      BY <1>0, <1>1, <1>2, StoreNames DEF StoreKinds
    <3> QED
      BY <1>1, <3>1 DEF Asks
  <2> QED
    BY <1>1, <2>1, <2>2 DEF Starts
<1> HIDE DEF q
<1>4. Store!TypeOK'
  BY <1>0, <1>1, <1>2, <1>3, RequestStarts DEF StoreKinds, Store!TypeOK
<1> QED
  BY <1>1, <1>2, <1>3, <1>4, StartsQuietly

\* A deletion takes the object and the vectors first.
LEMMA DeleteBegins ==
  ASSUME StoreInv, NEW r \in Requests, Store!BeginDelete(r)
  PROVE  StoreInv'
<1>0. StoreKinds /\ OneRequest /\ CopiesAgree
  BY DEF StoreInv
<1>1. /\ Store!Start(r, "delete", None) /\ doc # None /\ objects' = objects \ {doc.object}
      /\ \/ vectors' = {} /\ UNCHANGED d_failed
         \/ UNCHANGED vectors /\ d_failed'
      /\ UNCHANGED <<doc, twin, versions, chunks, triples, corpus, dirty, rebuild, extract,
                     d_edits, accepted>>
  BY DEF Store!BeginDelete, Store!DropVectors, Store!index
<1>2. PICK q : Starts(r, q) /\ q.kind = "delete"
  <2>1. "delete" \in Store!Ops
    BY DEF Store!Ops
  <2> QED
    BY <1>1, <2>1, StartsAsAsked
<1>3. /\ d_req'[r] = q /\ q # None
      /\ ~d_crossed' => ~d_crossed /\ \A s \in Requests : d_req[s] = None /\ (s # r => d_req'[s] = None)
  BY <1>2, RequestStarts
<1>4. Store!TypeOK'
  BY <1>0, <1>1, <1>2, RequestStarts DEF StoreKinds, Store!TypeOK
<1>5. StoreKinds'
  BY <1>0, <1>1, <1>2, <1>4, RequestStarts DEF StoreKinds
<1>6. CopiesAgree'
  <2> SUFFICES ASSUME ~d_crossed', ~d_failed' PROVE CopiesAgree'
    BY DEF CopiesAgree
  <2>1. /\ \A s \in Requests : d_req[s] = None /\ (s # r => d_req'[s] = None)
        /\ ~d_crossed /\ vectors' = {} /\ ~d_failed
    BY <1>1, <1>3
  <2>2. \A p \in objects' : Rooted(p)'
    BY <1>0, <1>1, <2>1 DEF CopiesAgree, Rooted
  <2>3. Copied'
    BY <1>1 DEF Copied
  <2> QED
    BY <1>1, <1>3, <2>1, <2>2, <2>3 DEF CopiesAgree
<1> QED
  BY <1>2, <1>5, <1>6, RequestStarts DEF StoreInv

\* A request that ends leaves the others as they were, and none when it crossed nobody.
Finishes(r) == d_req[r] # None /\ d_req' = [d_req EXCEPT ![r] = None]

LEMMA RequestEnds ==
  ASSUME StoreInv, NEW r \in Requests, Finishes(r), UNCHANGED <<ops, d_crossed>>
  PROVE  /\ IsFiniteSet(Engaged)' /\ ops' \in 0 .. MaxOps
         /\ Cardinality(versions) + 1 + Cardinality(Engaged)' <= ops'
         /\ d_req' \in [Requests -> {None} \cup Store!Seen]
         /\ \A s \in Requests : d_req'[s] # None => Asks(d_req'[s])
         /\ ~d_crossed => \A s \in Requests : d_req'[s] = None /\ (s # r => d_req[s] = None)
         /\ ~d_crossed => Faces(d_req[r]) /\ ~twin
<1>0. StoreKinds /\ Counted /\ OneRequest
  BY DEF StoreInv
<1>1. IsFiniteSet(Engaged)' /\ Cardinality(Engaged)' = Cardinality(Engaged) - 1
  BY <1>0, Disengages DEF Finishes
<1>2. /\ d_req'[r] = None /\ \A s \in Requests : s # r => d_req'[s] = d_req[s]
      /\ d_req' \in [Requests -> {None} \cup Store!Seen]
  BY <1>0, StoreTypes DEF Finishes
<1>3. ops' \in 0 .. MaxOps /\ Cardinality(versions) + 1 + Cardinality(Engaged)' <= ops'
  <2>1. ops' = ops /\ ops \in Nat
    BY <1>0, StoreNames DEF StoreKinds
  <2> QED
    BY <1>0, <1>1, <2>1, StoreTypes DEF Counted, StoreKinds
<1>4. ~d_crossed => \A s \in Requests : d_req'[s] = None /\ (s # r => d_req[s] = None)
  BY <1>0, <1>2 DEF OneRequest, Finishes
<1>5. \A s \in Requests : d_req'[s] # None => Asks(d_req'[s])
  BY <1>0, <1>2 DEF StoreKinds
<1> QED
  BY <1>0, <1>1, <1>2, <1>3, <1>4, <1>5 DEF OneRequest, Finishes

\* The end of a request that archives nothing.
LEMMA EndsPlainly ==
  ASSUME StoreInv, NEW r \in Requests, Finishes(r), UNCHANGED <<ops, d_crossed, d_edits, versions, twin>>,
         Store!TypeOK',
         ~d_crossed => accepted' = accepted /\ (doc' = None <=> doc = None)
                       /\ (doc # None => doc'.object = doc.object)
                       /\ (doc = None => extract' = extract)
  PROVE  /\ StoreKinds' /\ Counted' /\ OneRequest' /\ KeptVersions'
         /\ Store!NoVersionLost' /\ Store!VersionsNumbered'
<1>0. /\ StoreKinds /\ Counted /\ OneRequest /\ KeptVersions
      /\ Store!NoVersionLost /\ Store!VersionsNumbered
  BY DEF StoreInv
<1>1. StoreKinds'
  BY <1>0, RequestEnds DEF StoreKinds
<1>2. Counted'
  <2>1. /\ Cardinality(versions)' = Cardinality(versions) /\ Cardinality(versions) \in Nat
        /\ Cardinality(Engaged)' \in Nat /\ ops' \in Int
    BY <1>0, RequestEnds, StoreTypes, StoreNames, FS_CardinalityType
  <2> QED
    BY <2>1, RequestEnds DEF Counted
<1>3. OneRequest'
  BY <1>0, RequestEnds DEF OneRequest
<1>4. KeptVersions' /\ Store!NoVersionLost' /\ Store!VersionsNumbered'
  BY <1>0 DEF KeptVersions, Store!NoVersionLost, Store!VersionsNumbered
<1> QED
  BY <1>1, <1>2, <1>3, <1>4

\* The row keeps its object when its status is marked.
LEMMA MarkedRow ==
  ASSUME StoreKinds, NEW seen, NEW mark \in Store!DocStatus
  PROVE  LET m == Store!Marked(seen, mark) IN
         /\ m \in {None} \cup Store!Row /\ (m = None <=> doc = None)
         /\ doc # None => m.object = doc.object /\ m.status \in {mark, doc.status}
         /\ doc # None /\ seen = doc => m.status = mark
<1> DEFINE m == Store!Marked(seen, mark)
<1>1. CASE doc = None
  BY <1>1 DEF Store!Marked
<1>2. CASE doc # None /\ seen.status = mark
  BY <1>2, StoreTypes DEF Store!Marked
<1>3. CASE doc # None /\ seen.status # mark
  <2>1. m = [doc EXCEPT !.status = mark] /\ doc \in [object : Objects, status : Store!DocStatus]
    BY <1>3, StoreTypes DEF Store!Marked, Store!Row
  <2>2. m \in Store!Row /\ m.object = doc.object /\ m.status = mark
    BY <2>1 DEF Store!Row
  <2> QED
    BY <1>3, <2>2, StoreNames
<1> QED
  BY <1>1, <1>2, <1>3

LEMMA ParseEnds ==
  ASSUME StoreInv, NEW r \in Requests, Store!FinishParse(r)
  PROVE  StoreInv'
<1>0. StoreKinds /\ OneRequest /\ CopiesAgree
  BY DEF StoreInv
<1>1. /\ Finishes(r) /\ d_req[r].kind = "parse" /\ doc' = Store!Marked(d_req[r].doc, "parsed")
      /\ chunks' = (IF doc = None THEN chunks ELSE <<d_req[r].doc.object, 0>>)
      /\ UNCHANGED <<objects, twin, versions, vectors, triples, corpus, dirty, rebuild, extract, d_edits,
                     accepted, ops, d_crossed, d_failed>>
  BY DEF Store!FinishParse, Store!Ends, Store!Rest, Store!index, Finishes
<1>2. /\ doc' \in {None} \cup Store!Row /\ (doc' = None <=> doc = None)
      /\ doc # None => doc'.object = doc.object
      /\ doc # None /\ d_req[r].doc = doc => doc'.status = "parsed"
  BY <1>0, <1>1, MarkedRow DEF Store!DocStatus
<1>3. chunks' \in {None} \cup Store!Texts
  <2>1. d_req[r].doc.object \in Objects /\ 0 \in 0 .. MaxChunkEdits
    BY <1>0, <1>1, StoreTypes, StoreNames DEF StoreKinds, Asks, Finishes
  <2> QED
    BY <1>0, <1>1, <2>1, StoreTypes DEF Store!Texts
<1>4. Store!TypeOK'
  BY <1>0, <1>1, <1>2, <1>3, RequestEnds DEF StoreKinds, Store!TypeOK
<1>5. CopiesAgree'
  <2> SUFFICES ASSUME ~d_crossed, ~d_failed PROVE CopiesAgree'
    BY <1>1 DEF CopiesAgree
  <2>1. \A s \in Requests : d_req'[s] = None /\ (s # r => d_req[s] = None)
    BY <1>1, RequestEnds
  <2>2. doc # None => doc'.status = "parsed"
    BY <1>1, <1>2, RequestEnds DEF Faces
  <2>3. \A o \in objects' : Rooted(o)'
    BY <1>0, <1>1, <1>2, <2>1 DEF CopiesAgree, Rooted
  <2>4. Copied'
    BY <1>2, <2>2 DEF Copied
  <2> QED
    BY <1>0, <1>1, <1>2, <2>1, <2>3, <2>4 DEF CopiesAgree
<1> QED
  BY <1>1, <1>2, <1>4, <1>5, EndsPlainly DEF StoreInv

\* The new vectors are those of the text that was embedded.
LEMMA VectorizeEnds ==
  ASSUME StoreInv, NEW r \in Requests, Store!FinishVectorize(r)
  PROVE  StoreInv'
<1>0. StoreKinds /\ OneRequest /\ CopiesAgree
  BY DEF StoreInv
<1>1. /\ Finishes(r) /\ d_req[r].kind = "insert" /\ doc' = Store!Marked(d_req[r].doc, "vectorized")
      /\ vectors' = vectors \cup {d_req[r].text}
      /\ extract' \in {extract, Store!Due}
      /\ UNCHANGED <<objects, twin, versions, chunks, triples, corpus, rebuild, d_edits,
                     accepted, ops, d_crossed, d_failed>>
  BY DEF Store!FinishVectorize, Store!Ends, Store!Rest, Finishes
<1>2. /\ doc' \in {None} \cup Store!Row /\ (doc' = None <=> doc = None)
      /\ doc # None => doc'.object = doc.object
  BY <1>0, <1>1, MarkedRow DEF Store!DocStatus
<1>3. d_req[r].text \in Store!Texts /\ d_req[r].text # None /\ d_req[r].doc # None
  BY <1>0, <1>1, StoreTypes DEF StoreKinds, Asks, Finishes
<1>4. Store!TypeOK'
  BY <1>0, <1>1, <1>2, <1>3, RequestEnds DEF StoreKinds, Store!TypeOK
<1>5. ~d_crossed => Faces(d_req[r]) /\ doc # None
  BY <1>1, <1>3, RequestEnds DEF Faces
<1>6. CopiesAgree'
  <2> SUFFICES ASSUME ~d_crossed, ~d_failed PROVE CopiesAgree'
    BY <1>1 DEF CopiesAgree
  <2>1. \A s \in Requests : d_req'[s] = None /\ (s # r => d_req[s] = None)
    BY <1>1, RequestEnds
  <2>2. vectors' = {chunks'} /\ chunks' # None
    BY <1>0, <1>1, <1>3, <1>5 DEF Faces, CopiesAgree, Finishes
  <2>3. \A o \in objects' : Rooted(o)'
    BY <1>0, <1>1, <1>2, <2>1 DEF CopiesAgree, Rooted
  <2>4. Copied'
    BY <2>2 DEF Copied
  <2> QED
    BY <1>1, <1>2, <1>5, <2>1, <2>3, <2>4 DEF CopiesAgree
<1> QED
  BY <1>1, <1>2, <1>4, <1>5, <1>6, EndsPlainly DEF StoreInv

\* A request that breaks off is a failure.
LEMMA RequestBreaks ==
  ASSUME StoreInv, NEW r \in Requests, Store!BreakOff(r)
  PROVE  StoreInv'
<1>1. /\ Finishes(r) /\ d_failed'
      /\ UNCHANGED <<objects, doc, twin, versions, chunks, vectors, triples, corpus, dirty, rebuild, extract,
                     d_edits, accepted, ops, d_crossed>>
  BY DEF Store!BreakOff, Store!store, Store!index, Finishes
<1>2. Store!TypeOK'
  BY <1>1, RequestEnds DEF StoreInv, StoreKinds, Store!TypeOK
<1>3. CopiesAgree'
  BY <1>1 DEF CopiesAgree
<1> QED
  BY <1>1, <1>2, <1>3, EndsPlainly DEF StoreInv

\* What is archived gets the next number, and the row takes the object that was asked for.
LEMMA RowArchived ==
  ASSUME StoreInv, NEW r \in Requests, Finishes(r), UNCHANGED <<ops, d_edits, d_crossed, twin, extract, rebuild>>,
         d_req[r].kind \in {"upload", "rollback"}, d_req[r].doc # None, doc # None,
         versions' = versions \cup {Store!Archived(r)},
         doc' \in Store!Row, doc'.object = d_req[r].arg,
         accepted' = accepted \cup (IF d_req[r].kind = "upload" THEN {d_req[r].arg} ELSE {}),
         objects' \subseteq Objects, chunks' \in {None} \cup Store!Texts, corpus' \in {None} \cup Store!Texts,
         vectors' \subseteq Store!Texts, triples' \subseteq Store!Texts
  PROVE  /\ StoreKinds' /\ Counted' /\ OneRequest' /\ KeptVersions'
         /\ Store!NoVersionLost' /\ Store!VersionsNumbered'
<1>0. /\ StoreKinds /\ Counted /\ OneRequest /\ KeptVersions
      /\ Store!NoVersionLost /\ Store!VersionsNumbered
  BY DEF StoreInv
<1> DEFINE w == [version |-> d_req[r].last + 1, object |-> d_req[r].doc.object]
           n == Cardinality(versions)
<1>1. versions' = versions \cup {w} /\ w.version = d_req[r].last + 1 /\ w.object = d_req[r].doc.object
  BY DEF Store!Archived
<1>2. /\ d_req[r].last \in Nat /\ d_req[r].last < MaxOps /\ d_req[r].doc.object \in Objects
      /\ d_req[r].arg \in Objects
  BY <1>0, StoreTypes DEF StoreKinds, Asks, Finishes
<1>3. w \in [version : 1 .. MaxOps, object : Objects]
  <2>1. d_req[r].last + 1 \in 1 .. MaxOps
    BY <1>2, StoreNames
  <2> QED
    BY <1>2, <2>1
<1>4. IsFiniteSet(versions') /\ Cardinality(versions') \in Nat /\ Cardinality(versions') \in {n, n + 1}
      /\ (w \notin versions => Cardinality(versions') = n + 1)
  BY <1>0, <1>1, FS_AddElement, FS_CardinalityType DEF StoreKinds
<1>5. d_req' \in [Requests -> {None} \cup Store!Seen] /\ IsFiniteSet(Engaged)' /\ ops' \in 0 .. MaxOps
      /\ \A s \in Requests : d_req'[s] # None => Asks(d_req'[s])
  BY RequestEnds
<1>6. Store!TypeOK'
  BY <1>0, <1>1, <1>2, <1>3, <1>5 DEF StoreKinds, Store!TypeOK, Store!Due
<1>7. StoreKinds'
  BY <1>0, <1>4, <1>5, <1>6 DEF StoreKinds
<1>8. Counted'
  <2>1. Cardinality(Engaged)' \in Nat /\ n \in Nat /\ n + 1 + Cardinality(Engaged)' <= ops' /\ ops' \in Int
    BY <1>0, <1>5, RequestEnds, FS_CardinalityType, StoreTypes, StoreNames
  <2> QED
    BY <1>4, <2>1 DEF Counted
<1>9. ~d_crossed =>
        /\ d_req[r].doc = doc /\ d_req[r].last = n /\ ~twin /\ d_req[r].arg \in accepted'
        /\ \A s \in Requests : d_req'[s] = None
  BY RequestEnds DEF Faces
<1>10. OneRequest'
  BY <1>9, StoreNames DEF OneRequest
<1>11. ASSUME ~d_crossed
       PROVE  /\ w \notin versions /\ Cardinality(versions') = n + 1
              /\ \A v \in versions : v.version <= n /\ v.version \in Nat /\ v.object \in accepted
              /\ w.version = n + 1 /\ w.object = doc.object /\ n \in Nat /\ doc.object \in accepted
  <2>1. n \in Nat /\ \A v \in versions : v.version \in Nat
    BY <1>0, StoreTypes
  <2>2. \A v \in versions : v.version <= n /\ v.object \in accepted
    BY <1>0, <1>11 DEF KeptVersions
  <2>3. w.version = n + 1 /\ w.object = doc.object /\ doc.object \in accepted
    BY <1>0, <1>1, <1>9, <1>11 DEF KeptVersions
  <2>4. w \notin versions
    BY <2>1, <2>2, <2>3
  <2> QED
    BY <1>4, <2>1, <2>2, <2>3, <2>4
<1> HIDE DEF w, n
<1>12. KeptVersions'
  <2> SUFFICES ASSUME ~d_crossed PROVE KeptVersions'
    BY DEF KeptVersions
  <2>1. \A v \in versions' : v.object \in accepted' /\ v.version <= n + 1
    <3> TAKE v \in versions'
    <3>1. CASE v \in versions
      BY <1>11, <3>1
    <3>2. CASE v = w
      BY <1>11, <3>2
    <3> QED
      BY <1>1, <3>1, <3>2
  <2> QED
    BY <1>9, <1>11, <2>1 DEF KeptVersions
<1>13. Store!NoVersionLost'
  <2> SUFFICES ASSUME ~d_crossed PROVE Store!NoVersionLost'
    BY DEF Store!NoVersionLost
  <2>1. accepted \subseteq {doc.object} \cup {v.object : v \in versions}
    BY <1>0 DEF Store!NoVersionLost
  <2>2. accepted' \subseteq {doc'.object} \cup {v.object : v \in versions'}
    BY <1>1, <1>11, <2>1
  <2> QED
    BY <2>2 DEF Store!NoVersionLost
<1>14. Store!VersionsNumbered'
  <2> SUFFICES ASSUME ~d_crossed, NEW u \in versions', NEW v \in versions', u.version = v.version PROVE u = v
    BY DEF Store!VersionsNumbered
  <2>1. CASE u \in versions /\ v \in versions
    BY <1>0, <2>1 DEF Store!VersionsNumbered
  <2>2. CASE u = w \/ v = w
    <3>1. \A x \in versions : x.version # w.version
      BY <1>11
    <3> QED
      BY <1>1, <2>2, <3>1
  <2> QED
    BY <1>1, <2>1, <2>2
<1> QED
  BY <1>7, <1>8, <1>10, <1>12, <1>13, <1>14

\* An upload finds the name new, or known, or claimed by two rows.
LEMMA UploadEnds ==
  ASSUME StoreInv, NEW r \in Requests, Store!FinishUpload(r)
  PROVE  StoreInv'
<1>0. StoreKinds /\ OneRequest /\ KeptVersions /\ CopiesAgree
  BY DEF StoreInv
<1>1. /\ Finishes(r) /\ d_req[r].kind = "upload"
      /\ UNCHANGED <<objects, chunks, vectors, triples, corpus, dirty, rebuild, extract, d_edits,
                     ops, d_crossed, d_failed>>
  BY DEF Store!FinishUpload, Store!Ends, Store!Rest, Store!index, Finishes
<1>2. d_req[r].arg \in Objects /\ (~d_crossed => d_req[r].doc = doc /\ ~twin)
  BY <1>0, <1>1, RequestEnds DEF StoreKinds, Asks, Finishes, Faces
<1>3. ~d_crossed => \A s \in Requests : d_req'[s] = None /\ (s # r => d_req[s] = None)
  BY <1>1, RequestEnds
<1>4. CASE UNCHANGED <<doc, versions, accepted, twin>> /\ (d_crossed \/ twin)
  <2>1. Store!TypeOK'
    BY <1>0, <1>1, <1>4, RequestEnds DEF StoreKinds, Store!TypeOK
  <2>2. CopiesAgree'
    BY <1>1, <1>2, <1>4 DEF CopiesAgree
  <2> QED
    BY <1>1, <1>4, <2>1, <2>2, EndsPlainly DEF StoreInv
<1>5. CASE /\ ~twin /\ d_req[r].doc = None /\ UNCHANGED versions /\ twin' = (doc # None)
           /\ doc' = (IF doc = None THEN [object |-> d_req[r].arg, status |-> "pending"] ELSE doc)
           /\ accepted' = accepted \cup {d_req[r].arg}
  <2>1. [object |-> d_req[r].arg, status |-> "pending"] \in Store!Row
    BY <1>2 DEF Store!Row, Store!DocStatus
  <2>2. doc' \in {None} \cup Store!Row /\ doc' # None
    BY <1>0, <1>5, <2>1, StoreTypes, StoreNames
  <2>3. Store!TypeOK'
    BY <1>0, <1>1, <1>2, <1>5, <2>2, RequestEnds DEF StoreKinds, Store!TypeOK
  <2>4. StoreKinds'
    BY <1>0, <1>1, <1>5, <2>3, RequestEnds DEF StoreKinds
  <2>5. Counted'
    <3>1. /\ Cardinality(versions)' = Cardinality(versions) /\ Cardinality(versions) \in Nat
          /\ Cardinality(Engaged)' \in Nat /\ ops' \in Int
      BY <1>0, <1>1, <1>5, RequestEnds, StoreTypes, StoreNames, FS_CardinalityType
    <3> QED
      BY <1>1, <3>1, RequestEnds DEF Counted
  <2>6. ~d_crossed => doc = None /\ accepted = {} /\ versions = {} /\ ~twin'
    BY <1>0, <1>2, <1>5 DEF OneRequest
  <2>7. OneRequest' /\ KeptVersions' /\ Store!NoVersionLost' /\ Store!VersionsNumbered'
    BY <1>1, <1>3, <1>5, <2>1, <2>2, <2>6
       DEF OneRequest, KeptVersions, Store!NoVersionLost, Store!VersionsNumbered
  <2>8. CopiesAgree'
    <3> SUFFICES ASSUME ~d_crossed, ~d_failed PROVE CopiesAgree'
      BY <1>1 DEF CopiesAgree
    <3>1. doc' = [object |-> d_req[r].arg, status |-> "pending"]
      BY <1>5, <2>6
    <3>2. doc'.object = d_req[r].arg /\ doc'.status = "pending"
      BY <3>1
    <3>3. \A o \in objects' : Rooted(o)'
      BY <1>0, <1>1, <1>3, <2>2, <2>6, <3>2 DEF CopiesAgree, Rooted
    <3>4. Copied'
      BY <3>2 DEF Copied
    <3> QED
      BY <1>3, <2>2, <3>3, <3>4 DEF CopiesAgree
  <2> QED
    BY <2>4, <2>5, <2>7, <2>8 DEF StoreInv
<1>6. CASE /\ ~twin /\ d_req[r].doc # None /\ doc # None /\ UNCHANGED twin
           /\ versions' = versions \cup {Store!Archived(r)}
           /\ doc' = [Store!Marked(d_req[r].doc, "pending") EXCEPT !.object = d_req[r].arg]
           /\ accepted' = accepted \cup {d_req[r].arg}
  <2> DEFINE m == Store!Marked(d_req[r].doc, "pending")
  <2>1. m \in Store!Row /\ (d_req[r].doc = doc => m.status = "pending")
    BY <1>0, <1>6, MarkedRow DEF Store!DocStatus
  <2> HIDE DEF m
  <2>2. doc' \in Store!Row /\ doc'.object = d_req[r].arg /\ doc'.status = m.status
    <3>1. doc' = [m EXCEPT !.object = d_req[r].arg]
      BY <1>6 DEF m
    <3> QED
      BY <1>2, <2>1, <3>1 DEF Store!Row
  <2>3. /\ StoreKinds' /\ Counted' /\ OneRequest' /\ KeptVersions'
        /\ Store!NoVersionLost' /\ Store!VersionsNumbered'
    BY <1>0, <1>1, <1>6, <2>2, RowArchived DEF StoreKinds, Store!TypeOK
  <2>4. CopiesAgree'
    <3> SUFFICES ASSUME ~d_crossed, ~d_failed PROVE CopiesAgree'
      BY <1>1 DEF CopiesAgree
    <3>1. doc' # None /\ doc'.status = "pending" /\ d_req[r].doc = doc
      BY <1>2, <2>1, <2>2, StoreNames
    <3>2. \E v \in versions' : v.object = doc.object
      <4>1. Store!Archived(r) \in versions' /\ Store!Archived(r).object = d_req[r].doc.object
        BY <1>6 DEF Store!Archived
      <4> QED
        BY <3>1, <4>1
    <3>3. \A o \in objects' : Rooted(o)'
      BY <1>0, <1>1, <1>3, <1>6, <2>2, <3>1, <3>2 DEF CopiesAgree, Rooted
    <3>4. Copied'
      BY <3>1 DEF Copied
    <3> QED
      BY <1>3, <3>1, <3>3, <3>4 DEF CopiesAgree
  <2> QED
    BY <2>3, <2>4 DEF StoreInv
<1> QED
  BY <1>2, <1>4, <1>5, <1>6 DEF Store!FinishUpload

LEMMA RollbackEnds ==
  ASSUME StoreInv, NEW r \in Requests, Store!FinishRollback(r)
  PROVE  StoreInv'
<1>0. StoreKinds /\ OneRequest /\ KeptVersions /\ CopiesAgree
  BY DEF StoreInv
<1>1. /\ Finishes(r) /\ d_req[r].kind = "rollback"
      /\ \/ vectors' = {} /\ UNCHANGED d_failed
         \/ UNCHANGED vectors /\ d_failed'
      /\ UNCHANGED <<objects, twin, triples, corpus, dirty, rebuild, extract, ops, d_edits, accepted, d_crossed>>
  BY DEF Store!FinishRollback, Store!Ends, Store!DropVectors, Store!index, Finishes
<1>2. /\ d_req[r].arg \in Objects /\ d_req[r].doc # None
      /\ ~d_crossed => d_req[r].doc = doc
  BY <1>0, <1>1, RequestEnds DEF StoreKinds, Asks, Finishes, Faces
<1>3. ~d_crossed => \A s \in Requests : d_req'[s] = None /\ (s # r => d_req[s] = None)
  BY <1>1, RequestEnds
<1>4. CASE doc = None /\ UNCHANGED <<doc, versions, chunks>>
  <2>1. Store!TypeOK'
    BY <1>0, <1>1, <1>4, RequestEnds DEF StoreKinds, Store!TypeOK
  <2>2. CopiesAgree'
    BY <1>1, <1>2, <1>4 DEF CopiesAgree
  <2> QED
    BY <1>1, <1>4, <2>1, <2>2, EndsPlainly DEF StoreInv
<1>5. CASE /\ doc # None /\ versions' = versions \cup {Store!Archived(r)} /\ chunks' = None
           /\ doc' = [Store!Marked(d_req[r].doc, "pending") EXCEPT !.object = d_req[r].arg]
  <2> DEFINE m == Store!Marked(d_req[r].doc, "pending")
  <2>1. m \in Store!Row /\ (d_req[r].doc = doc => m.status = "pending")
    BY <1>0, <1>5, MarkedRow DEF Store!DocStatus
  <2> HIDE DEF m
  <2>2. doc' \in Store!Row /\ doc'.object = d_req[r].arg /\ doc'.status = m.status
    <3>1. doc' = [m EXCEPT !.object = d_req[r].arg]
      BY <1>5 DEF m
    <3> QED
      BY <1>2, <2>1, <3>1 DEF Store!Row
  <2>3. /\ StoreKinds' /\ Counted' /\ OneRequest' /\ KeptVersions'
        /\ Store!NoVersionLost' /\ Store!VersionsNumbered'
    BY <1>0, <1>1, <1>2, <1>5, <2>2, RowArchived DEF StoreKinds, Store!TypeOK
  <2>4. CopiesAgree'
    <3> SUFFICES ASSUME ~d_crossed, ~d_failed' PROVE CopiesAgree'
      BY <1>1 DEF CopiesAgree
    <3>1. doc' # None /\ doc'.status = "pending" /\ d_req[r].doc = doc /\ ~d_failed
      BY <1>1, <1>2, <2>1, <2>2, StoreNames
    <3>2. \E v \in versions' : v.object = doc.object
      <4>1. Store!Archived(r) \in versions' /\ Store!Archived(r).object = d_req[r].doc.object
        BY <1>5 DEF Store!Archived
      <4> QED
        BY <3>1, <4>1
    <3>3. \A o \in objects' : Rooted(o)'
      BY <1>0, <1>1, <1>3, <1>5, <3>1, <3>2 DEF CopiesAgree, Rooted
    <3>4. Copied'
      BY <3>1 DEF Copied
    <3> QED
      BY <1>3, <3>1, <3>3, <3>4 DEF CopiesAgree
  <2> QED
    BY <2>3, <2>4 DEF StoreInv
<1> QED
  BY <1>4, <1>5 DEF Store!FinishRollback

\* A deletion ends with the row, or where versions refer to it without.
LEMMA DeleteEnds ==
  ASSUME StoreInv, NEW r \in Requests, Store!FinishDelete(r)
  PROVE  StoreInv'
<1>0. StoreKinds /\ OneRequest /\ KeptVersions /\ CopiesAgree
  BY DEF StoreInv
<1>1. /\ Finishes(r) /\ d_req[r].kind = "delete"
      /\ UNCHANGED <<objects, twin, versions, vectors, corpus, rebuild, extract, ops, d_edits, d_crossed, d_failed>>
  BY DEF Store!FinishDelete, Store!Ends, Store!Rest, Finishes
<1>2. /\ d_req[r].doc # None
      /\ ~d_crossed => d_req[r].doc = doc /\ extract = None
  BY <1>0, <1>1, RequestEnds DEF StoreKinds, Asks, Finishes, Faces
<1>3. ~d_crossed => \A s \in Requests : d_req'[s] = None /\ (s # r => d_req[s] = None)
  BY <1>1, RequestEnds
<1>4. CASE UNCHANGED <<doc, chunks, triples, dirty, accepted>>
  <2>1. Store!TypeOK'
    BY <1>0, <1>1, <1>4, RequestEnds DEF StoreKinds, Store!TypeOK
  <2>2. CopiesAgree'
    <3> SUFFICES ASSUME ~d_crossed, ~d_failed PROVE CopiesAgree'
      BY <1>1 DEF CopiesAgree
    <3>1. doc.object \notin objects
      BY <1>0, <1>1 DEF CopiesAgree, Finishes
    <3>2. \A o \in objects' : Rooted(o)'
      BY <1>0, <1>1, <1>3, <1>4 DEF CopiesAgree, Rooted
    <3>3. Copied'
      BY <1>1, <1>4, <3>1 DEF Copied
    <3> QED
      BY <1>0, <1>1, <1>3, <1>4, <3>2, <3>3 DEF CopiesAgree
  <2> QED
    BY <1>1, <1>4, <2>1, <2>2, EndsPlainly DEF StoreInv
<1>5. CASE versions = {} /\ doc' = None /\ chunks' = None /\ triples' = {} /\ dirty' = TRUE /\ accepted' = {}
  <2>1. Store!TypeOK'
    BY <1>0, <1>1, <1>5, RequestEnds DEF StoreKinds, Store!TypeOK
  <2>2. StoreKinds'
    BY <1>0, <1>1, <2>1, RequestEnds DEF StoreKinds
  <2>3. Counted'
    <3>1. /\ Cardinality(versions)' = Cardinality(versions) /\ Cardinality(versions) \in Nat
          /\ Cardinality(Engaged)' \in Nat /\ ops' \in Int
      BY <1>0, <1>1, RequestEnds, StoreTypes, StoreNames, FS_CardinalityType
    <3> QED
      BY <1>1, <3>1, RequestEnds DEF Counted
  <2>4. OneRequest' /\ KeptVersions' /\ Store!NoVersionLost' /\ Store!VersionsNumbered'
    BY <1>0, <1>1, <1>2, <1>3, <1>5
       DEF OneRequest, KeptVersions, Store!NoVersionLost, Store!VersionsNumbered
  <2>5. CopiesAgree'
    <3> SUFFICES ASSUME ~d_crossed, ~d_failed PROVE CopiesAgree'
      BY <1>1 DEF CopiesAgree
    <3>1. vectors = {} /\ doc.object \notin objects
      BY <1>0, <1>1 DEF CopiesAgree, Finishes
    <3>2. objects = {}
      BY <1>0, <1>1, <1>3, <1>5, <3>1 DEF CopiesAgree, Rooted
    <3>3. Copied'
      BY <1>5 DEF Copied
    <3> QED
      BY <1>1, <1>3, <1>5, <3>1, <3>2, <3>3 DEF CopiesAgree
  <2> QED
    BY <2>2, <2>3, <2>4, <2>5 DEF StoreInv
<1> QED
  BY <1>4, <1>5 DEF Store!FinishDelete

\* The embedding has arrived: the old vectors go.
LEMMA OldVectorsCleared ==
  ASSUME StoreInv, NEW r \in Requests, Store!ClearVectors(r)
  PROVE  StoreInv'
<1>0. StoreKinds /\ Counted /\ OneRequest /\ KeptVersions /\ CopiesAgree
      /\ Store!NoVersionLost /\ Store!VersionsNumbered
  BY DEF StoreInv
<1>1. /\ d_req[r] # None /\ d_req[r].kind = "vectorize" /\ vectors' = {}
      /\ d_req' = [d_req EXCEPT ![r].kind = "insert"]
      /\ UNCHANGED <<objects, doc, twin, versions, chunks, triples, corpus, dirty, rebuild, extract,
                     d_edits, accepted, ops, d_crossed, d_failed>>
  BY DEF Store!ClearVectors, Store!Rest, Store!index
<1>2. PICK q \in Store!Seen :
        /\ d_req' = [d_req EXCEPT ![r] = q]
        /\ q.kind = "insert" /\ q.doc = d_req[r].doc /\ q.text = d_req[r].text
        /\ q.arg = d_req[r].arg /\ q.last = d_req[r].last
  <2>1. d_req[r] \in Store!Seen /\ "insert" \in Store!Ops
    BY <1>0, <1>1, StoreTypes DEF Store!Ops
  <2> DEFINE p == [d_req[r] EXCEPT !.kind = "insert"]
  <2>2. /\ p \in Store!Seen /\ p.kind = "insert" /\ p.doc = d_req[r].doc /\ p.text = d_req[r].text
        /\ p.arg = d_req[r].arg /\ p.last = d_req[r].last
    BY <2>1 DEF Store!Seen
  <2>3. d_req' = [d_req EXCEPT ![r] = p]
    BY <1>1
  <2> QED
    BY <2>2, <2>3
<1>3. q # None /\ Asks(q)
  BY <1>0, <1>1, <1>2, StoreNames DEF StoreKinds, Asks
<1>4. /\ d_req'[r] = q /\ \A s \in Requests : s # r => d_req'[s] = d_req[s]
      /\ d_req' \in [Requests -> {None} \cup Store!Seen]
  BY <1>0, <1>1, <1>2, StoreTypes
<1>5. Engaged' = Engaged
  BY <1>1, <1>3, <1>4 DEF Engaged
<1>6. Store!TypeOK'
  BY <1>0, <1>1, <1>4 DEF StoreKinds, Store!TypeOK
<1>7. StoreKinds' /\ Counted'
  <2>1. \A s \in Requests : d_req'[s] # None => Asks(d_req'[s])
    BY <1>0, <1>3, <1>4 DEF StoreKinds
  <2> QED
    BY <1>0, <1>1, <1>5, <1>6, <2>1 DEF StoreKinds, Counted
<1>8. OneRequest'
  <2> SUFFICES ASSUME ~d_crossed PROVE OneRequest'
    BY <1>1 DEF OneRequest
  <2>1. Faces(d_req[r]) /\ \A s \in Requests : s # r => d_req[s] = None
    BY <1>0, <1>1 DEF OneRequest
  <2>2. Faces(q)'
    BY <1>1, <1>2, <2>1 DEF Faces
  <2> QED
    BY <1>0, <1>1, <1>4, <2>1, <2>2 DEF OneRequest
<1>9. CopiesAgree'
  <2> SUFFICES ASSUME ~d_crossed, ~d_failed PROVE CopiesAgree'
    BY <1>1 DEF CopiesAgree
  <2>1. \A s \in Requests : s # r => d_req'[s] = None
    BY <1>0, <1>1, <1>4 DEF OneRequest
  <2>2. \A o \in objects' : Rooted(o)'
    BY <1>0, <1>1, <1>4 DEF CopiesAgree, Rooted
  <2>3. Copied'
    BY <1>3, <1>4 DEF Copied
  <2> QED
    BY <1>0, <1>1, <1>2, <1>4, <2>1, <2>2, <2>3 DEF CopiesAgree
<1>10. KeptVersions' /\ Store!NoVersionLost' /\ Store!VersionsNumbered'
  BY <1>0, <1>1 DEF KeptVersions, Store!NoVersionLost, Store!VersionsNumbered
<1> QED
  BY <1>7, <1>8, <1>9, <1>10 DEF StoreInv

\* What runs beside the requests: the extraction of triples, the rebuild of the index, or
\* nothing.
LEMMA BesideRequests ==
  ASSUME StoreInv,
         UNCHANGED <<objects, doc, twin, versions, chunks, vectors, d_req, ops, d_edits, accepted,
                     d_crossed, d_failed>>,
         Store!TypeOK',
         ~d_crossed /\ extract = None => extract' = None /\ triples' = triples
  PROVE  StoreInv'
<1>0. StoreKinds /\ Counted /\ OneRequest /\ KeptVersions /\ CopiesAgree
      /\ Store!NoVersionLost /\ Store!VersionsNumbered
  BY DEF StoreInv
<1>1. Engaged' = Engaged
  BY DEF Engaged
<1>2. StoreKinds' /\ Counted'
  BY <1>0, <1>1 DEF StoreKinds, Counted
<1>3. OneRequest'
  <2>1. ASSUME ~d_crossed, NEW r \in Requests, d_req[r] # None PROVE Faces(d_req[r])'
    BY <1>0, <2>1 DEF OneRequest, Faces
  <2> QED
    BY <1>0, <2>1 DEF OneRequest
<1>4. CopiesAgree'
  <2>1. ~d_crossed /\ doc = None => triples' = triples
    BY <1>0 DEF OneRequest
  <2> QED
    BY <1>0, <2>1 DEF CopiesAgree, Rooted, Copied
<1>5. KeptVersions' /\ Store!NoVersionLost' /\ Store!VersionsNumbered'
  BY <1>0 DEF KeptVersions, Store!NoVersionLost, Store!VersionsNumbered
<1> QED
  BY <1>2, <1>3, <1>4, <1>5 DEF StoreInv

LEMMA ExtractionRuns ==
  ASSUME StoreInv, Store!BeginExtract \/ Store!FinishExtract
  PROVE  StoreInv'
<1>0. StoreKinds
  BY DEF StoreInv
<1>1. UNCHANGED <<objects, doc, twin, versions, chunks, vectors, corpus, dirty, rebuild, d_req, ops,
                  d_edits, accepted, d_crossed, d_failed>>
  BY DEF Store!BeginExtract, Store!FinishExtract, Store!Rest, Store!store, Store!index
<1>2. CASE Store!BeginExtract
  <2>1. /\ extract = Store!Due /\ UNCHANGED triples
        /\ extract' = (IF doc = None \/ chunks = None THEN None ELSE [text |-> chunks])
    BY <1>2 DEF Store!BeginExtract, Store!store
  <2>2. extract' \in {None, Store!Due} \cup [text : Store!Texts]
    BY <1>0, <2>1, StoreTypes
  <2>3. Store!TypeOK'
    BY <1>0, <1>1, <2>1, <2>2 DEF StoreKinds, Store!TypeOK, Store!Due
  <2>4. extract # None
    <3>1. Store!Due # None
      BY StoreNames
    <3> QED
      BY <2>1, <3>1
  <2> QED
    BY <1>1, <2>3, <2>4, BesideRequests
<1>3. CASE Store!FinishExtract
  <2>1. extract \notin {None, Store!Due} /\ triples' = triples \cup {extract.text} /\ extract' = None
    BY <1>3 DEF Store!FinishExtract
  <2>2. extract.text \in Store!Texts
    BY <1>0, <2>1 DEF StoreKinds, Store!TypeOK
  <2>3. Store!TypeOK'
    BY <1>0, <1>1, <2>1, <2>2 DEF StoreKinds, Store!TypeOK
  <2> QED
    BY <1>1, <2>1, <2>3, BesideRequests
<1> QED
  BY <1>2, <1>3

LEMMA IndexRebuilt ==
  ASSUME StoreInv, Store!BeginRebuild \/ Store!FinishRebuild
  PROVE  StoreInv'
<1>0. StoreKinds
  BY DEF StoreInv
<1>1. UNCHANGED <<objects, doc, twin, versions, chunks, vectors, triples, extract, d_req, ops,
                  d_edits, accepted, d_crossed, d_failed>>
  BY DEF Store!BeginRebuild, Store!FinishRebuild, Store!Rest, Store!store
<1>2. /\ rebuild' \in {None} \cup {<<t>> : t \in {None} \cup Store!Texts}
      /\ corpus' \in {None} \cup Store!Texts
  <2>1. /\ rebuild \in {None} \cup {<<t>> : t \in {None} \cup Store!Texts}
        /\ corpus \in {None} \cup Store!Texts /\ chunks \in {None} \cup Store!Texts
    BY <1>0 DEF StoreKinds, Store!TypeOK
  <2>2. CASE Store!BeginRebuild
    BY <2>1, <2>2 DEF Store!BeginRebuild
  <2>3. CASE Store!FinishRebuild
    BY <2>1, <2>3 DEF Store!FinishRebuild
  <2> QED
    BY <2>2, <2>3
<1>3. Store!TypeOK'
  BY <1>0, <1>1, <1>2 DEF StoreKinds, Store!TypeOK
<1> QED
  BY <1>1, <1>3, BesideRequests

LEMMA StoreStays == StoreInv /\ [Store!Next]_store => StoreInv'
<1> SUFFICES ASSUME StoreInv, [Store!Next]_store PROVE StoreInv'
  OBVIOUS
<1>1. CASE UNCHANGED store
  <2>1. /\ UNCHANGED <<objects, doc, twin, versions, chunks, vectors, d_req, ops, d_edits, accepted,
                       d_crossed, d_failed>>
        /\ UNCHANGED <<triples, corpus, dirty, rebuild, extract>>
    BY <1>1 DEF store
  <2>2. Store!TypeOK'
    BY <2>1 DEF StoreInv, StoreKinds, Store!TypeOK
  <2> QED
    BY <2>1, <2>2, BesideRequests
<1>2. CASE \E r \in Requests :
             \/ \E o \in Objects : Store!BeginUpload(r, o)
             \/ \E v \in versions : Store!BeginRollback(r, v)
             \/ Store!BeginParse(r) \/ Store!BeginVectorize(r)
             \/ Store!EditChunk(r) \/ Store!BeginDelete(r)
  BY <1>2, UploadBegins, RollbackBegins, ParseBegins, ChunkEdited, DeleteBegins
<1>3. CASE \E r \in Requests :
             \/ Store!FinishUpload(r) \/ Store!FinishParse(r)
             \/ Store!ClearVectors(r) \/ Store!FinishVectorize(r)
             \/ Store!FinishRollback(r) \/ Store!FinishDelete(r) \/ Store!BreakOff(r)
  BY <1>3, UploadEnds, ParseEnds, OldVectorsCleared, VectorizeEnds, RollbackEnds, DeleteEnds, RequestBreaks
<1>4. CASE \/ Store!BeginExtract \/ Store!FinishExtract
           \/ Store!BeginRebuild \/ Store!FinishRebuild
  BY <1>4, ExtractionRuns, IndexRebuilt
<1> QED
  BY <1>1, <1>2, <1>3, <1>4 DEF Store!Next

\* Between requests the invariant says what is promised of the copies.
LEMMA StoreIsSound ==
  ASSUME StoreInv
  PROVE  Store!DocumentsSound
<1>1. Store!TypeOK /\ CopiesAgree
  BY DEF StoreInv, StoreKinds
<1>2. Store!VectorsMatchText
  <2> SUFFICES ASSUME ~d_crossed, ~d_failed, Store!Quiet, doc # None, doc.object \in objects,
                      doc.status = "vectorized"
               PROVE  chunks # None /\ vectors = {chunks}
    BY DEF Store!VectorsMatchText
  <2> QED
    BY <1>1 DEF CopiesAgree, Copied, Store!Quiet, Store!Busy
<1>3. Store!DeletedLeavesNothing
  <2> SUFFICES ASSUME ~d_crossed, ~d_failed, Store!Quiet, doc = None
               PROVE  objects = {} /\ vectors = {} /\ triples = {} /\ chunks = None
    BY DEF Store!DeletedLeavesNothing
  <2>1. versions = {} /\ \A r \in Requests : d_req[r] = None
    BY DEF StoreInv, OneRequest, Store!Quiet, Store!Busy
  <2>2. objects = {}
    BY <1>1, <2>1 DEF CopiesAgree, Rooted
  <2> QED
    BY <1>1, <2>2 DEF CopiesAgree
<1> QED
  BY <1>1, <1>2, <1>3 DEF StoreInv, Store!DocumentsSound

\* A behaviour about the documents takes only their steps.
LEMMA StoreFocus == focus = "store" /\ KnowledgeStep => focus' = "store" /\ [Store!Next]_store
BY DEF KnowledgeStep, KnowledgeNext, store

\* The store's part of DocumentsSound.  Whatever requests come one after the other and fail
\* where they may, every accepted upload is the current object or a numbered version; without
\* failures vectors follow the text and a deleted document leaves nothing (document_service).
THEOREM StoreStaysSound == KnowledgeSpec => [](focus = "store" => Store!DocumentsSound)
<1> DEFINE I == focus = "store" => StoreInv
<1>1. KnowledgeInit => I
  BY StoreBegins DEF KnowledgeInit
<1>2. I /\ KnowledgeStep => I'
  <2> SUFFICES ASSUME I, KnowledgeStep PROVE I'
    OBVIOUS
  <2>1. CASE focus = "store"
    BY <2>1, StoreFocus, StoreStays
  <2>2. CASE focus # "store"
    BY <2>2 DEF KnowledgeStep, KnowledgeNext
  <2> QED BY <2>1, <2>2
<1>3. I => (focus = "store" => Store!DocumentsSound)
  BY StoreIsSound
<1> QED BY <1>1, <1>2, <1>3, PTL DEF KnowledgeSpec, KnowledgeStep
=============================================================================
