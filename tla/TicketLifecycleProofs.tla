----------------------- MODULE TicketLifecycleProofs -----------------------
(***************************************************************************)
(* The invariants of TicketLifecycle for every set of requests.  What makes *)
(* them inductive is that a status is evidence of the steps before it, and *)
(* stays evidence in the hands of a request that has read it: the columns  *)
(* that bear it out are never cleared, even when the status goes back.     *)
(***************************************************************************)
EXTENDS TicketLifecycle, TLAPS

\* What a status tells of the ticket's past.
Evidence(st) ==
  /\ st = "reviewed" => approved /\ "reviewed_at" \in stamps
  /\ st = "issued" => "issued_at" \in stamps
  /\ st = "in_execution" => "executed_at" \in stamps
  /\ st = "completed" => "completed_at" \in stamps

\* A request between its read and its write has read a status it accepts.
ReadAccepted(s) == op[s] # "none" => loaded[s] \in Accepts(op[s])

IInv ==
  /\ TypeOK
  /\ NeverIssuedUnapproved
  /\ TimesInOrder
  /\ Evidence(status)
  /\ \A s \in Sessions : Evidence(loaded[s]) /\ ReadAccepted(s)

\* A write adds to the columns, and its status is the old one or the new one.
LEMMA WriteKeepsEvidence ==
  ASSUME NEW s \in Sessions, IInv, NEW new \in Statuses, NEW times \in SUBSET Stamps,
         Write(s, new, times), approved' \in BOOLEAN, approved => approved',
         new = "reviewed" => approved' /\ "reviewed_at" \in times,
         new = "issued" => "issued_at" \in times,
         new = "in_execution" => "executed_at" \in times,
         new = "completed" => "completed_at" \in times
  PROVE  /\ TypeOK'
         /\ Evidence(status)'
         /\ \A r \in Sessions : Evidence(loaded[r])' /\ ReadAccepted(r)'
<1>1. TypeOK'
  BY DEF IInv, TypeOK, Write, Leave
<1>2. Evidence(status)'
  BY DEF IInv, TypeOK, Write, Evidence
<1>3. ASSUME NEW r \in Sessions PROVE Evidence(loaded[r])' /\ ReadAccepted(r)'
  <2>1. CASE r = s
    BY <2>1, TicketAssumption DEF IInv, TypeOK, Write, Leave, Evidence, ReadAccepted, Statuses
  <2>2. CASE r # s
    <3>1. loaded'[r] = loaded[r] /\ op'[r] = op[r]
      BY <2>2 DEF IInv, TypeOK, Write, Leave
    <3>2. stamps \subseteq stamps'
      BY DEF Write
    <3> QED
      BY <3>1, <3>2 DEF IInv, Evidence, ReadAccepted
  <2> QED
    BY <2>1, <2>2
<1> QED
  BY <1>1, <1>2, <1>3

\* Every step keeps the invariant.
LEMMA StepKeeps ==
  ASSUME IInv, [Next]_vars
  PROVE  IInv'
<1> USE DEF IInv
<1>1. CASE Create
  BY <1>1 DEF Create, TypeOK, NeverIssuedUnapproved, TimesInOrder, Follows,
     Evidence, ReadAccepted, Statuses
<1>2. CASE Delete
  BY <1>2 DEF Delete, TypeOK, NeverIssuedUnapproved, TimesInOrder, Follows,
     Evidence, ReadAccepted
<1>3. ASSUME NEW s \in Sessions, NEW o \in Operations, Begin(s, o)
      PROVE  IInv'
  <2>1. TypeOK'
    BY <1>3 DEF Begin, TypeOK, rowVars
  <2>2. NeverIssuedUnapproved' /\ TimesInOrder' /\ Evidence(status)'
    BY <1>3 DEF Begin, rowVars, NeverIssuedUnapproved, TimesInOrder, Follows, Evidence
  <2>3. ASSUME NEW r \in Sessions PROVE Evidence(loaded[r])' /\ ReadAccepted(r)'
    <3>1. CASE r = s
      BY <1>3, <3>1 DEF Begin, rowVars, TypeOK, Evidence, ReadAccepted
    <3>2. CASE r # s
      <4>1. loaded'[r] = loaded[r] /\ op'[r] = op[r]
        BY <1>3, <3>2 DEF Begin, TypeOK
      <4> QED
        BY <4>1, <1>3 DEF Begin, rowVars, Evidence, ReadAccepted
    <3> QED
      BY <3>1, <3>2
  <2> QED
    BY <2>1, <2>2, <2>3
<1>4. ASSUME NEW s \in Sessions, Submit(s)
      PROVE  IInv'
  <2>1. CASE Write(s, "pending_review", {}) /\ UNCHANGED approved
    <3>1. approved' \in BOOLEAN /\ (approved => approved')
      BY <2>1 DEF TypeOK
    <3>2. "pending_review" \in Statuses /\ {} \in SUBSET Stamps
      BY DEF Statuses
    <3>3. /\ TypeOK' /\ Evidence(status)'
          /\ \A r \in Sessions : Evidence(loaded[r])' /\ ReadAccepted(r)'
      BY <2>1, <3>1, <3>2, WriteKeepsEvidence
    <3>4. NeverIssuedUnapproved' /\ TimesInOrder'
      BY <2>1 DEF Write, NeverIssuedUnapproved, TimesInOrder, Follows
    <3> QED
      BY <3>3, <3>4
  <2>2. CASE Write(s, "reviewed", {"reviewed_at"}) /\ approved' = TRUE
    <3>1. "reviewed" \in Statuses /\ {"reviewed_at"} \in SUBSET Stamps
      BY DEF Statuses, Stamps
    <3>2. /\ TypeOK' /\ Evidence(status)'
          /\ \A r \in Sessions : Evidence(loaded[r])' /\ ReadAccepted(r)'
      BY <2>2, <3>1, WriteKeepsEvidence
    <3>3. NeverIssuedUnapproved' /\ TimesInOrder'
      BY <2>2 DEF Write, NeverIssuedUnapproved, TimesInOrder, Follows
    <3> QED
      BY <3>2, <3>3
  <2> QED
    BY <1>4, <2>1, <2>2 DEF Submit
<1>5. ASSUME NEW s \in Sessions, Review(s)
      PROVE  IInv'
  <2>1. PICK new \in {"reviewed", "rejected"} :
          /\ Write(s, new, {"reviewed_at"})
          /\ approved' = IF new = "reviewed" THEN TRUE ELSE approved
    BY <1>5 DEF Review
  <2>2. new \in Statuses /\ {"reviewed_at"} \in SUBSET Stamps
    BY DEF Statuses, Stamps
  <2>3. /\ approved' \in BOOLEAN /\ (approved => approved')
        /\ new = "reviewed" => approved'
    BY <2>1 DEF TypeOK
  <2>4. /\ TypeOK' /\ Evidence(status)'
        /\ \A r \in Sessions : Evidence(loaded[r])' /\ ReadAccepted(r)'
    BY <2>1, <2>2, <2>3, WriteKeepsEvidence
  <2>5. NeverIssuedUnapproved' /\ TimesInOrder'
    BY <2>1, <2>3 DEF Write, NeverIssuedUnapproved, TimesInOrder, Follows
  <2> QED
    BY <2>4, <2>5
<1>6. ASSUME NEW s \in Sessions, Issue(s)
      PROVE  IInv'
  <2>1. Write(s, "issued", {"issued_at"}) /\ approved' = approved
    BY <1>6 DEF Issue, Advance
  <2>2. approved /\ "reviewed_at" \in stamps
    BY <1>6 DEF Issue, Advance, ReadAccepted, Accepts, Guards, Evidence
  <2>3. "issued" \in Statuses /\ {"issued_at"} \in SUBSET Stamps
    BY DEF Statuses, Stamps
  <2>4. /\ TypeOK' /\ Evidence(status)'
        /\ \A r \in Sessions : Evidence(loaded[r])' /\ ReadAccepted(r)'
    BY <2>1, <2>2, <2>3, WriteKeepsEvidence
  <2>5. NeverIssuedUnapproved' /\ TimesInOrder'
    BY <2>1, <2>2 DEF Write, NeverIssuedUnapproved, TimesInOrder, Follows
  <2> QED
    BY <2>4, <2>5
<1>7. ASSUME NEW s \in Sessions, Start(s)
      PROVE  IInv'
  <2>1. Write(s, "in_execution", {"executed_at"}) /\ approved' = approved
    BY <1>7 DEF Start, Advance
  <2>2. "issued_at" \in stamps
    BY <1>7 DEF Start, Advance, ReadAccepted, Accepts, Guards, Evidence
  <2>3. "in_execution" \in Statuses /\ {"executed_at"} \in SUBSET Stamps
    BY DEF Statuses, Stamps
  <2>4. /\ TypeOK' /\ Evidence(status)'
        /\ \A r \in Sessions : Evidence(loaded[r])' /\ ReadAccepted(r)'
    BY <2>1, <2>3, WriteKeepsEvidence DEF TypeOK
  <2>5. NeverIssuedUnapproved' /\ TimesInOrder'
    BY <2>1, <2>2 DEF Write, NeverIssuedUnapproved, TimesInOrder, Follows
  <2> QED
    BY <2>4, <2>5
<1>8. ASSUME NEW s \in Sessions, Complete(s)
      PROVE  IInv'
  <2>1. Write(s, "completed", {"completed_at"}) /\ approved' = approved
    BY <1>8 DEF Complete, Advance
  <2>2. "executed_at" \in stamps
    BY <1>8 DEF Complete, Advance, ReadAccepted, Accepts, Guards, Evidence
  <2>3. "completed" \in Statuses /\ {"completed_at"} \in SUBSET Stamps
    BY DEF Statuses, Stamps
  <2>4. /\ TypeOK' /\ Evidence(status)'
        /\ \A r \in Sessions : Evidence(loaded[r])' /\ ReadAccepted(r)'
    BY <2>1, <2>3, WriteKeepsEvidence DEF TypeOK
  <2>5. NeverIssuedUnapproved' /\ TimesInOrder'
    BY <2>1, <2>2 DEF Write, NeverIssuedUnapproved, TimesInOrder, Follows
  <2> QED
    BY <2>4, <2>5
<1>9. ASSUME NEW s \in Sessions, Archive(s)
      PROVE  IInv'
  <2>1. Write(s, "archived", {"archived_at"}) /\ approved' = approved
    BY <1>9 DEF Archive, Advance
  <2>2. "completed_at" \in stamps
    BY <1>9 DEF Archive, Advance, ReadAccepted, Accepts, Guards, Evidence
  <2>3. "archived" \in Statuses /\ {"archived_at"} \in SUBSET Stamps
    BY DEF Statuses, Stamps
  <2>4. /\ TypeOK' /\ Evidence(status)'
        /\ \A r \in Sessions : Evidence(loaded[r])' /\ ReadAccepted(r)'
    BY <2>1, <2>3, WriteKeepsEvidence DEF TypeOK
  <2>5. NeverIssuedUnapproved' /\ TimesInOrder'
    BY <2>1, <2>2 DEF Write, NeverIssuedUnapproved, TimesInOrder, Follows
  <2> QED
    BY <2>4, <2>5
<1>10. ASSUME NEW s \in Sessions, Abort(s)
       PROVE  IInv'
  <2>1. TypeOK' /\ NeverIssuedUnapproved' /\ TimesInOrder' /\ Evidence(status)'
    BY <1>10 DEF Abort, Leave, rowVars, TypeOK, NeverIssuedUnapproved, TimesInOrder,
       Follows, Evidence
  <2>2. ASSUME NEW r \in Sessions PROVE Evidence(loaded[r])' /\ ReadAccepted(r)'
    BY <1>10, TicketAssumption
       DEF Abort, Leave, rowVars, TypeOK, Evidence, ReadAccepted, Statuses
  <2> QED
    BY <2>1, <2>2
<1>11. CASE UNCHANGED vars
  BY <1>11 DEF vars, rowVars, TypeOK, NeverIssuedUnapproved, TimesInOrder, Follows,
     Evidence, ReadAccepted
<1> QED
  BY <1>1, <1>2, <1>3, <1>4, <1>5, <1>6, <1>7, <1>8, <1>9, <1>10, <1>11 DEF Next

LEMMA Invariance == Spec => []IInv
<1>1. Init => IInv
  BY TicketAssumption DEF Init, IInv, TypeOK, NeverIssuedUnapproved, TimesInOrder,
     Follows, Evidence, ReadAccepted, Statuses
<1>2. IInv /\ [Next]_vars => IInv'
  BY StepKeeps
<1> QED
  BY <1>1, <1>2, PTL DEF Spec

\* However many requests overlap, the columns keep their kinds.
THEOREM TypeCorrect == Spec => []TypeOK
<1>1. IInv => TypeOK
  BY DEF IInv
<1> QED
  BY <1>1, Invariance, PTL

\* However many requests overlap, issue_ticket issues nothing that was never
\* approved.
THEOREM IssuesApproved == Spec => []NeverIssuedUnapproved
<1>1. IInv => NeverIssuedUnapproved
  BY DEF IInv
<1> QED
  BY <1>1, Invariance, PTL

\* However many requests overlap, the life cycle is recorded in its order.
THEOREM LifeCycleOrdered == Spec => []TimesInOrder
<1>1. IInv => TimesInOrder
  BY DEF IInv
<1> QED
  BY <1>1, Invariance, PTL

\* However many requests overlap, a ticket lives its life in order.
THEOREM TicketsStaySound == Spec => []TicketsSound
<1>1. IInv => TicketsSound
  BY DEF IInv, TicketsSound
<1> QED
  BY <1>1, Invariance, PTL
=============================================================================
