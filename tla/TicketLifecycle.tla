--------------------------- MODULE TicketLifecycle ---------------------------
(***************************************************************************)
(* One ticket, from services/ticket_lifecycle_service.py.  An operation    *)
(* reads the row without a lock, checks its status and writes; a           *)
(* submission waits for the audit in between.  So operations of several    *)
(* requests overlap, and a write may come after another has changed the    *)
(* status it was checked against.                                          *)
(***************************************************************************)
CONSTANTS
  Sessions,   \* requests at work on the ticket
  Absent      \* not a status: the ticket has not been created

VARIABLES
  status,
  deleted,    \* is_deleted
  stamps,     \* those of reviewed_at, ... archived_at that are set
  approved,   \* history: the audit or a reviewer has approved the ticket
  op, loaded  \* each request: its operation, the status it has read

rowVars == <<status, deleted, stamps>>
vars == <<rowVars, approved, op, loaded>>

Statuses == {"draft", "pending_review", "reviewed", "issued", "in_execution",
             "completed", "archived", "rejected"}
Stamps == {"reviewed_at", "issued_at", "executed_at", "completed_at", "archived_at"}
Operations == {"submit", "review", "issue", "start", "complete", "archive"}

ASSUME TicketAssumption == Absent \notin Statuses

\* The statuses an operation accepts.
Guards == [submit   |-> {"draft"},
           review   |-> {"pending_review", "reviewed"},
           issue    |-> {"reviewed"},
           start    |-> {"issued"},
           complete |-> {"in_execution"},
           archive  |-> {"completed"}]
AcceptsUnreviewed(o) == IF o = "issue" THEN Guards["review"] ELSE Guards[o]   \* mutant
Accepts(o) == Guards[o]

Init ==
  /\ status = Absent /\ deleted = FALSE /\ stamps = {} /\ approved = FALSE
  /\ op = [s \in Sessions |-> "none"]
  /\ loaded = [s \in Sessions |-> Absent]

\* create_ticket
Create ==
  /\ status = Absent
  /\ status' = "draft"
  /\ UNCHANGED <<deleted, stamps, approved, op, loaded>>

\* The read of an operation and its checks.
Begin(s, o) ==
  /\ op[s] = "none"
  /\ ~deleted /\ status \in Accepts(o)
  /\ op' = [op EXCEPT ![s] = o]
  /\ loaded' = [loaded EXCEPT ![s] = status]
  /\ UNCHANGED <<rowVars, approved>>

Leave(s) ==
  /\ op' = [op EXCEPT ![s] = "none"]
  /\ loaded' = [loaded EXCEPT ![s] = Absent]

\* The write: the status if it differs from the one read, the time if set.
Write(s, new, times) ==
  /\ status' = IF new = loaded[s] THEN status ELSE new
  /\ stamps' = stamps \cup times
  /\ UNCHANGED deleted
  /\ Leave(s)

\* submit_for_review: the audit fails or scores low, or approves.
Submit(s) ==
  /\ op[s] = "submit"
  /\ \/ Write(s, "pending_review", {}) /\ UNCHANGED approved
     \/ Write(s, "reviewed", {"reviewed_at"}) /\ approved' = TRUE

\* review_ticket
Review(s) ==
  /\ op[s] = "review"
  /\ \/ Write(s, "reviewed", {"reviewed_at"}) /\ approved' = TRUE
     \/ Write(s, "rejected", {"reviewed_at"}) /\ UNCHANGED approved

\* issue_ticket, start_execution, complete_execution, archive_ticket
Advance(s, o, new, time) ==
  /\ op[s] = o
  /\ Write(s, new, {time})
  /\ UNCHANGED approved

Issue(s) == Advance(s, "issue", "issued", "issued_at")
Start(s) == Advance(s, "start", "in_execution", "executed_at")
Complete(s) == Advance(s, "complete", "completed", "completed_at")
Archive(s) == Advance(s, "archive", "archived", "archived_at")

\* The request is cancelled, or its commit fails.
Abort(s) ==
  /\ op[s] # "none"
  /\ Leave(s)
  /\ UNCHANGED <<rowVars, approved>>

\* delete_ticket; nothing sets the column back, so its read and its write are
\* one step.
Delete ==
  /\ status # Absent /\ ~deleted
  /\ deleted' = TRUE
  /\ UNCHANGED <<status, stamps, approved, op, loaded>>

Next ==
  \/ Create \/ Delete
  \/ \E s \in Sessions :
       \/ \E o \in Operations : Begin(s, o)
       \/ Submit(s) \/ Review(s)
       \/ Issue(s) \/ Start(s) \/ Complete(s) \/ Archive(s)
       \/ Abort(s)

Spec == Init /\ [][Next]_vars

-----------------------------------------------------------------------------
(* Properties. *)

\* Every column and every request is of its kind.
TypeOK ==
  /\ status \in Statuses \cup {Absent}
  /\ deleted \in BOOLEAN /\ approved \in BOOLEAN
  /\ stamps \in SUBSET Stamps
  /\ op \in [Sessions -> Operations \cup {"none"}]
  /\ loaded \in [Sessions -> Statuses \cup {Absent}]

\* Nothing is issued, and so nothing carried out, that neither the audit nor a
\* reviewer has ever approved, in whatever order the requests write.  (An
\* approval may be withdrawn between the check of issue_ticket and its write:
\* the ticket is then issued although rejected.)
NeverIssuedUnapproved == "issued_at" \in stamps => approved

\* The time columns fill in the order of the life cycle, although overlapping
\* requests may take the status back: no step is recorded whose predecessor
\* has not taken place.
Follows(later, earlier) == later \in stamps => earlier \in stamps
TimesInOrder ==
  /\ Follows("issued_at", "reviewed_at")
  /\ Follows("executed_at", "issued_at")
  /\ Follows("completed_at", "executed_at")
  /\ Follows("archived_at", "completed_at")

\* Tickets go through their life in its order, and none is issued unapproved.
TicketsSound == TypeOK /\ NeverIssuedUnapproved /\ TimesInOrder
=============================================================================
