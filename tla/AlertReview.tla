---------------------------- MODULE AlertReview ----------------------------
(***************************************************************************)
(* One row of alert_disposal in the hands of its reviewers: the four       *)
(* operations of services/alert_disposal_service.py behind                 *)
(* /system/alerts/disposals.  Each locks the row, checks its status and    *)
(* writes, so each is one step.  The row is shared: AlertDisposal adds the *)
(* task that fills it, ProactiveOps the runs whose alert it is.            *)
(***************************************************************************)
CONSTANTS
  Answers,   \* what the agent may answer; a ticket draft is named by its answer
  NoAnswer   \* the draft columns are empty

VARIABLES
  alert,         \* status, "absent" before the row is inserted
  alertDraft,    \* ticket_draft_json
  alertTickets   \* drafts of the tickets with source_ref alert-disposal:<id>

AlertStatuses ==
  {"absent", "pending", "proposed", "confirmed", "rejected", "ticketed", "closed"}

\* What a session leaves in a column it loaded and set: the unit of work
\* writes only what differs from the loaded value.
Flush(current, loaded, new) == IF new = loaded THEN current ELSE new

AlertTypeOK ==
  /\ alert \in AlertStatuses
  /\ alertDraft \in Answers \cup {NoAnswer}
  /\ alertTickets \in SUBSET (Answers \cup {NoAnswer})

\* create_ticket: the ticket of this source_ref is found, or made.
Ticketed(tickets, content) == IF tickets = {} THEN {content} ELSE tickets

\* confirm_disposal (no code writes the status disposed any more).
ConfirmDisposal ==
  /\ alert = "proposed"
  /\ alert' = "confirmed"
  /\ UNCHANGED <<alertDraft, alertTickets>>

RejectDisposal ==
  /\ alert \in {"proposed", "confirmed"}
  /\ alert' = "rejected"
  /\ UNCHANGED <<alertDraft, alertTickets>>

\* to_ticket
DisposalToTicket ==
  /\ alert = "confirmed"
  /\ alert' = "ticketed"
  /\ alertTickets' = Ticketed(alertTickets, alertDraft)
  /\ UNCHANGED alertDraft

CloseDisposal ==
  /\ alert \notin {"absent", "ticketed", "closed"}
  /\ alert' = "closed"
  /\ UNCHANGED <<alertDraft, alertTickets>>

Review == ConfirmDisposal \/ RejectDisposal \/ DisposalToTicket \/ CloseDisposal
=============================================================================
