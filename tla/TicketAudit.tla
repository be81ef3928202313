----------------------------- MODULE TicketAudit -----------------------------
(***************************************************************************)
(* The audit a ticket goes through when it is submitted                    *)
(* (services/ticket_audit_service.py): its columns are written as lines    *)
(* (_build_ticket_text), the lines are parsed into sections again, rules   *)
(* and the model give items, the items cost points, and a score of at      *)
(* least 85 approves the ticket without a reviewer.                        *)
(*                                                                         *)
(* Of a line matters which column it comes from, the task first, which     *)
(* section it opens (a text of at most 14 characters that names a section  *)
(* is taken for its heading, the label and the task's line included), and  *)
(* what it says: the words the rules look for.                             *)
(* "dispatch" and "odd dispatch" stand for the number of a document         *)
(* somewhere in the line, "operator" for a name after such a label.        *)
(***************************************************************************)
EXTENDS Integers, Sequences, SequencesExt, FiniteSetsExt

CONSTANTS
  Tickets,    \* what is submitted: [task, lines], the task's line before the rest
  Opinions,   \* what the model may say: [countable, severities], none when it fails
  None        \* not submitted yet

VARIABLES
  ticket,     \* the ticket submitted, or None
  report      \* what its audit came to, or None

vars == <<ticket, report>>

-----------------------------------------------------------------------------
\* The rules of ticket_rules.json: one action must not come before another.
Orders == {[before |-> "ship", after |-> "check", severity |-> "critical"],
           [before |-> "load", after |-> "check", severity |-> "critical"],
           [before |-> "install", after |-> "accept", severity |-> "major"]}

\* mutant
ScanKeeping(parsed, line) ==
  LET here == IF line.opens # "none" THEN line.opens ELSE parsed.open IN
  IF here = "none" THEN parsed ELSE [parsed EXCEPT !.open = here, ![here] = Append(@, line)]

\* One line of the scan: a heading opens a section and is itself dropped; other lines
\* belong to the section that is open, or to none.
Scan(parsed, line) ==
  IF line.opens # "none" THEN [parsed EXCEPT !.open = line.opens]
  ELSE IF parsed.open = "none" THEN parsed
  ELSE [parsed EXCEPT ![parsed.open] = Append(@, line)]

\* The lines, and the fields found anywhere in them: a task that is empty takes
\* the text of the next line, if there is one.
Parse(t) ==
  FoldLeft(LAMBDA parsed, line : Scan(parsed, line),
          [open |-> "none", steps |-> <<>>, safety |-> <<>>, dangers |-> <<>>,
           task |-> t.task \/ Len(t.lines) > 1],
          t.lines)

Says(t, word) == \E i \in 1 .. Len(t.lines) : word \in t.lines[i].says

\* The first step that says the word, or none.
First(steps, word) ==
  {i \in 1 .. Len(steps) : /\ word \in steps[i].says
                           /\ \A j \in 1 .. i - 1 : word \notin steps[j].says}

OutOfOrder(steps, r) ==
  \E i \in First(steps, r.before), j \in First(steps, r.after) : i < j

\* The document number found is the first one in the text.
OddNumber(t) ==
  \E i \in 1 .. Len(t.lines) :
    /\ "odd dispatch" \in t.lines[i].says
    /\ \A j \in 1 .. i - 1 : "dispatch" \notin t.lines[j].says

Item(name, severity, holds) == IF holds THEN {[name |-> name, severity |-> severity]} ELSE {}

\* What the rules find: fields that are missing, steps in a wrong order, hazards without
\* a list of dangers, an odd number, forbidden wordings.
RuleItems(t, parsed) ==
  Item("task", "critical", ~parsed.task)
  \cup Item("dispatch", "major", ~Says(t, "dispatch") /\ ~Says(t, "odd dispatch"))
  \cup Item("operator", "major", ~Says(t, "operator"))
  \cup UNION {Item(r.before, r.severity, OutOfOrder(parsed.steps, r)) : r \in Orders}
  \cup Item("danger", "major", Says(t, "hazard") /\ parsed.dangers = <<>>)
  \cup Item("format", "minor", OddNumber(t))
  \cup Item("blocked", "major", Says(t, "blocked"))

\* _DEDUCT: a severity that is none of the three costs what a minor one does.
Deduct(severity) ==
  CASE severity = "critical" -> 35 [] severity = "major" -> 15 [] OTHER -> 5

\* The score: a hundred, less the points of the rules' items and of the model's.
Score(found, said) ==
  LET cost == MapThenSumSet(LAMBDA x : Deduct(x.severity), found)
              + FoldLeft(LAMBDA sum, x : sum + Deduct(x), 0, said) IN
  IF cost > 100 THEN 0 ELSE 100 - cost

\* A text with a task or a step; of another the model is not asked.
Recognised(t) == Parse(t).task \/ Parse(t).steps # <<>>

\* audit_ticket: nothing recognised ends it; a model that fails leaves the rules alone.
Audited(t, said) ==
  LET parsed == Parse(t) IN
  IF ~Recognised(t)
  THEN [found |-> Item("parse", "critical", TRUE), said |-> <<>>, score |-> 0]
  ELSE [found |-> RuleItems(t, parsed), said |-> said,
        score |-> Score(RuleItems(t, parsed), said)]

-----------------------------------------------------------------------------
Init == ticket = None /\ report = None

\* A draft is submitted with the columns it has.
Submit(t) == ticket = None /\ ticket' = t /\ UNCHANGED report

\* The audit of the submitted ticket; with an answer of the model that cannot be counted
\* it ends in an error, and the ticket waits for its reviewer without a report.
Audit(said) ==
  /\ ticket # None /\ report = None
  /\ LET a == Audited(ticket, said.severities) IN
       report' = IF Recognised(ticket) /\ ~said.countable THEN [lost |-> TRUE, approved |-> FALSE]
                 ELSE [lost |-> FALSE, approved |-> a.score >= 85, audit |-> a]
  /\ UNCHANGED ticket

Next == (\E t \in Tickets : Submit(t)) \/ (\E said \in Opinions : Audit(said))

Spec == Init /\ [][Next]_vars

-----------------------------------------------------------------------------
TypeOK ==
  /\ ticket \in Tickets \cup {None}
  /\ report # None => report.approved \in BOOLEAN /\ (~report.lost => report.audit.score \in 0 .. 100)

\* A section holds the lines that no heading is, whose last heading before them is that
\* of the section, in their order: parse_ticket said without its loop.
Under(t, label) ==
  LET Headings(i) == {j \in 1 .. i - 1 : t.lines[j].opens # "none"}
      Belongs(i) == /\ t.lines[i].opens = "none" /\ Headings(i) # {}
                    /\ t.lines[Max(Headings(i))].opens = label
      places == SelectSeq([i \in 1 .. Len(t.lines) |-> i], Belongs) IN
  [k \in 1 .. Len(places) |-> t.lines[places[k]]]

SectionsByHeadings ==
  ticket # None =>
    \A label \in {"steps", "safety", "dangers"} : Parse(ticket)[label] = Under(ticket, label)

\* What approves itself has no critical item and at most one that is major, whoever
\* found them, so it names a document or a person; a reviewer sees everything else.
Severities(a, s) ==
  Cardinality({x \in a.found : x.severity = s})
  + Cardinality({i \in 1 .. Len(a.said) : a.said[i] = s})

ApprovedIsClean ==
  report # None /\ report.approved =>
    /\ Severities(report.audit, "critical") = 0
    /\ Severities(report.audit, "major") <= 1
    /\ Says(ticket, "dispatch") \/ Says(ticket, "odd dispatch") \/ Says(ticket, "operator")

\* A ticket that speaks of a hazard, in whichever line, and lists no danger is told so,
\* unless its task is short and named after the dangers: then the lines up to the next
\* heading are taken for them.
HazardIsAsked ==
  report # None /\ ~report.lost /\ Says(ticket, "hazard") =>
    \/ \E i \in 1 .. Len(ticket.lines) : ticket.lines[i].of = "danger"
    \/ \E x \in report.audit.found : x.name = "danger"
    \/ ticket.lines[1].opens = "dangers"

\* The audit sees the lines under their headings, and approves only what is clean.
AuditSound == TypeOK /\ SectionsByHeadings /\ ApprovedIsClean /\ HazardIsAsked
=============================================================================
