----------------------------- MODULE BizCenter -----------------------------
(***************************************************************************)
(* The business centre's risk ledger and its jobs.  Every page synchronises*)
(* the ledger with the alerts first; people urge, move and close risks at  *)
(* the same time.  A request reads rows, and writes the columns it changed *)
(* when it commits.                                                        *)
(***************************************************************************)
EXTENDS Naturals, FiniteSets

CONSTANTS
  Alerts,      \* sources of risks
  Requests,
  MaxUrges, MaxMoves, MaxRuns,  \* bounds of an instance
  None

Statuses == {"discovered", "analyzing", "rectifying", "closed"}

Rows == [status : Statuses, closedAt : BOOLEAN, urges : Nat]
Urges == [op : {"urge"}, on : Alerts, urges : Nat, to : {"analyzing", None}]

LedgerAssumption == MaxUrges \in Nat /\ None \notin Rows /\ None \notin Urges

VARIABLES
  alert,   \* alert -> status of its disposal
  risk,    \* alert -> None or [status, closedAt, urges]; the ledger
  req,     \* request -> None or what it read and is about to write
  job,     \* last_status of the scheduled job: "", "succeeded", "failed"
  moves, runs, asked, byHand, crossed, met, lost, outcome  \* history; met: runs of
           \* the job overlapped

vars == <<alert, risk, req, job, moves, runs, asked, byHand, crossed, met, lost, outcome>>

Init ==
  /\ alert = [a \in Alerts |-> "pending"]
  /\ risk = [a \in Alerts |-> None]
  /\ req = [r \in Requests |-> None]
  /\ job = "" /\ moves = 0 /\ runs = 0
  /\ asked = [a \in Alerts |-> 0] /\ byHand = {}
  /\ crossed = FALSE /\ met = FALSE /\ lost = FALSE /\ outcome = ""

Open(a) == risk[a] # None /\ risk[a].status # "closed"

(* The disposal of an alert goes on. *)
Progress(a) ==
  /\ alert' = [alert EXCEPT ![a] = CASE @ = "pending" -> "confirmed" [] OTHER -> "closed"]
  /\ alert[a] # "closed"
  /\ UNCHANGED <<risk, req, job, moves, runs, asked, byHand, crossed, met, lost, outcome>>

Begin(r, what) ==
  /\ req[r] = None
  /\ req' = [req EXCEPT ![r] = what]
  /\ crossed' = (crossed \/ \E k \in Requests : req[k] # None)

\* mutant
SyncedReopening(a) ==
  LET was == IF risk[a] = None \/ risk[a].status = "closed" THEN "discovered" ELSE risk[a].status
      is == CASE alert[a] = "closed" -> "closed"
              [] alert[a] = "confirmed" /\ was = "discovered" -> "analyzing"
              [] OTHER -> was
  IN  IF risk[a] # None /\ is = risk[a].status THEN None ELSE is

(* sync_risks_from_sources: what a source's row shall be, None where it     *)
(* stays as it is.  A row that is closed is left alone.                     *)
Synced(a) ==
  LET was == IF risk[a] = None THEN "discovered" ELSE risk[a].status
      is == CASE alert[a] = "closed" -> "closed"
              [] alert[a] = "confirmed" /\ was = "discovered" -> "analyzing"
              [] OTHER -> was
  IN  IF risk[a] # None /\ is = was THEN None ELSE is

Running(k) == req[k] # None /\ req[k].op = "sync" /\ req[k].job

(* A page, or run_job with job_type risk_scan, which reads the job's row.   *)
BeginSync(r, byJob) ==
  /\ runs < MaxRuns /\ runs' = runs + 1
  /\ Begin(r, [op |-> "sync", job |-> byJob, found |-> job, to |-> [a \in Alerts |-> Synced(a)],
               fresh |-> {a \in Alerts : risk[a] = None}])
  /\ met' = (met \/ \E k \in Requests : byJob /\ Running(k))
  /\ UNCHANGED <<alert, risk, job, moves, asked, byHand, lost, outcome>>

Written(row, to) ==
  [status |-> to, closedAt |-> (to = "closed" \/ (row # None /\ row.closedAt)),
   urges |-> IF row = None THEN 0 ELSE row.urges]

\* mutant
NotedFirst(q, status) == IF q.job /\ q.found = "" THEN status ELSE job

(* The status is written where it is another than the one that was read.    *)
Noted(q, status) == IF q.job /\ q.found # status THEN status ELSE job

(* A row another sync inserted meanwhile violates uq_biz_risk_source: the   *)
(* page fails, nothing is written; run_job's attempt to note "failed" fails *)
(* too, the session wants a rollback first.                                 *)
EndSync(r) ==
  LET q == req[r] IN
  /\ req[r] # None /\ q.op = "sync"
  /\ IF \E a \in q.fresh : risk[a] # None
     THEN /\ lost' = TRUE /\ outcome' = IF q.job THEN "failed" ELSE outcome
          /\ UNCHANGED <<risk, job>>
     ELSE /\ risk' = [a \in Alerts |-> IF q.to[a] = None THEN risk[a]
                                       ELSE Written(risk[a], q.to[a])]
          /\ job' = Noted(q, "succeeded")
          /\ outcome' = IF q.job THEN "succeeded" ELSE outcome
          /\ UNCHANGED lost
  /\ req' = [req EXCEPT ![r] = None]
  /\ UNCHANGED <<alert, moves, runs, asked, byHand, crossed, met>>

(* An error of any other kind is noted by run_job. *)
FailSync(r) ==
  /\ req[r] # None /\ req[r].op = "sync"
  /\ req' = [req EXCEPT ![r] = None]
  /\ job' = Noted(req[r], "failed")
  /\ outcome' = IF req[r].job THEN "failed" ELSE outcome
  /\ UNCHANGED <<alert, risk, moves, runs, asked, byHand, crossed, met, lost>>

(* urge_risk: refused once closed; the count that was read goes up by one,  *)
(* and what was discovered is now analysed.                                 *)
BeginUrge(r, a) ==
  /\ Open(a) /\ asked[a] < MaxUrges
  /\ Begin(r, [op |-> "urge", on |-> a, urges |-> risk[a].urges + 1,
               to |-> IF risk[a].status = "discovered" THEN "analyzing" ELSE None])
  /\ asked' = [asked EXCEPT ![a] = @ + 1]
  /\ UNCHANGED <<alert, risk, job, moves, runs, byHand, met, lost, outcome>>

EndUrge(r) ==
  LET q == req[r]
      row == risk[q.on] IN
  /\ req[r] # None /\ q.op = "urge"
  /\ risk' = [risk EXCEPT ![q.on] =
       [row EXCEPT !.urges = q.urges, !.status = IF q.to = None THEN @ ELSE q.to]]
  /\ req' = [req EXCEPT ![r] = None]
  /\ UNCHANGED <<alert, job, moves, runs, asked, byHand, crossed, met, lost, outcome>>

(* update_risk: a person sets any other status; closing writes closed_at.   *)
BeginMove(r, a, to) ==
  /\ risk[a] # None /\ risk[a].status # to /\ moves < MaxMoves /\ moves' = moves + 1
  /\ Begin(r, [op |-> "move", on |-> a, to |-> to])
  /\ UNCHANGED <<alert, risk, job, runs, asked, byHand, met, lost, outcome>>

EndMove(r) ==
  LET q == req[r] IN
  /\ req[r] # None /\ q.op = "move"
  /\ risk' = [risk EXCEPT ![q.on] = Written(@, q.to)]
  /\ byHand' = IF q.to = "closed" THEN byHand \cup {q.on} ELSE byHand \ {q.on}
  /\ req' = [req EXCEPT ![r] = None]
  /\ UNCHANGED <<alert, job, moves, runs, asked, crossed, met, lost, outcome>>

Next ==
  \/ \E a \in Alerts : Progress(a)
  \/ \E r \in Requests :
       \/ \E byJob \in BOOLEAN : BeginSync(r, byJob)
       \/ EndSync(r) \/ FailSync(r)
       \/ \E a \in Alerts : BeginUrge(r, a) \/ \E to \in Statuses : BeginMove(r, a, to)
       \/ EndUrge(r) \/ EndMove(r)

Spec == Init /\ [][Next]_vars

-----------------------------------------------------------------------------
(* Rows and columns hold values of their kinds. *)
TypeOK ==
  /\ alert \in [Alerts -> {"pending", "confirmed", "closed"}]
  /\ \A a \in Alerts : risk[a] # None =>
       risk[a] \in [status : Statuses, closedAt : BOOLEAN, urges : 0 .. MaxUrges]
  /\ job \in {"", "succeeded", "failed"}

(* A closed risk says when, whoever closed it and whatever overlapped.      *)
ClosedHasTime == \A a \in Alerts : risk[a] # None /\ risk[a].status = "closed" => risk[a].closedAt

(* What a person closed stays closed until a person opens it again, unless  *)
(* requests overlapped (an urge or a sync writes the status it decided on). *)
ClosedByHandStays == ~crossed => \A a \in byHand : risk[a].status = "closed"

(* Every urge that was accepted is counted, unless requests overlapped.     *)
UrgesCounted ==
  ~crossed => \A a \in Alerts : risk[a] # None =>
    risk[a].urges = asked[a] - Cardinality({r \in Requests :
                                req[r] # None /\ req[r].op = "urge" /\ req[r].on = a})

(* The job shows the outcome of its last run, unless a run lost the race    *)
(* for a row, or two of its runs overlapped: then one may leave out what it *)
(* had read, and the other's status stays (run_job).                        *)
JobTellsOutcome == ~lost /\ ~met => job = outcome

\* The risk ledger keeps what people did in it: closing, its time, every urge, and the
\* outcome of each job.
LedgerSound ==
  TypeOK /\ ClosedHasTime /\ ClosedByHandStays /\ UrgesCounted /\ JobTellsOutcome
=============================================================================
