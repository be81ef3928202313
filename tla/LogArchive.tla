----------------------------- MODULE LogArchive -----------------------------
(***************************************************************************)
(* Operation logs past their retention move from the table to a file named *)
(* after the second, by a daily loop and by administrators' requests.  The *)
(* file is written first, the rows are deleted after.                      *)
(***************************************************************************)
EXTENDS Naturals, FiniteSets

CONSTANTS
  Archivers,  \* the loop and the administrators
  Logs,
  MaxTime, MaxRuns,  \* bounds of an instance: seconds, runs of archive_old_logs
  None

ArchiveAssumption == MaxTime \in Nat

Seconds == 0 .. MaxTime

VARIABLES
  now,
  table,     \* logs in the table
  old,       \* logs past their retention
  file,      \* second -> None or the logs of the file of that name
  chosen,    \* archiver -> None or the rows its SELECT returned
  saved,     \* archiver -> whether those are in a file
  runs,
  clash,     \* history: two runs wrote the file of one second
  crossed    \* history: two runs overlapped or one broke off after its file

vars == <<now, table, old, file, chosen, saved, runs, clash, crossed>>

Init ==
  /\ now = 0 /\ table = {} /\ old = {}
  /\ file = [t \in Seconds |-> None]
  /\ chosen = [a \in Archivers |-> None]
  /\ saved = [a \in Archivers |-> FALSE]
  /\ runs = 0 /\ clash = FALSE /\ crossed = FALSE

Tick ==
  /\ now < MaxTime /\ now' = now + 1
  /\ UNCHANGED <<table, old, file, chosen, saved, runs, clash, crossed>>

Archived == UNION {file[t] : t \in {s \in Seconds : file[s] # None}}

(* write_log. *)
WriteLog(l) ==
  /\ l \notin table \cup old /\ table' = table \cup {l}
  /\ UNCHANGED <<now, old, file, chosen, saved, runs, clash, crossed>>

Age(l) ==
  /\ l \in table \ old /\ old' = old \cup {l}
  /\ UNCHANGED <<now, table, file, chosen, saved, runs, clash, crossed>>

(* archive_old_logs: nothing past its retention, nothing to do. *)
Select(a) ==
  /\ chosen[a] = None /\ runs < MaxRuns /\ runs' = runs + 1
  /\ table \cap old # {}
  /\ chosen' = [chosen EXCEPT ![a] = table \cap old]
  /\ crossed' = (crossed \/ \E b \in Archivers : chosen[b] # None)
  /\ UNCHANGED <<now, table, old, file, saved, clash>>

(* The file of this second, emptied first when there is one. *)
WriteFile(a) ==
  /\ chosen[a] # None /\ ~saved[a]
  /\ file' = [file EXCEPT ![now] = chosen[a]]
  /\ saved' = [saved EXCEPT ![a] = TRUE]
  /\ clash' = (clash \/ file[now] # None)
  /\ UNCHANGED <<now, table, old, chosen, runs, crossed>>

\* mutant
DeleteUnsaved(a) ==
  /\ chosen[a] # None
  /\ table' = table \ chosen[a]
  /\ chosen' = [chosen EXCEPT ![a] = None] /\ saved' = [saved EXCEPT ![a] = FALSE]
  /\ UNCHANGED <<now, old, file, runs, clash, crossed>>

Delete(a) ==
  /\ saved[a]
  /\ table' = table \ chosen[a]
  /\ chosen' = [chosen EXCEPT ![a] = None] /\ saved' = [saved EXCEPT ![a] = FALSE]
  /\ UNCHANGED <<now, old, file, runs, clash, crossed>>

(* An error or a crash: the transaction is rolled back, a file stays. *)
Fail(a) ==
  /\ chosen[a] # None
  /\ chosen' = [chosen EXCEPT ![a] = None] /\ saved' = [saved EXCEPT ![a] = FALSE]
  /\ crossed' = (crossed \/ saved[a])
  /\ UNCHANGED <<now, table, old, file, runs, clash>>

Next ==
  \/ Tick
  \/ \E l \in Logs : WriteLog(l) \/ Age(l)
  \/ \E a \in Archivers : Select(a) \/ WriteFile(a) \/ Delete(a) \/ Fail(a)

Spec == Init /\ [][Next]_vars

-----------------------------------------------------------------------------
(* Rows and files hold logs. *)
TypeOK ==
  /\ now \in Seconds /\ table \subseteq Logs /\ old \subseteq Logs
  /\ \A t \in Seconds : file[t] = None \/ file[t] \subseteq Logs
  /\ \A a \in Archivers : saved[a] => chosen[a] # None

(* A log that was written is in the table or in a file, whatever overlapped *)
(* or failed, unless two runs wrote within one second (the second one       *)
(* replaces the first one's file).                                          *)
NoLogLost == ~clash => old \subseteq table \cup Archived

(* A log is in one file at most, and not in the table besides, once no run  *)
(* is under way, unless runs overlapped or one broke off after its file.    *)
ArchivedOnce ==
  ~crossed /\ ~clash =>
    /\ \A s, t \in Seconds : s # t /\ file[s] # None /\ file[t] # None => file[s] \cap file[t] = {}
    /\ (\A a \in Archivers : chosen[a] = None) => table \cap Archived = {}

\* A log is in the table or in a file, and in one file only, unless two archivers met.
ArchiveSound == TypeOK /\ NoLogLost /\ ArchivedOnce
=============================================================================
