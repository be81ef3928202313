-------------------------- MODULE OperationsProofs --------------------------
(***************************************************************************)
(* The services behind operations, for every set of executions, alerts,    *)
(* keys, batches and logs, and for every bound.                            *)
(*                                                                         *)
(* Each part has an inductive invariant of its own: what it promises,      *)
(* joined with what its requests under way still know about the rows when  *)
(* they come to write.  A behaviour of OperationsSpec is about one part at *)
(* a time, so each theorem is about the behaviours with its focus.         *)
(***************************************************************************)
EXTENDS MCOperations, FiniteSetTheorems, TLAPS

OperationsStep == [OperationsNext]_<<focus, vars, parts>>

-----------------------------------------------------------------------------
(* Records with an idempotency key.                                         *)

Row == [id : Nat, key : Keys, by : Executions]

\* A call under way: its row is not numbered yet by another, and its snapshot is part of
\* what is committed.
Calling == [phase : {"look", "insert", "flushed", "again"}, key : Keys, commit : BOOLEAN,
            seen : SUBSET Row, id : Nat]
CallOK(c) == call[c] # None => call[c] \in Calling /\ call[c].id < calls /\ call[c].seen \subseteq rows

\* Who has flushed a key is alone with it, and its row is not there yet.
FlushedAlone(c) ==
  Records!Doing(c, "flushed") =>
    /\ \A r \in rows : r.key # call[c].key
    /\ \A d \in Executions \ {c} : ~Records!Holds(d, call[c].key)

\* A refused call lost to a row that is there, and a key it shares is known to be shared.
KnowsRaces(c) ==
  call[c] # None =>
    /\ \A r \in rows : r.key = call[c].key /\ r \notin call[c].seen => call[c].key \in r_raced
    /\ \A d \in Executions \ {c} :
         call[d] # None /\ call[d].key = call[c].key => call[c].key \in r_raced
    /\ call[c].phase = "again" => \E r \in rows : r.key = call[c].key

RecordsInv ==
  /\ calls \in Nat /\ rows \subseteq Row /\ \A r \in rows : r.id < calls
  /\ DOMAIN call = Executions /\ DOMAIN answer = Executions
  /\ \A c \in Executions : CallOK(c) /\ FlushedAlone(c) /\ KnowsRaces(c)
  /\ Records!OneRecordPerKey
  /\ Records!AnswerIsStored

\* No call is under way yet.
LEMMA RecordsInit == Records!Init => RecordsInv
BY DEF Records!Init, RecordsInv, CallOK, FlushedAlone, KnowsRaces, Records!Doing,
       Records!OneRecordPerKey, Records!AnswerIsStored

\* Every step of a call keeps the records in order.
LEMMA RecordsStep == RecordsInv /\ [Records!Next]_records => RecordsInv'
<1> SUFFICES ASSUME RecordsInv, [Records!Next]_records PROVE RecordsInv'
  OBVIOUS
<1> USE DEF RecordsInv, CallOK, Calling, Row
<1>0. CASE UNCHANGED records
  BY <1>0 DEF records, FlushedAlone, KnowsRaces, Records!Doing, Records!Holds,
     Records!OneRecordPerKey, Records!AnswerIsStored
<1>1. ASSUME NEW c \in Executions, NEW key \in Keys, NEW own \in BOOLEAN,
             Records!Begin(c, key, own)
      PROVE  RecordsInv'
  BY <1>1 DEF Records!Begin, FlushedAlone, KnowsRaces, Records!Doing, Records!Holds,
     Records!OneRecordPerKey, Records!AnswerIsStored
<1>2. ASSUME NEW c \in Executions, Records!Look(c)
      PROVE  RecordsInv'
  BY <1>2 DEF Records!Look, Records!Return, Records!Of, FlushedAlone, KnowsRaces, Records!Doing,
     Records!Holds,
     Records!OneRecordPerKey, Records!AnswerIsStored
<1>3. ASSUME NEW c \in Executions, Records!Insert(c)
      PROVE  RecordsInv'
  BY <1>3 DEF Records!Insert, Records!Refused, Records!Of, FlushedAlone, KnowsRaces, Records!Doing,
     Records!Holds,
     Records!OneRecordPerKey, Records!AnswerIsStored
<1>4. ASSUME NEW c \in Executions, Records!Commit(c)
      PROVE  RecordsInv'
  BY <1>4 DEF Records!Commit, Records!Return, FlushedAlone, KnowsRaces, Records!Doing,
     Records!Holds,
     Records!OneRecordPerKey, Records!AnswerIsStored
<1>5. ASSUME NEW c \in Executions, Records!LookAgain(c)
      PROVE  RecordsInv'
  BY <1>5 DEF Records!LookAgain, Records!Return, Records!Of, FlushedAlone, KnowsRaces,
     Records!Doing, Records!Holds,
     Records!OneRecordPerKey, Records!AnswerIsStored
<1>6. ASSUME NEW c \in Executions, Records!RollBack(c)
      PROVE  RecordsInv'
  BY <1>6 DEF Records!RollBack, FlushedAlone, KnowsRaces, Records!Doing, Records!Holds,
     Records!OneRecordPerKey, Records!AnswerIsStored
<1> QED BY <1>0, <1>1, <1>2, <1>3, <1>4, <1>5, <1>6 DEF Records!Next

\* The steps of the instance, seen from it.
LEMMA RecordsFocus ==
  focus = "records" /\ OperationsStep => focus' = "records" /\ [Records!Next]_records
BY DEF OperationsStep, OperationsNext, records, parts

\* However calls with one key race: one record per key, and who is answered has the record that
\* is stored, or an error if calls with one key met (enqueue_task_record, publish_event_record).
THEOREM RecordsStaySound == OperationsSpec => []RecordsSound
<1> DEFINE I == focus = "records" => RecordsInv
<1>1. OperationsInit => I
  BY RecordsInit DEF OperationsInit
<1>2. I /\ [OperationsNext]_<<focus, vars, parts>> => I'
  BY RecordsStep, RecordsFocus DEF OperationsNext, OperationsStep
<1>3. I => RecordsSound
  BY DEF RecordsSound, Records!RecordsSound, Records!TypeOK, RecordsInv, CallOK, Calling, Row
<1> QED BY <1>1, <1>2, <1>3, PTL DEF OperationsSpec

-----------------------------------------------------------------------------
(* The log archive.                                                         *)

\* Some file holds the log.
Filed(l) == \E t \in LogFiles!Seconds : file[t] # None /\ l \in file[t]

\* An archiver has selected rows.
Archiving(a) == chosen[a] # None

\* While archivers come one at a time, the rows that were selected are still there.
OneArchiver ==
  ~l_crossed =>
    /\ \A a, b \in Executions : Archiving(a) /\ Archiving(b) => a = b
    /\ \A a \in Executions : Archiving(a) => chosen[a] \subseteq table

\* No log is in two files, and one in the table and in a file besides is one the archiver
\* that wrote the file is about to delete.
FilesApart ==
  ~l_crossed /\ ~clash =>
    /\ \A s, t \in LogFiles!Seconds :
         s # t /\ file[s] # None /\ file[t] # None => file[s] \cap file[t] = {}
    /\ \A l \in table : Filed(l) => \E a \in Executions : saved[a] /\ l \in chosen[a]

\* Only what is past its retention is selected or filed, and what is saved is filed.
OldOnly ==
  /\ \A t \in LogFiles!Seconds : file[t] # None => file[t] \subseteq old
  /\ \A a \in Executions : Archiving(a) => chosen[a] \subseteq old
  /\ ~clash => \A a \in Executions : saved[a] => \A l \in chosen[a] : Filed(l)

ArchiveInv ==
  /\ LogFiles!TypeOK
  /\ DOMAIN file = LogFiles!Seconds /\ DOMAIN chosen = Executions
  /\ saved \in [Executions -> BOOLEAN] /\ clash \in BOOLEAN /\ l_crossed \in BOOLEAN
  /\ OldOnly /\ OneArchiver /\ FilesApart
  /\ ~clash => \A l \in old : l \in table \/ Filed(l)

\* What the archive holds is what some file holds.
LEMMA ArchivedIsFiled == \A l : l \in LogFiles!Archived <=> Filed(l)
BY DEF LogFiles!Archived, Filed

\* Nothing is old, chosen or filed yet.
LEMMA ArchiveInit == LogFiles!Init => ArchiveInv
<1> SUFFICES ASSUME LogFiles!Init PROVE ArchiveInv
  OBVIOUS
<1> USE DEF LogFiles!Init
<1>1. LogFiles!TypeOK
  BY OperationsAssumption DEF LogFiles!ArchiveAssumption, LogFiles!TypeOK, LogFiles!Seconds
<1>2. OldOnly
  BY DEF OldOnly, Archiving
<1>3. OneArchiver
  BY DEF OneArchiver, Archiving
<1>4. FilesApart
  BY DEF FilesApart
<1> QED BY <1>1, <1>2, <1>3, <1>4 DEF ArchiveInv

\* Every step of an archiver keeps logs in the table or in a file.
LEMMA ArchiveStep == ArchiveInv /\ [LogFiles!Next]_archive => ArchiveInv'
<1> SUFFICES ASSUME ArchiveInv, [LogFiles!Next]_archive PROVE ArchiveInv'
  OBVIOUS
<1> USE DEF ArchiveInv, LogFiles!TypeOK, OldOnly, OneArchiver, FilesApart, Filed, Archiving
<1>0. CASE UNCHANGED archive
  BY <1>0 DEF archive
<1>1. CASE LogFiles!Tick
  BY <1>1, OperationsAssumption DEF LogFiles!ArchiveAssumption, LogFiles!Tick, LogFiles!Seconds
<1>2. ASSUME NEW l \in Logs, LogFiles!WriteLog(l) \/ LogFiles!Age(l)
      PROVE  ArchiveInv'
  BY <1>2 DEF LogFiles!WriteLog, LogFiles!Age
<1>3. ASSUME NEW a \in Executions, LogFiles!Select(a)
      PROVE  ArchiveInv'
  BY <1>3 DEF LogFiles!Select
<1>4. ASSUME NEW a \in Executions, LogFiles!WriteFile(a)
      PROVE  ArchiveInv'
  <2> USE <1>4 DEF LogFiles!WriteFile
  <2>1. LogFiles!TypeOK' /\ DOMAIN file' = LogFiles!Seconds /\ DOMAIN chosen' = Executions
        /\ saved' \in [Executions -> BOOLEAN] /\ clash' \in BOOLEAN /\ l_crossed' \in BOOLEAN
    OBVIOUS
  <2>2. OldOnly'
    OBVIOUS
  <2>3. OneArchiver'
    OBVIOUS
  <2>4. FilesApart'
    OBVIOUS
  <2>5. (~clash => \A l \in old : l \in table \/ Filed(l))'
    OBVIOUS
  <2> QED BY <2>1, <2>2, <2>3, <2>4, <2>5
<1>5. ASSUME NEW a \in Executions, LogFiles!Delete(a)
      PROVE  ArchiveInv'
  BY <1>5 DEF LogFiles!Delete
<1>6. ASSUME NEW a \in Executions, LogFiles!Fail(a)
      PROVE  ArchiveInv'
  BY <1>6 DEF LogFiles!Fail
<1> QED BY <1>0, <1>1, <1>2, <1>3, <1>4, <1>5, <1>6 DEF LogFiles!Next

\* The steps of the instance, seen from it.
LEMMA ArchiveFocus ==
  focus = "archive" /\ OperationsStep => focus' = "archive" /\ [LogFiles!Next]_archive
BY DEF OperationsStep, OperationsNext, archive, parts

\* Whatever time rows were written at and whenever an archiver dies: no log is lost unless
\* two runs pick one file name, and none is archived twice unless runs overlapped or one broke
\* off (log_archive_service).
THEOREM ArchiveStaysSound == OperationsSpec => []ArchiveSound
<1> DEFINE I == focus = "archive" => ArchiveInv
<1>1. OperationsInit => I
  BY ArchiveInit DEF OperationsInit
<1>2. I /\ [OperationsNext]_<<focus, vars, parts>> => I'
  BY ArchiveStep, ArchiveFocus DEF OperationsNext, OperationsStep
<1>3. I => ArchiveSound
  BY ArchivedIsFiled
     DEF ArchiveSound, LogFiles!ArchiveSound, LogFiles!NoLogLost, LogFiles!ArchivedOnce, ArchiveInv,
         OldOnly, OneArchiver, FilesApart, Archiving, LogFiles!TypeOK
<1> QED BY <1>1, <1>2, <1>3, PTL DEF OperationsSpec

-----------------------------------------------------------------------------
(* Alert disposals.                                                         *)

\* An answer, once stored, is replaced by answers only; a session that saw one, or that
\* is about to report success, is behind one.
AnswerBehind(s) ==
  \/ d_loaded[s].draft # NoAnswer
  \/ d_pc[s] \in {"returning", "reporting"}
  => d_alertDraft # NoAnswer

DisposalInv ==
  /\ Disposal!TypeOK
  /\ \A s \in Executions : AnswerBehind(s)
  /\ Disposal!DoneHasAnswer

\* There is no answer, and nobody who saw one.
LEMMA DisposalInit == Disposal!Init => DisposalInv
BY DEF Disposal!Init, Disposal!Queue!Init, DisposalInv, Disposal!TypeOK, AnswerBehind,
   Disposal!DoneHasAnswer,
   Disposal!Row!AlertTypeOK, Disposal!Row!AlertStatuses, Disposal!Queue!Phases, Disposal!Stages,
   Disposal!Views, Disposal!NoView

\* Every step of an execution, the queue, a reviewer or an operator keeps the answer behind
\* who relies on it.
LEMMA DisposalStep == DisposalInv /\ [Disposal!Next]_disposal => DisposalInv'
<1> SUFFICES ASSUME DisposalInv, [Disposal!Next]_disposal PROVE DisposalInv'
  OBVIOUS
<1> USE DEF DisposalInv, AnswerBehind, Disposal!TypeOK, Disposal!DoneHasAnswer,
       Disposal!Row!AlertTypeOK, Disposal!Row!AlertStatuses, Disposal!Row!Flush,
       Disposal!Queue!Phases, Disposal!Stages, Disposal!Views, Disposal!NoView, Disposal!Seen,
       Disposal!alertVars, Disposal!queueVars, Disposal!Goto, Disposal!Leave, Disposal!Read
<1>0. CASE UNCHANGED disposal
  BY <1>0 DEF disposal
<1>1. CASE Disposal!Trigger
  BY <1>1 DEF Disposal!Trigger, Disposal!Queue!Admit
<1>2. ASSUME NEW s \in Executions, Disposal!Start(s)
      PROVE  DisposalInv'
  BY <1>2 DEF Disposal!Start, Disposal!Queue!Lease
<1>3. ASSUME NEW s \in Executions, Disposal!AnswerRead(s) \/ Disposal!FailureRead(s)
      PROVE  DisposalInv'
  <2>1. d_pc' \in [Executions -> Disposal!Stages]
    BY <1>3 DEF Disposal!AnswerRead, Disposal!FailureRead
  <2>2. d_loaded' \in [Executions -> Disposal!Views]
    BY <1>3 DEF Disposal!AnswerRead, Disposal!FailureRead
  <2>3. \A r \in Executions : AnswerBehind(r)'
    BY <1>3 DEF Disposal!AnswerRead, Disposal!FailureRead
  <2> QED BY <1>3, <2>1, <2>2, <2>3 DEF Disposal!AnswerRead, Disposal!FailureRead
<1>4. ASSUME NEW s \in Executions, Disposal!AnswerWrite(s)
      PROVE  DisposalInv'
  BY <1>4, OperationsAssumption DEF Disposal!DisposalAssumption, Disposal!AnswerWrite
<1>5. ASSUME NEW s \in Executions,
             Disposal!Fails(s) \/ Disposal!FailureWrite(s) \/ Disposal!FailureLost(s)
      PROVE  DisposalInv'
  BY <1>5 DEF Disposal!Fails, Disposal!FailureWrite, Disposal!FailureLost, Disposal!AfterFailure
<1>6. ASSUME NEW s \in Executions, Disposal!HandlerReturns(s)
      PROVE  DisposalInv'
  BY <1>6 DEF Disposal!HandlerReturns, Disposal!Queue!Execute
<1>7. ASSUME NEW s \in Executions, Disposal!ReportSuccess(s)
      PROVE  DisposalInv'
  BY <1>7 DEF Disposal!ReportSuccess, Disposal!HoldsLease, Disposal!Queue!Finish
<1>8. ASSUME NEW s \in Executions, Disposal!ReportFailure(s)
      PROVE  DisposalInv'
  BY <1>8 DEF Disposal!ReportFailure, Disposal!HoldsLease, Disposal!Queue!Revoke
<1>9. ASSUME NEW s \in Executions, Disposal!ReportFails(s) \/ Disposal!Crash(s)
      PROVE  DisposalInv'
  <2>1. CASE Disposal!ReportFails(s)
    BY <2>1 DEF Disposal!ReportFails
  <2>2. CASE Disposal!Crash(s)
    BY <2>2 DEF Disposal!Crash
  <2> QED BY <1>9, <2>1, <2>2
<1>10. CASE Disposal!LeaseExpires
  BY <1>10 DEF Disposal!LeaseExpires, Disposal!Queue!Revoke
<1>11. CASE Disposal!OperateTask
  BY <1>11 DEF Disposal!OperateTask, Disposal!Queue!Admit, Disposal!Queue!Abandon
<1>12. CASE Disposal!Review
  BY <1>12 DEF Disposal!Review, Disposal!Row!Review, Disposal!Row!ConfirmDisposal,
     Disposal!Row!RejectDisposal, Disposal!Row!DisposalToTicket, Disposal!Row!CloseDisposal,
     Disposal!Row!Ticketed
<1> QED
  BY <1>0, <1>1, <1>2, <1>3, <1>4, <1>5, <1>6, <1>7, <1>8, <1>9, <1>10, <1>11, <1>12
  DEF Disposal!Next, Disposal!Smooth, Disposal!Rough, Disposal!Execution

\* The steps of the instance, seen from it.
LEMMA DisposalFocus ==
  focus = "disposal" /\ OperationsStep => focus' = "disposal" /\ [Disposal!Next]_disposal
BY DEF OperationsStep, OperationsNext, disposal, parts

\* Leases may end at any moment: a task of the disposal of an alert that succeeded has left its
\* answer (process_alert_disposal).
THEOREM DisposalStaysSound == OperationsSpec => []DisposalSound
<1> DEFINE I == focus = "disposal" => DisposalInv
<1>1. OperationsInit => I
  BY DisposalInit DEF OperationsInit
<1>2. I /\ [OperationsNext]_<<focus, vars, parts>> => I'
  BY DisposalStep, DisposalFocus DEF OperationsNext, OperationsStep
<1>3. I => DisposalSound
  BY DEF DisposalSound, Disposal!DisposalSound, DisposalInv
<1> QED BY <1>1, <1>2, <1>3, PTL DEF OperationsSpec

-----------------------------------------------------------------------------
(* Active operations.                                                       *)

\* What the sessions keep to themselves, and what they share.
OpsLocals ==
  /\ p_pc \in [Executions -> Ops!Stages] /\ gen \in [Executions -> 0 .. MaxGen]
  /\ p_loaded \in [Executions -> Ops!Views]
  /\ \A s \in Executions : p_pc[s] # "idle" => gen[s] # 0
OpsShared ==
  /\ event \in Ops!EventStatuses /\ run \in Ops!RunStatuses /\ taskOf \in 0 .. MaxGen
  /\ draft \in Ops!Maybe /\ published \in Ops!Maybe /\ accepted \in Ops!Maybe
  /\ runTickets \in SUBSET Ops!Maybe /\ Ops!Alert!AlertTypeOK
  /\ phase \in [Ops!Gens -> Ops!Queue!Phases] /\ holder \in [Ops!Gens -> Executions \cup {Nobody}]
  /\ executed \in SUBSET Ops!Gens
  /\ Ops!EventMirrorsRun

\* Locals and shared state make up the types.
LEMMA OpsParts == OpsLocals /\ OpsShared => Ops!TypeOK /\ Ops!EventMirrorsRun
BY DEF Ops!TypeOK, OpsLocals, OpsShared

\* The state at the start has its types.
LEMMA OpsInitOK == Ops!Init => OpsLocals /\ OpsShared
BY OperationsAssumption
   DEF Ops!OpsAssumption, Ops!Init, Ops!Queue!Init, OpsLocals, OpsShared, Ops!Maybe, Ops!NoView,
       Ops!Views, Ops!Gens, Ops!Stages,
       Ops!RunStatuses, Ops!EventStatuses, Ops!Alert!AlertTypeOK, Ops!Alert!AlertStatuses,
       Ops!Queue!Phases,
       Ops!EventMirrorsRun, Ops!Mirror, Ops!Reviewed

\* A session that goes on keeps its locals in order.
LEMMA OpsGotoOK ==
  ASSUME OpsLocals, NEW s \in Executions, NEW from, NEW to \in Ops!Stages, Ops!Goto(s, from, to)
  PROVE  /\ p_pc' \in [Executions -> Ops!Stages] /\ gen' \in [Executions -> 0 .. MaxGen]
         /\ from # "idle" => \A r \in Executions : p_pc'[r] # "idle" => gen'[r] # 0
BY DEF OpsLocals, Ops!Goto

\* A session that ends keeps its locals in order.
LEMMA OpsLeaveOK ==
  ASSUME OpsLocals, NEW s \in Executions, Ops!Leave(s)
  PROVE  OpsLocals'
<1>1. Ops!NoView \in Ops!Views /\ 0 \in 0 .. MaxGen /\ "idle" \in Ops!Stages
  BY OperationsAssumption
     DEF Ops!OpsAssumption, Ops!NoView, Ops!Views, Ops!Maybe, Ops!Alert!AlertStatuses, Ops!Stages
<1> QED BY <1>1 DEF OpsLocals, Ops!Leave

\* Every step keeps the locals in order, whatever leases do.
LEMMA OpsLocalsStep == OpsLocals /\ OpsShared /\ [Ops!Next]_proactive => OpsLocals'
<1> SUFFICES ASSUME OpsLocals, OpsShared, [Ops!Next]_proactive PROVE OpsLocals'
  OBVIOUS
<1>0. /\ \A p \in {"idle", "starting", "asking", "answering", "failing", "returning",
                    "reporting", "raising"} : p \in Ops!Stages
      /\ [Ops!NoView EXCEPT !.draft = draft] \in Ops!Views
      /\ \A s \in Executions :
           [p_loaded[s] EXCEPT !.alert = alert, !.alertDraft = alertDraft,
                               !.published = published] \in Ops!Views
  BY DEF Ops!Stages, Ops!Views, Ops!NoView, OpsLocals, OpsShared, Ops!Maybe, Ops!Alert!AlertTypeOK,
     Ops!Alert!AlertStatuses
<1>1. CASE UNCHANGED Ops!sesVars
  BY <1>1 DEF Ops!sesVars, OpsLocals
<1>2. ASSUME NEW s \in Executions, Ops!Start(s)
      PROVE  OpsLocals'
  <2>1. PICK g \in Ops!Gens : gen' = [gen EXCEPT ![s] = g]
    BY <1>2 DEF Ops!Start
  <2>2. p_pc' = [p_pc EXCEPT ![s] = "starting"] /\ p_loaded' = p_loaded
    BY <1>2 DEF Ops!Start
  <2>3. g \in 0 .. MaxGen /\ g # 0
    BY OperationsAssumption DEF Ops!Gens, Ops!OpsAssumption
  <2> QED BY <1>0, <2>1, <2>2, <2>3 DEF OpsLocals
<1>3. ASSUME NEW s \in Executions, Ops!BeginRun(s)
      PROVE  OpsLocals'
  <2>1. /\ p_pc' \in [Executions -> Ops!Stages] /\ gen' \in [Executions -> 0 .. MaxGen]
        /\ \A r \in Executions : p_pc'[r] # "idle" => gen'[r] # 0
    <3>1. \E to \in Ops!Stages : Ops!Goto(s, "starting", to)
      BY <1>0, <1>3 DEF Ops!BeginRun
    <3> QED BY <3>1, OpsGotoOK
  <2>2. p_loaded' \in [Executions -> Ops!Views]
    BY <1>0, <1>3 DEF Ops!BeginRun, OpsLocals
  <2> QED BY <2>1, <2>2 DEF OpsLocals
<1>4. ASSUME NEW s \in Executions, Ops!AgentAnswers(s)
      PROVE  OpsLocals'
  <2>1. /\ p_pc' \in [Executions -> Ops!Stages] /\ gen' \in [Executions -> 0 .. MaxGen]
        /\ \A r \in Executions : p_pc'[r] # "idle" => gen'[r] # 0
    <3>1. Ops!Goto(s, "asking", "answering")
      BY <1>4 DEF Ops!AgentAnswers
    <3>2. "answering" \in Ops!Stages
      BY DEF Ops!Stages
    <3> QED BY <3>1, <3>2, OpsGotoOK
  <2>2. p_loaded' \in [Executions -> Ops!Views]
    BY <1>0, <1>4 DEF Ops!AgentAnswers, OpsLocals
  <2> QED BY <2>1, <2>2 DEF OpsLocals
<1>5. ASSUME NEW s \in Executions,
             \/ Ops!AgentFails(s) \/ Ops!Propose(s) \/ Ops!ProposalRefused(s) \/ Ops!RecordFailure(s)
             \/ Ops!HandlerReturns(s) \/ Ops!ReportFails(s)
      PROVE  OpsLocals'
  <2>1. p_loaded' = p_loaded
    BY <1>5 DEF Ops!AgentFails, Ops!Propose, Ops!ProposalRefused, Ops!RecordFailure,
       Ops!HandlerReturns,
       Ops!ReportFails
  <2>2. \E from, to \in Ops!Stages : from # "idle" /\ Ops!Goto(s, from, to)
    BY <1>0, <1>5 DEF Ops!AgentFails, Ops!Propose, Ops!ProposalRefused, Ops!RecordFailure,
       Ops!HandlerReturns, Ops!ReportFails
  <2> QED BY <2>1, <2>2, OpsGotoOK DEF OpsLocals
<1>6. ASSUME NEW s \in Executions, Ops!ReportSuccess(s) \/ Ops!ReportFailure(s) \/ Ops!Crash(s)
      PROVE  OpsLocals'
  BY <1>6, OpsLeaveOK DEF Ops!ReportSuccess, Ops!ReportFailure, Ops!Crash
<1>7. CASE \/ Ops!Ingest \/ Ops!ConfirmRun \/ Ops!RejectRun \/ Ops!RunToTicket \/ Ops!RetryRun
           \/ Ops!ReviewAlert
  BY <1>1, <1>7 DEF Ops!Ingest, Ops!ConfirmRun, Ops!RejectRun, Ops!RunToTicket, Ops!RetryRun,
     Ops!ReviewAlert
<1>8. CASE \E g \in Ops!Gens : Ops!OperateTask(g) \/ Ops!LeaseExpires(g)
  BY <1>1, <1>8 DEF Ops!OperateTask, Ops!LeaseExpires
<1>9. CASE UNCHANGED proactive
  BY <1>1, <1>9 DEF proactive, Ops!sesVars
<1> QED
  BY <1>2, <1>3, <1>4, <1>5, <1>6, <1>7, <1>8, <1>9 DEF Ops!Next, Ops!Common, Ops!Execution

\* Every step keeps what is shared in order, whatever leases do: the event mirrors its run.
LEMMA OpsSharedStep == OpsLocals /\ OpsShared /\ [Ops!Next]_proactive => OpsShared'
<1> SUFFICES ASSUME OpsLocals, OpsShared, [Ops!Next]_proactive PROVE OpsShared'
  OBVIOUS
<1> USE OperationsAssumption
<1> USE DEF OpsShared, Ops!EventMirrorsRun, Ops!Mirror, Ops!Reviewed, Ops!Maybe, Ops!Gens,
       Ops!RunStatuses, Ops!EventStatuses, Ops!Alert!AlertTypeOK, Ops!Alert!AlertStatuses,
       Ops!Alert!Flush, Ops!Alert!Ticketed, Ops!Queue!Phases, Ops!OpsAssumption,
       Ops!opsVars, Ops!alertVars, Ops!queueVars
<1>0. CASE UNCHANGED proactive
  BY <1>0 DEF proactive
<1>1. CASE Ops!Ingest
  BY <1>1 DEF Ops!Ingest, Ops!Queue!Admit
<1>2. ASSUME NEW s \in Executions, Ops!Start(s)
      PROVE  OpsShared'
  BY <1>2 DEF Ops!Start, Ops!Queue!Lease
<1>3. ASSUME NEW s \in Executions, Ops!BeginRun(s)
      PROVE  OpsShared'
  BY <1>3 DEF Ops!BeginRun
<1>4. ASSUME NEW s \in Executions,
             \/ Ops!AgentAnswers(s) \/ Ops!AgentFails(s) \/ Ops!ProposalRefused(s)
             \/ Ops!ReportFails(s) \/ Ops!Crash(s)
      PROVE  OpsShared'
  BY <1>4 DEF Ops!AgentAnswers, Ops!AgentFails, Ops!ProposalRefused, Ops!ReportFails, Ops!Crash
<1>5. ASSUME NEW s \in Executions, Ops!Propose(s)
      PROVE  OpsShared'
  BY <1>5 DEF Ops!Propose, Ops!StoreProposal
<1>6. ASSUME NEW s \in Executions, Ops!RecordFailure(s)
      PROVE  OpsShared'
  BY <1>6 DEF Ops!RecordFailure
<1>7. ASSUME NEW s \in Executions, Ops!HandlerReturns(s)
      PROVE  OpsShared'
  BY <1>7 DEF Ops!HandlerReturns, Ops!Queue!Execute, Ops!Goto, OpsLocals
<1>8. ASSUME NEW s \in Executions, Ops!ReportSuccess(s)
      PROVE  OpsShared'
  <2>1. \/ UNCHANGED Ops!queueVars
        \/ /\ phase' = [phase EXCEPT ![gen[s]] = "done"]
           /\ holder' = [holder EXCEPT ![gen[s]] = Nobody]
           /\ UNCHANGED executed
    BY <1>8 DEF Ops!ReportSuccess, Ops!Queue!Finish
  <2>2. UNCHANGED <<Ops!opsVars, Ops!alertVars, accepted>>
    BY <1>8 DEF Ops!ReportSuccess
  <2>3. phase' \in [Ops!Gens -> Ops!Queue!Phases] /\ holder' \in [Ops!Gens -> Executions \cup {Nobody}]
    BY <2>1
  <2> QED BY <2>1, <2>2, <2>3
<1>9. ASSUME NEW s \in Executions, Ops!ReportFailure(s)
      PROVE  OpsShared'
  <2>1. /\ phase' \in [Ops!Gens -> Ops!Queue!Phases] /\ UNCHANGED executed
        /\ holder' \in [Ops!Gens -> Executions \cup {Nobody}]
    <3>1. CASE Ops!Queue!Revoke({gen[s]})
      BY <3>1 DEF Ops!Queue!Revoke
    <3> QED BY <1>9, <3>1 DEF Ops!ReportFailure
  <2>2. UNCHANGED <<Ops!opsVars, Ops!alertVars, accepted>>
    BY <1>9 DEF Ops!ReportFailure
  <2> QED BY <2>1, <2>2
<1>10. ASSUME NEW g \in Ops!Gens, Ops!OperateTask(g) \/ Ops!LeaseExpires(g)
      PROVE  OpsShared'
  BY <1>10 DEF Ops!OperateTask, Ops!LeaseExpires, Ops!Queue!Admit, Ops!Queue!Abandon,
     Ops!Queue!Revoke
<1>11. CASE Ops!ConfirmRun \/ Ops!RejectRun \/ Ops!RunToTicket
  BY <1>11 DEF Ops!ConfirmRun, Ops!RejectRun, Ops!RunToTicket
<1>12. CASE Ops!RetryRun
  BY <1>12 DEF Ops!RetryRun, Ops!Queue!Admit
<1>13. CASE Ops!ReviewAlert
  BY <1>13 DEF Ops!ReviewAlert, Ops!Alert!Review, Ops!Alert!ConfirmDisposal,
     Ops!Alert!RejectDisposal,
     Ops!Alert!DisposalToTicket, Ops!Alert!CloseDisposal
<1> QED
  BY <1>0, <1>1, <1>2, <1>3, <1>4, <1>5, <1>6, <1>7, <1>8, <1>9, <1>10, <1>11, <1>12, <1>13
  DEF Ops!Next, Ops!Common, Ops!Execution

\* A session at work holds the lease of its task; at the agent, it works for the run's
\* current task, and the run is running.
OpsWorks(s) == p_pc[s] # "idle" => phase[gen[s]] = "leased" /\ holder[gen[s]] = s
OpsAtAgent(s) ==
  p_pc[s] \in {"asking", "answering", "failing"} => gen[s] = taskOf /\ run = "running"

\* No session reads a draft or an announcement: there is none before the proposal, and
\* nobody goes to the agent after it.
OpsFresh(s) == p_loaded[s].draft = NoAnswer /\ p_loaded[s].published = NoAnswer

\* Once proposed, what is announced is the draft; what was accepted is the draft too, and
\* tickets are for what was accepted.
Settled == {"proposed", "confirmed", "rejected", "ticketed"}
OpsStory ==
  /\ run \notin Settled => draft = NoAnswer /\ published = NoAnswer
  /\ run \in Settled => published = draft
  /\ run \in {"confirmed", "ticketed"} => accepted = draft
  /\ runTickets # {} => run = "ticketed"
  /\ Ops!TicketIsAccepted

OpsSessions == \A s \in Executions : OpsWorks(s) /\ OpsAtAgent(s) /\ OpsFresh(s)
OpsInv == OpsLocals /\ OpsShared /\ OpsSessions /\ OpsStory

\* The story begins empty.
LEMMA OpsInvInit == Ops!Init => OpsInv
BY OpsInitOK DEF Ops!Init, OpsInv, OpsSessions, OpsWorks, OpsAtAgent, OpsFresh, OpsStory,
   Settled, Ops!TicketIsAccepted, Ops!NoView

\* Nobody else works for the task of a session that is at work.
LEMMA OpsAlone ==
  ASSUME OpsSessions, NEW r \in Executions, NEW s \in Executions,
         p_pc[r] # "idle", p_pc[s] # "idle", gen[r] = gen[s]
  PROVE  r = s
BY DEF OpsSessions, OpsWorks

\* Of the story, only the run and what it was decided on matter.
LEMMA OpsStoryStays ==
  OpsStory /\ UNCHANGED <<run, draft, published, runTickets, accepted>> => OpsStory'
BY DEF OpsStory, Settled, Ops!TicketIsAccepted

\* While leases last as long as their holders, sessions keep their tasks to themselves.
LEMMA OpsSessionsStep == OpsInv /\ [Ops!TimelyNext]_proactive => OpsSessions'
<1> SUFFICES ASSUME OpsInv, [Ops!TimelyNext]_proactive PROVE OpsSessions'
  OBVIOUS
<1> USE DEF OpsInv, OpsSessions, OpsWorks, OpsAtAgent, OpsFresh, OpsLocals,
       Ops!opsVars, Ops!alertVars, Ops!queueVars, Ops!sesVars
<1>0. CASE UNCHANGED proactive
  BY <1>0 DEF proactive
<1>1. CASE Ops!Ingest
  <2>1. run = "absent" /\ UNCHANGED <<p_pc, gen, p_loaded>>
    BY <1>1 DEF Ops!Ingest
  <2>2. UNCHANGED Ops!queueVars \/ (Ops!Queue!Admit(1))
    BY <1>1 DEF Ops!Ingest
  <2>3. \A s \in Executions : OpsWorks(s)'
    <3>1. CASE UNCHANGED Ops!queueVars
      BY <2>1, <3>1
    <3>2. CASE Ops!Queue!Admit(1)
      <4>1. phase[1] # "leased" /\ holder' = holder /\ phase' = [phase EXCEPT ![1] = "waiting"]
        BY <3>2 DEF Ops!Queue!Admit
      <4> QED BY <2>1, <4>1 DEF OpsShared
    <3> QED BY <2>2, <3>1, <3>2
  <2> QED BY <2>1, <2>3
<1>2. ASSUME NEW s \in Executions, Ops!Start(s)
      PROVE  OpsSessions'
  BY <1>2 DEF Ops!Start, Ops!Queue!Lease, OpsShared
<1>3. ASSUME NEW s \in Executions, Ops!BeginRun(s)
      PROVE  OpsSessions'
  BY <1>3 DEF Ops!BeginRun, Ops!Goto, Ops!Admits, Ops!NoView, OpsStory, Settled
<1>4. ASSUME NEW s \in Executions, Ops!AgentAnswers(s)
      PROVE  OpsSessions'
  BY <1>4 DEF Ops!AgentAnswers, Ops!Goto, OpsStory, Settled, Ops!Views
<1>5. ASSUME NEW s \in Executions,
             Ops!AgentFails(s) \/ Ops!ProposalRefused(s) \/ Ops!ReportFails(s)
      PROVE  OpsSessions'
  BY <1>5 DEF Ops!AgentFails, Ops!ProposalRefused, Ops!ReportFails, Ops!Goto
<1>6. ASSUME NEW s \in Executions, Ops!Propose(s)
      PROVE  OpsSessions'
  BY <1>6, OpsAlone DEF Ops!Propose, Ops!StoreProposal, Ops!Goto
<1>7. ASSUME NEW s \in Executions, Ops!RecordFailure(s)
      PROVE  OpsSessions'
  BY <1>7, OpsAlone DEF Ops!RecordFailure, Ops!Goto
<1>8. ASSUME NEW s \in Executions, Ops!HandlerReturns(s)
      PROVE  OpsSessions'
  BY <1>8 DEF Ops!HandlerReturns, Ops!Queue!Execute, Ops!Goto
<1>9. ASSUME NEW s \in Executions, Ops!ReportSuccess(s)
      PROVE  OpsSessions'
  <2>1. p_pc' = [p_pc EXCEPT ![s] = "idle"] /\ gen' = [gen EXCEPT ![s] = 0]
        /\ p_loaded' = [p_loaded EXCEPT ![s] = Ops!NoView] /\ UNCHANGED <<run, taskOf>>
    BY <1>9 DEF Ops!ReportSuccess, Ops!Leave
  <2>2. ASSUME NEW r \in Executions, r # s, p_pc[r] # "idle"
        PROVE  phase'[gen[r]] = phase[gen[r]] /\ holder'[gen[r]] = holder[gen[r]]
    <3>1. gen[r] # gen[s]
      BY <1>9, <2>2, OpsAlone DEF Ops!ReportSuccess
    <3>2. \/ UNCHANGED Ops!queueVars
          \/ /\ phase' = [phase EXCEPT ![gen[s]] = "done"]
             /\ holder' = [holder EXCEPT ![gen[s]] = Nobody]
      BY <1>9 DEF Ops!ReportSuccess, Ops!Queue!Finish
    <3>3. gen[r] \in Ops!Gens
      BY <2>2, OperationsAssumption DEF Ops!Gens, Ops!OpsAssumption
    <3> QED BY <3>1, <3>2, <3>3 DEF OpsShared
  <2> QED BY <2>1, <2>2 DEF Ops!NoView
<1>10. ASSUME NEW s \in Executions, Ops!ReportFailure(s)
      PROVE  OpsSessions'
  <2>1. p_pc' = [p_pc EXCEPT ![s] = "idle"] /\ gen' = [gen EXCEPT ![s] = 0]
        /\ p_loaded' = [p_loaded EXCEPT ![s] = Ops!NoView] /\ UNCHANGED <<run, taskOf>>
    BY <1>10 DEF Ops!ReportFailure, Ops!Leave
  <2>2. ASSUME NEW r \in Executions, r # s, p_pc[r] # "idle"
        PROVE  phase'[gen[r]] = phase[gen[r]] /\ holder'[gen[r]] = holder[gen[r]]
    <3>1. gen[r] # gen[s]
      BY <1>10, <2>2, OpsAlone DEF Ops!ReportFailure
    <3>2. gen[r] \in Ops!Gens
      BY <2>2, OperationsAssumption DEF Ops!Gens, Ops!OpsAssumption
    <3> QED BY <1>10, <3>1, <3>2 DEF Ops!ReportFailure, Ops!Queue!Revoke
  <2> QED BY <2>1, <2>2 DEF Ops!NoView
<1>11. ASSUME NEW s \in Executions, Ops!Crash(s)
      PROVE  OpsSessions'
  BY <1>11 DEF Ops!Crash, Ops!Leave, Ops!NoView
<1>12. ASSUME NEW g \in Ops!Gens, Ops!OperateTask(g)
      PROVE  OpsSessions'
  <2>1. UNCHANGED <<run, taskOf, p_pc, gen, p_loaded, holder>>
    BY <1>12 DEF Ops!OperateTask, Ops!Queue!Admit, Ops!Queue!Abandon
  <2>2. phase[g] # "leased" /\ \A k \in Ops!Gens \ {g} : phase'[k] = phase[k]
    BY <1>12 DEF Ops!OperateTask, Ops!Queue!Admit, Ops!Queue!Abandon, OpsShared
  <2>3. \A s \in Executions : p_pc[s] # "idle" => gen[s] \in Ops!Gens
    BY OperationsAssumption DEF Ops!Gens, Ops!OpsAssumption
  <2> QED BY <2>1, <2>2, <2>3
<1>13. ASSUME NEW g \in Ops!Gens, ~Ops!Attended(g), Ops!LeaseExpires(g)
      PROVE  OpsSessions'
  BY <1>13 DEF Ops!Attended, Ops!HoldsLease, Ops!LeaseExpires, Ops!Queue!Revoke, OpsShared, Ops!Gens
<1>14. CASE Ops!ConfirmRun \/ Ops!RejectRun \/ Ops!RunToTicket
  BY <1>14 DEF Ops!ConfirmRun, Ops!RejectRun, Ops!RunToTicket
<1>15. CASE Ops!RetryRun
  BY <1>15 DEF Ops!RetryRun, Ops!Queue!Admit, OpsShared
<1>16. CASE Ops!ReviewAlert
  BY <1>16 DEF Ops!ReviewAlert
<1> QED
  BY <1>0, <1>1, <1>2, <1>3, <1>4, <1>5, <1>6, <1>7, <1>8, <1>9, <1>10, <1>11, <1>12, <1>13,
     <1>14, <1>15, <1>16
  DEF Ops!TimelyNext, Ops!Common, Ops!Execution

\* While leases last as long as their holders, the story goes on as it was decided.
LEMMA OpsStoryStep ==
  OpsInv /\ [Ops!TimelyNext]_proactive => OpsStory' /\ Ops!KeepsDecision
<1> SUFFICES ASSUME OpsInv, [Ops!TimelyNext]_proactive PROVE OpsStory' /\ Ops!KeepsDecision
  OBVIOUS
<1> USE DEF OpsInv, OpsSessions, OpsAtAgent, OpsFresh, OpsStory, Settled, Ops!TicketIsAccepted,
       Ops!KeepsDecision, Ops!Reviewed, Ops!opsVars
<1>0. CASE UNCHANGED <<run, draft, published, runTickets, accepted>>
  BY <1>0, OpsStoryStays
<1>1. CASE UNCHANGED proactive
  BY <1>0, <1>1 DEF proactive
<1>2. CASE Ops!Ingest
  BY <1>2 DEF Ops!Ingest
<1>3. ASSUME NEW s \in Executions, Ops!BeginRun(s)
      PROVE  OpsStory' /\ Ops!KeepsDecision
  BY <1>3 DEF Ops!BeginRun, Ops!Admits
<1>4. ASSUME NEW s \in Executions,
             \/ Ops!Start(s) \/ Ops!AgentAnswers(s) \/ Ops!AgentFails(s)
             \/ Ops!ProposalRefused(s) \/ Ops!HandlerReturns(s) \/ Ops!ReportSuccess(s)
             \/ Ops!ReportFails(s) \/ Ops!ReportFailure(s) \/ Ops!Crash(s)
      PROVE  OpsStory' /\ Ops!KeepsDecision
  BY <1>0, <1>4 DEF Ops!Start, Ops!AgentAnswers, Ops!AgentFails, Ops!ProposalRefused,
     Ops!HandlerReturns, Ops!ReportSuccess, Ops!ReportFails, Ops!ReportFailure, Ops!Crash
<1>5. ASSUME NEW s \in Executions, Ops!Propose(s)
      PROVE  OpsStory' /\ Ops!KeepsDecision
  BY <1>5, OperationsAssumption
     DEF Ops!Propose, Ops!StoreProposal, Ops!Goto, Ops!Alert!Flush, Ops!OpsAssumption
<1>6. ASSUME NEW s \in Executions, Ops!RecordFailure(s)
      PROVE  OpsStory' /\ Ops!KeepsDecision
  BY <1>6 DEF Ops!RecordFailure, Ops!Goto
<1>7. CASE \E g \in Ops!Gens : Ops!OperateTask(g) \/ Ops!LeaseExpires(g)
  BY <1>0, <1>7 DEF Ops!OperateTask, Ops!LeaseExpires
<1>8. CASE Ops!ConfirmRun \/ Ops!RejectRun
  BY <1>8 DEF Ops!ConfirmRun, Ops!RejectRun
<1>9. CASE Ops!RunToTicket
  BY <1>9 DEF Ops!RunToTicket, Ops!Alert!Ticketed
<1>10. CASE Ops!RetryRun
  BY <1>10 DEF Ops!RetryRun
<1>11. CASE Ops!ReviewAlert
  BY <1>0, <1>11 DEF Ops!ReviewAlert
<1> QED
  BY <1>1, <1>2, <1>3, <1>4, <1>5, <1>6, <1>7, <1>8, <1>9, <1>10, <1>11
  DEF Ops!TimelyNext, Ops!Common, Ops!Execution

\* The steps taken together.
LEMMA OpsStep ==
  OpsInv /\ [Ops!TimelyNext]_proactive => OpsInv' /\ Ops!KeepsDecision
<1>1. [Ops!TimelyNext]_proactive => [Ops!Next]_proactive
  BY DEF Ops!TimelyNext, Ops!Next
<1> QED
  BY <1>1, OpsLocalsStep, OpsSharedStep, OpsSessionsStep, OpsStoryStep DEF OpsInv

\* The story, told by its state alone.
LEMMA OpsInvSound == OpsInv => Ops!RunsSound
<1> SUFFICES ASSUME OpsInv PROVE Ops!RunsSound
  OBVIOUS
<1>1. Ops!TypeOK /\ Ops!EventMirrorsRun
  BY OpsParts DEF OpsInv
<1>2. Ops!OneGeneration
  BY OpsAlone DEF OpsInv, OpsSessions, OpsAtAgent, Ops!OneGeneration
<1>3. Ops!TicketIsAccepted /\ Ops!ProposalAnnounced
  BY DEF OpsInv, OpsStory, Settled, Ops!ProposalAnnounced, Ops!Reviewed
<1> QED BY <1>1, <1>2, <1>3 DEF Ops!RunsSound

\* The steps of the instance, seen from it.
LEMMA OpsFocus ==
  OperationsStep =>
    /\ UNCHANGED focus
    /\ focus = "proactive" => [Ops!TimelyNext]_proactive
    /\ focus = "overlap" => [Ops!Next]_proactive
BY DEF OperationsStep, OperationsNext, Overlapping, proactive, parts

\* What is kept with leases that last, and with those that end at any moment.
OpsKept ==
  /\ focus = "proactive" => OpsInv
  /\ focus = "overlap" => OpsLocals /\ OpsShared

\* Both instances begin in order.
LEMMA OpsKeptInit == OperationsInit => OpsKept
BY OpsInitOK, OpsInvInit DEF OperationsInit, OpsKept

\* Both instances stay in order, and decisions stand.
LEMMA OpsKeptStep ==
  OpsKept /\ [OperationsNext]_<<focus, vars, parts>>
    => OpsKept' /\ [focus = "proactive" => Ops!KeepsDecision]_proactive
BY OpsFocus, OpsStep, OpsLocalsStep, OpsSharedStep DEF OpsKept, OperationsStep

\* Whatever leases end, crashes and reviews fall between the steps of the executions: a run
\* and its event tell the same story; and when a lease lasts as long as its holder, the
\* agent works for one generation at a time, the ticket is what the reviewer confirmed and
\* what is announced is what is proposed (process_proactive_run, its reviewers and the
\* queue around it).
THEOREM RunsStaySound == OperationsSpec => []RunsSound
<1>1. OpsKept => RunsSound
  BY OpsParts, OpsInvSound DEF OpsKept, RunsSound
<1> QED BY <1>1, OpsKeptInit, OpsKeptStep, PTL DEF OperationsSpec

\* A person's decision about a run stands, whatever the queue redelivers and however late
\* the agent answers.
THEOREM DecisionStaysFinal == OperationsSpec => DecisionFinal
BY OpsKeptInit, OpsKeptStep, PTL DEF OperationsSpec, DecisionFinal

-----------------------------------------------------------------------------
(* The intake of events.                                                    *)

IntakeRow == [duplicates : Nat, device : Intake!Devices, span : SUBSET Intake!Devices]
MappingRow == [id : Canonical, active : BOOLEAN]
BatchesOf == Seq(Intake!Events)
Sending ==
  [phase : {"log", "look", "insert", "count"}, batch : BatchesOf, at : Nat,
   hook : BOOLEAN, failures : Nat, broken : BOOLEAN, found : Nat,
   device : Intake!Devices \cup {None}, span : SUBSET Intake!Devices]
Mapping ==
  [phase : {"map"}, batch : {<<None>>}, at : {1}, row : MappingRow, seen : MappingRow \cup {None}]

\* What is counted of an event, and the device it is attributed to.
EventOK(e) ==
  /\ stored[e] \in Nat
  /\ i_event[e] = None => stored[e] = 0
  /\ i_event[e] # None =>
       /\ i_event[e] \in IntakeRow
       /\ i_event[e].device \in i_event[e].span
       /\ i_event[e].duplicates < stored[e]
       /\ stored[e] > 1 => i_event[e].duplicates > 0
       /\ e \notin raced => i_event[e].duplicates = stored[e] - 1

\* A request has stored what it went through without a failure; its span holds the device
\* of this moment; what it found holds until another one stores the event.
SendOK(q) ==
  /\ q \in Sending /\ q.at \in 1 .. Len(q.batch)
  /\ Intake!Device(mapping) \in q.span
  /\ q.failures = 0 => \A i \in 1 .. q.at - 1 : i_event[q.batch[i]] # None
  /\ q.phase = "insert" => q.device \in q.span
  /\ q.phase = "count" =>
       LET e == q.batch[q.at] IN
       /\ i_event[e] # None /\ q.found < stored[e]
       /\ e \notin raced => q.found = i_event[e].duplicates
MapOK(q) == q \in Mapping /\ (q.seen # None => mapping \in MappingRow)
RequestOK(r) == req[r] # None => SendOK(req[r]) \/ MapOK(req[r])

\* Two requests that are storing one event know of each other.
Storing(r) == Intake!Doing(r, "insert") \/ Intake!Doing(r, "count")
StoringApart ==
  \A r, o \in Executions :
    r # o /\ Storing(r) /\ Storing(o) /\ Intake!Current(r) = Intake!Current(o)
      => Intake!Current(r) \in raced

IntakeInv ==
  /\ mapping = None \/ mapping \in MappingRow
  /\ DOMAIN i_event = Intake!Events /\ DOMAIN made = Intake!Events
  /\ DOMAIN stored = Intake!Events /\ DOMAIN req = Executions
  /\ acked \subseteq Intake!Events
  /\ \A e \in Intake!Events : EventOK(e)
  /\ \A r \in Executions : RequestOK(r)
  /\ StoringApart
  /\ Intake!OncePerEvent /\ Intake!AckMeansStored

\* Nothing was sent yet.
LEMMA IntakeInit == Intake!Init => IntakeInv
BY DEF Intake!Init, IntakeInv, EventOK, RequestOK, StoringApart, Storing, Intake!Doing,
   Intake!OncePerEvent, Intake!Nothing, Intake!AckMeansStored

\* A report is attributed to a device.
LEMMA DeviceOK ==
  ASSUME mapping = None \/ mapping \in MappingRow
  PROVE  Intake!Device(mapping) \in Intake!Devices
BY DEF MappingRow, Intake!Device, Intake!Devices

\* A request that goes on is at the next report of its batch, or has been answered.
LEMMA ProceedOK ==
  ASSUME IntakeInv, NEW r \in Executions, NEW q \in Sending, q.at \in 1 .. Len(q.batch),
         Intake!Proceed(r, q)
  PROVE  /\ DOMAIN req' = Executions /\ \A o \in Executions \ {r} : req'[o] = req[o]
         /\ req'[r] # None =>
              /\ req'[r] \in Sending /\ req'[r].at \in 1 .. Len(q.batch)
              /\ req'[r].phase = "log" /\ req'[r].batch = q.batch /\ req'[r].at = q.at + 1
              /\ req'[r].failures = q.failures /\ req'[r].span = {Intake!Device(mapping)}
         /\ \A e \in acked' : e \in acked \/ (q.failures = 0 /\ \E i \in 1 .. q.at : e = q.batch[i])
<1>1. q.batch \in Seq(Intake!Events) /\ Len(q.batch) \in Nat /\ q.at \in Nat
  BY DEF Sending, BatchesOf
<1>2. CASE q.at < Len(q.batch)
  <2>1. req' = [req EXCEPT ![r] = [q EXCEPT !.at = @ + 1, !.phase = "log",
                                            !.span = {Intake!Device(mapping)}]]
        /\ acked' = acked
    BY <1>2 DEF Intake!Proceed
  <2> DEFINE n == [q EXCEPT !.at = @ + 1, !.phase = "log", !.span = {Intake!Device(mapping)}]
  <2>2. {Intake!Device(mapping)} \in SUBSET Intake!Devices /\ q.at + 1 \in Nat
    BY <1>1, DeviceOK DEF IntakeInv
  <2>3. n.at = q.at + 1 /\ n.phase = "log" /\ n.batch = q.batch
        /\ n.failures = q.failures /\ n.span = {Intake!Device(mapping)}
    BY DEF Sending
  <2>7. n \in Sending
    <3>1. n.hook = q.hook /\ n.broken = q.broken /\ n.found = q.found /\ n.device = q.device
      BY DEF Sending
    <3> QED BY <2>2, <2>3, <3>1 DEF Sending
  <2>4. req' = [req EXCEPT ![r] = n]
    BY <2>1
  <2> HIDE DEF n
  <2>5. DOMAIN req' = Executions /\ req'[r] = n /\ \A o \in Executions \ {r} : req'[o] = req[o]
    BY <2>4 DEF IntakeInv
  <2>6. n.at \in 1 .. Len(q.batch)
    BY <1>1, <1>2, <2>3
  <2> QED BY <2>1, <2>3, <2>5, <2>6, <2>7
<1>3. CASE ~(q.at < Len(q.batch))
  <2>1. /\ req' = [req EXCEPT ![r] = None]
        /\ acked' = IF q.failures = 0 THEN acked \cup {q.batch[i] : i \in 1 .. Len(q.batch)}
                    ELSE acked
    BY <1>3 DEF Intake!Proceed
  <2>2. q.at = Len(q.batch)
    BY <1>1, <1>3
  <2>3. DOMAIN req' = Executions /\ req'[r] = None /\ \A o \in Executions \ {r} : req'[o] = req[o]
    BY <2>1 DEF IntakeInv
  <2>4. ASSUME NEW e \in acked' PROVE e \in acked \/ (q.failures = 0 /\ \E i \in 1 .. q.at : e = q.batch[i])
    BY <2>1, <2>2
  <2> QED BY <2>3, <2>4
<1> QED BY <1>2, <1>3

\* What is stored stays, and is only counted up.
Grows ==
  /\ DOMAIN i_event' = Intake!Events /\ DOMAIN stored' = Intake!Events /\ raced \subseteq raced'
  /\ \A e \in Intake!Events :
       (i_event[e] # None => i_event'[e] # None) /\ stored'[e] \in Nat /\ stored'[e] >= stored[e]

\* Storing a report disturbs no other request but those that count the same event.
LEMMA OthersOK ==
  ASSUME IntakeInv, Grows, mapping' = mapping, NEW o \in Executions, req'[o] = req[o],
         Intake!Doing(o, "count") /\ Intake!Current(o) \notin raced'
           => i_event'[Intake!Current(o)] = i_event[Intake!Current(o)]
  PROVE  RequestOK(o)'
<1>1. CASE req[o] = None
  BY <1>1 DEF RequestOK
<1>2. CASE req[o] # None /\ MapOK(req[o])
  BY <1>2 DEF RequestOK, MapOK
<1>3. CASE req[o] # None /\ SendOK(req[o])
  <2> DEFINE q == req[o]
  <2>1. q \in Sending /\ q.at \in 1 .. Len(q.batch) /\ q.batch \in Seq(Intake!Events)
    BY <1>3 DEF SendOK, Sending, BatchesOf
  <2>2. \A i \in 1 .. q.at : q.batch[i] \in Intake!Events
    BY <2>1
  <2>3. ASSUME q.failures = 0, NEW i \in 1 .. q.at - 1 PROVE i_event'[q.batch[i]] # None
    <3>1. i_event[q.batch[i]] # None
      BY <1>3, <2>3 DEF SendOK
    <3>2. q.batch[i] \in Intake!Events
      <4>1. i \in 1 .. q.at
        BY <2>1
      <4> QED BY <2>2, <4>1
    <3> QED BY <3>1, <3>2 DEF Grows
  <2>4. ASSUME q.phase = "count"
        PROVE  LET e == q.batch[q.at] IN
               /\ i_event'[e] # None /\ q.found < stored'[e]
               /\ e \notin raced' => q.found = i_event'[e].duplicates
    <3> DEFINE e == q.batch[q.at]
    <3>1. e \in Intake!Events /\ e = Intake!Current(o) /\ Intake!Doing(o, "count")
      BY <1>3, <2>2, <2>1, <2>4 DEF Intake!Current, Intake!Doing
    <3>2. i_event[e] # None /\ q.found < stored[e] /\ (e \notin raced => q.found = i_event[e].duplicates)
      BY <1>3, <2>4 DEF SendOK
    <3>3. q.found \in Nat /\ stored[e] \in Nat
      BY <2>1, <3>1 DEF Sending, IntakeInv, EventOK
    <3> HIDE DEF e
    <3>4. i_event'[e] # None /\ q.found < stored'[e]
      BY <3>1, <3>2, <3>3 DEF Grows
    <3>5. e \notin raced' => q.found = i_event'[e].duplicates
      BY <3>1, <3>2 DEF Grows
    <3> QED BY <3>4, <3>5 DEF e
  <2> QED BY <1>3, <2>1, <2>3, <2>4 DEF RequestOK, SendOK
<1> QED BY <1>1, <1>2, <1>3 DEF IntakeInv, RequestOK

\* A request that stored its report, or failed to, goes on in order; what it acknowledges at
\* the end is stored.
LEMMA AfterProceed ==
  ASSUME IntakeInv, Grows, mapping' = mapping, NEW r \in Executions, NEW q \in Sending,
         q.at \in 1 .. Len(q.batch), Intake!Proceed(r, q),
         q.failures = 0 => \A i \in 1 .. q.at : i_event'[q.batch[i]] # None
  PROVE  RequestOK(r)' /\ Intake!AckMeansStored' /\ acked' \subseteq Intake!Events
<1>1. q.batch \in Seq(Intake!Events) /\ q.at \in Nat
  BY DEF Sending, BatchesOf
<1>2. \A i \in 1 .. q.at : q.batch[i] \in Intake!Events
  BY <1>1
<1>3. \A e \in acked' : e \in acked \/ (q.failures = 0 /\ \E i \in 1 .. q.at : e = q.batch[i])
  BY ProceedOK
<1>4. acked' \subseteq Intake!Events
  BY <1>2, <1>3 DEF IntakeInv
<1>5. Intake!AckMeansStored'
  BY <1>3, <1>4 DEF IntakeInv, Intake!AckMeansStored, Grows
<1>6. ASSUME req'[r] # None PROVE SendOK(req[r])'
  <2> DEFINE n == req'[r]
  <2>1. /\ n \in Sending /\ n.at \in 1 .. Len(q.batch) /\ n.phase = "log" /\ n.batch = q.batch
        /\ n.at = q.at + 1 /\ n.failures = q.failures /\ n.span = {Intake!Device(mapping)}
    BY <1>6, ProceedOK
  <2>2. Intake!Device(mapping') = Intake!Device(mapping)
    OBVIOUS
  <2>3. n.failures = 0 => \A i \in 1 .. n.at - 1 : i_event'[n.batch[i]] # None
    BY <1>1, <2>1
  <2> QED BY <2>1, <2>2, <2>3 DEF SendOK
<1> QED BY <1>4, <1>5, <1>6 DEF RequestOK

\* Nobody begins to store an event.
LEMMA ApartStays ==
  ASSUME StoringApart, raced \subseteq raced',
         \A o \in Executions :
           Storing(o)' => Storing(o) /\ Intake!Current(o)' = Intake!Current(o)
  PROVE  StoringApart'
BY DEF StoringApart

\* A request that does nothing stays where it was.
LEMMA StoringSame ==
  ASSUME NEW o \in Executions, req'[o] = req[o]
  PROVE  (Storing(o)' <=> Storing(o)) /\ Intake!Current(o)' = Intake!Current(o)
BY DEF Storing, Intake!Doing, Intake!Current

\* A request at work is a sending request, at a report of its batch.
LEMMA CurrentOK ==
  ASSUME IntakeInv, NEW r \in Executions, NEW p \in {"log", "look", "insert", "count"},
         Intake!Doing(r, p)
  PROVE  /\ SendOK(req[r]) /\ req[r] \in Sending /\ req[r].at \in 1 .. Len(req[r].batch)
         /\ Intake!Current(r) \in Intake!Events /\ Intake!Current(r) = req[r].batch[req[r].at]
<1>1. req[r] # None /\ req[r].phase = p /\ RequestOK(r)
  BY DEF Intake!Doing, IntakeInv
<1>2. ~MapOK(req[r])
  BY <1>1 DEF MapOK, Mapping
<1>3. SendOK(req[r])
  BY <1>1, <1>2 DEF RequestOK
<1>4. req[r] \in Sending /\ req[r].at \in 1 .. Len(req[r].batch) /\ req[r].batch \in Seq(Intake!Events)
  BY <1>3 DEF SendOK, Sending, BatchesOf
<1> QED BY <1>3, <1>4 DEF Intake!Current

\* A failure is counted, and nothing else changes.
LEMMA FailedOK ==
  ASSUME NEW q \in Sending
  PROVE  /\ Intake!Failed(q) \in Sending /\ Intake!Failed(q).failures # 0
         /\ Intake!Failed(q).at = q.at /\ Intake!Failed(q).batch = q.batch
<1> DEFINE n == [q EXCEPT !.failures = @ + 1]
<1>1. q.failures \in Nat /\ q.failures + 1 \in Nat /\ q.failures + 1 # 0
  BY DEF Sending
<1>2. n.failures = q.failures + 1
  BY DEF Sending
<1>3. /\ n.phase = q.phase /\ n.batch = q.batch /\ n.at = q.at /\ n.hook = q.hook
      /\ n.broken = q.broken /\ n.found = q.found /\ n.device = q.device /\ n.span = q.span
  BY DEF Sending
<1>4. n \in Sending
  BY <1>1, <1>2, <1>3 DEF Sending
<1> QED BY <1>1, <1>2, <1>3, <1>4 DEF Intake!Failed

\* Requests aside, nothing changes.
StoresNothing == UNCHANGED <<i_event, made, mapping, stored, raced>>
\* Where nothing is stored, the events are as they were.
LEMMA NothingStored == IntakeInv /\ StoresNothing => Grows /\ Intake!OncePerEvent'
                       /\ \A e \in Intake!Events : EventOK(e)'
BY DEF IntakeInv, StoresNothing, Grows, EventOK, Intake!OncePerEvent

\* A step of one request that stores nothing.
LEMMA RequestStep ==
  ASSUME IntakeInv, StoresNothing, NEW r \in Executions, DOMAIN req' = Executions,
         \A o \in Executions \ {r} : req'[o] = req[o], RequestOK(r)', ~Storing(r)',
         acked' \subseteq Intake!Events, Intake!AckMeansStored'
  PROVE  IntakeInv'
<1>1. Grows /\ Intake!OncePerEvent' /\ \A e \in Intake!Events : EventOK(e)'
  BY NothingStored
<1>2. \A o \in Executions : RequestOK(o)'
  <2>1. ASSUME NEW o \in Executions, o # r PROVE RequestOK(o)'
    BY <1>1, <2>1, OthersOK DEF StoresNothing
  <2> QED BY <2>1
<1>3. StoringApart'
  BY ApartStays, StoringSame DEF IntakeInv, StoresNothing
<1> QED BY <1>1, <1>2, <1>3 DEF IntakeInv, StoresNothing

\* A request arrives (receive_event and its batch).
LEMMA SendStep ==
  ASSUME IntakeInv, NEW r \in Executions, NEW batch \in Seq(Intake!Events), batch # <<>>,
         NEW hook \in BOOLEAN, Intake!Send(r, batch, hook)
  PROVE  IntakeInv'
<1> DEFINE n == [phase |-> IF hook THEN "log" ELSE "look", batch |-> batch, at |-> 1,
                 hook |-> hook, failures |-> 0, broken |-> FALSE, found |-> 0, device |-> None,
                 span |-> {Intake!Device(mapping)}]
<1>1. StoresNothing /\ acked' = acked /\ req' = [req EXCEPT ![r] = n]
  BY DEF Intake!Send, StoresNothing
<1>2. DOMAIN req' = Executions /\ req'[r] = n /\ \A o \in Executions \ {r} : req'[o] = req[o]
  BY <1>1 DEF IntakeInv
<1>3. n \in Sending
  BY DeviceOK DEF Sending, BatchesOf, IntakeInv
<1>4. n.at \in 1 .. Len(n.batch) /\ n.phase \in {"log", "look"} /\ n.at = 1
      /\ n.span = {Intake!Device(mapping)}
  OBVIOUS
<1> HIDE DEF n
<1>5. SendOK(req[r])'
  <2>1. \A i \in 1 .. n.at - 1 : FALSE
    BY <1>4
  <2> QED BY <1>1, <1>2, <1>3, <1>4, <2>1 DEF SendOK, StoresNothing
<1>6. RequestOK(r)' /\ ~Storing(r)'
  BY <1>2, <1>4, <1>5 DEF RequestOK, Storing, Intake!Doing
<1>7. acked' \subseteq Intake!Events /\ Intake!AckMeansStored'
  BY <1>1 DEF IntakeInv, Intake!AckMeansStored, StoresNothing
<1> QED BY <1>1, <1>2, <1>6, <1>7, RequestStep

\* The callback log is written.
LEMMA LogStep ==
  ASSUME IntakeInv, NEW r \in Executions, Intake!Log(r)
  PROVE  IntakeInv'
<1>1. StoresNothing /\ acked' = acked
  BY DEF Intake!Log, StoresNothing
<1>2. SendOK(req[r]) /\ req[r] \in Sending /\ req[r].phase = "log"
  BY CurrentOK DEF Intake!Log, Intake!Doing
<1> DEFINE n == [req[r] EXCEPT !.phase = "look"]
<1>3. /\ n \in Sending /\ n.at = req[r].at /\ n.batch = req[r].batch /\ n.phase = "look"
      /\ n.failures = req[r].failures /\ n.span = req[r].span
  BY <1>2 DEF Sending
<1>4. req' = [req EXCEPT ![r] = IF req[r].broken THEN None ELSE n]
  BY DEF Intake!Log
<1> HIDE DEF n
<1>5. DOMAIN req' = Executions /\ (req'[r] = None \/ req'[r] = n)
      /\ \A o \in Executions \ {r} : req'[o] = req[o]
  BY <1>4 DEF IntakeInv
<1>6. ASSUME req'[r] = n PROVE SendOK(req[r])'
  BY <1>1, <1>2, <1>3, <1>6 DEF SendOK, StoresNothing
<1>7. RequestOK(r)' /\ ~Storing(r)'
  BY <1>3, <1>5, <1>6 DEF RequestOK, Storing, Intake!Doing
<1>8. acked' \subseteq Intake!Events /\ Intake!AckMeansStored'
  BY <1>1 DEF IntakeInv, Intake!AckMeansStored, StoresNothing
<1> QED BY <1>1, <1>5, <1>7, <1>8, RequestStep

\* The request goes on or ends after an event it did not store.
LEMMA FailureStep ==
  ASSUME IntakeInv, StoresNothing, NEW r \in Executions, NEW q \in Sending,
         q.at \in 1 .. Len(q.batch), q.failures # 0, Intake!Proceed(r, q)
  PROVE  IntakeInv'
<1>1. Grows
  BY NothingStored
<1>2. RequestOK(r)' /\ Intake!AckMeansStored' /\ acked' \subseteq Intake!Events
  BY <1>1, AfterProceed DEF StoresNothing
<1>3. DOMAIN req' = Executions /\ (\A o \in Executions \ {r} : req'[o] = req[o])
      /\ (req'[r] # None => req'[r].phase = "log")
  BY ProceedOK
<1>4. ~Storing(r)'
  BY <1>3 DEF Storing, Intake!Doing
<1> QED BY <1>2, <1>3, <1>4, RequestStep

\* A report does not validate.
LEMMA RefuseStep ==
  ASSUME IntakeInv, NEW r \in Executions, Intake!Refuse(r)
  PROVE  IntakeInv'
<1>1. req[r] \in Sending /\ req[r].at \in 1 .. Len(req[r].batch)
  BY CurrentOK DEF Intake!Refuse
<1>2. StoresNothing /\ Intake!Proceed(r, Intake!Failed(req[r]))
  BY DEF Intake!Refuse, StoresNothing
<1> QED BY <1>1, <1>2, FailedOK, FailureStep

\* Storing a report fails.
LEMMA FailStep ==
  ASSUME IntakeInv, NEW r \in Executions, Intake!Fail(r)
  PROVE  IntakeInv'
<1>1. req[r] \in Sending /\ req[r].at \in 1 .. Len(req[r].batch)
  BY CurrentOK DEF Intake!Fail
<1>2. PICK broken \in BOOLEAN :
        Intake!Proceed(r, [Intake!Failed(req[r]) EXCEPT !.broken = broken])
  BY DEF Intake!Fail
<1> DEFINE f == Intake!Failed(req[r])
           q == [f EXCEPT !.broken = broken]
<1>3. f \in Sending /\ f.failures # 0 /\ f.at = req[r].at /\ f.batch = req[r].batch
  BY <1>1, FailedOK
<1> HIDE DEF f
<1>4. q \in Sending /\ q.failures # 0 /\ q.at = req[r].at /\ q.batch = req[r].batch
  BY <1>3 DEF Sending
<1>5. StoresNothing
  BY DEF Intake!Fail, StoresNothing
<1>6. Intake!Proceed(r, q)
  BY <1>2 DEF f
<1> HIDE DEF q
<1> QED BY <1>1, <1>4, <1>5, <1>6, FailureStep

\* A request dies.
LEMMA DieStep ==
  ASSUME IntakeInv, NEW r \in Executions, Intake!Die(r)
  PROVE  IntakeInv'
<1>1. StoresNothing /\ acked' = acked /\ DOMAIN req' = Executions /\ req'[r] = None
      /\ \A o \in Executions \ {r} : req'[o] = req[o]
  BY DEF Intake!Die, StoresNothing, IntakeInv
<1>2. RequestOK(r)' /\ ~Storing(r)' /\ acked' \subseteq Intake!Events /\ Intake!AckMeansStored'
  BY <1>1 DEF RequestOK, Storing, Intake!Doing, IntakeInv, Intake!AckMeansStored, StoresNothing
<1> QED BY <1>1, <1>2, RequestStep

\* A person begins to change the mapping of a device.
LEMMA BeginMapStep ==
  ASSUME IntakeInv, NEW r \in Executions, NEW row \in MappingRow, Intake!BeginMap(r, row)
  PROVE  IntakeInv'
<1> DEFINE n == [phase |-> "map", batch |-> <<None>>, at |-> 1, row |-> row, seen |-> mapping]
<1>1. StoresNothing /\ acked' = acked /\ req' = [req EXCEPT ![r] = n]
  BY DEF Intake!BeginMap, StoresNothing
<1>2. DOMAIN req' = Executions /\ req'[r] = n /\ \A o \in Executions \ {r} : req'[o] = req[o]
  BY <1>1 DEF IntakeInv
<1>3. n \in Mapping /\ n.seen = mapping /\ n.phase = "map"
  BY DEF Mapping, IntakeInv
<1> HIDE DEF n
<1>4. RequestOK(r)' /\ ~Storing(r)'
  <2>1. MapOK(req[r])'
    BY <1>1, <1>2, <1>3 DEF MapOK, StoresNothing, IntakeInv
  <2>2. ~Storing(r)'
    BY <1>2, <1>3 DEF Storing, Intake!Doing
  <2> QED BY <2>1, <2>2 DEF RequestOK
<1>5. acked' \subseteq Intake!Events /\ Intake!AckMeansStored'
  BY <1>1 DEF IntakeInv, Intake!AckMeansStored, StoresNothing
<1> QED BY <1>1, <1>2, <1>4, <1>5, RequestStep

\* A row written by the columns changed is a row.
LEMMA MergedRow ==
  ASSUME NEW row \in MappingRow, NEW seen \in MappingRow, NEW was \in MappingRow
  PROVE  [c \in DOMAIN row |-> IF row[c] # seen[c] THEN row[c] ELSE was[c]] \in MappingRow
<1>1. DOMAIN row = {"id", "active"}
  BY DEF MappingRow
<1>2. \A c \in {"id", "active"} : row[c] \in (IF c = "id" THEN Canonical ELSE BOOLEAN)
  BY DEF MappingRow
<1>3. \A c \in {"id", "active"} : was[c] \in (IF c = "id" THEN Canonical ELSE BOOLEAN)
  BY DEF MappingRow
<1> QED BY <1>1, <1>2, <1>3 DEF MappingRow

\* The mapping is written, and requests under way see another device from now on.
LEMMA EndMapStep ==
  ASSUME IntakeInv, NEW r \in Executions, Intake!EndMap(r)
  PROVE  IntakeInv'
<1>1. UNCHANGED <<i_event, made, stored, raced, acked>> /\ mapping' = Intake!Merged(req[r])
      /\ req' = [Intake!Spans(mapping') EXCEPT ![r] = None]
  BY DEF Intake!EndMap
<1>2. req[r] # None /\ req[r].phase = "map" /\ MapOK(req[r])
  BY DEF Intake!EndMap, Intake!Doing, IntakeInv, RequestOK, SendOK, Sending
<1>3. mapping' \in MappingRow
  <2>1. req[r].row \in MappingRow /\ (req[r].seen = None \/ req[r].seen \in MappingRow)
    BY <1>2 DEF MapOK, Mapping
  <2>2. CASE req[r].seen = None
    BY <1>1, <2>1, <2>2 DEF Intake!Merged, IntakeInv
  <2>3. CASE req[r].seen # None
    <3>1. req[r].seen \in MappingRow /\ mapping \in MappingRow
      BY <1>2, <2>1, <2>3 DEF MapOK
    <3>2. mapping' = [c \in DOMAIN req[r].row |->
                        IF req[r].row[c] # req[r].seen[c] THEN req[r].row[c] ELSE mapping[c]]
      BY <1>1, <2>3 DEF Intake!Merged
    <3> QED BY <2>1, <3>1, <3>2, MergedRow
  <2> QED BY <2>2, <2>3
<1>4. Intake!Device(mapping') \in Intake!Devices
  BY <1>3 DEF Intake!Device, Intake!Devices, MappingRow
<1> DEFINE d == Intake!Device(mapping')
<1>5. /\ DOMAIN req' = Executions /\ req'[r] = None
      /\ \A o \in Executions \ {r} :
           req'[o] = IF req[o] = None \/ req[o].phase = "map" THEN req[o]
                     ELSE [req[o] EXCEPT !.span = @ \cup {d}]
  BY <1>1 DEF Intake!Spans
<1>6. ASSUME NEW o \in Executions \ {r}
      PROVE  RequestOK(o)' /\ (Storing(o)' => Storing(o) /\ Intake!Current(o)' = Intake!Current(o))
  <2>1. CASE req[o] = None
    BY <1>5, <2>1 DEF RequestOK, Storing, Intake!Doing
  <2>2. CASE req[o] # None /\ MapOK(req[o])
    <3>1. req[o].phase = "map" /\ req'[o] = req[o]
      BY <1>5, <2>2 DEF MapOK, Mapping
    <3> QED BY <1>3, <2>2, <3>1 DEF RequestOK, MapOK, Storing, Intake!Doing
  <2>3. CASE req[o] # None /\ SendOK(req[o])
    <3> DEFINE q == req[o]
    <3>1. q \in Sending /\ q.phase # "map"
      BY <2>3 DEF SendOK, Sending
    <3>2. req'[o] = [q EXCEPT !.span = @ \cup {d}]
      BY <1>5, <2>3, <3>1
    <3>3. q.span \cup {d} \in SUBSET Intake!Devices
      BY <1>4, <3>1 DEF Sending
    <3>4. /\ req'[o] \in Sending /\ req'[o].span = q.span \cup {d} /\ req'[o].phase = q.phase
          /\ req'[o].batch = q.batch /\ req'[o].at = q.at /\ req'[o].failures = q.failures
          /\ req'[o].device = q.device /\ req'[o].found = q.found
      BY <3>1, <3>2, <3>3 DEF Sending
    <3> HIDE DEF d
    <3>5. SendOK(req[o])'
      <4>1. Intake!Device(mapping)' = d
        BY DEF d
      <4> QED BY <1>1, <2>3, <3>4, <4>1 DEF SendOK
    <3>6. Storing(o)' => Storing(o) /\ Intake!Current(o)' = Intake!Current(o)
      BY <2>3, <3>4 DEF Storing, Intake!Doing, Intake!Current
    <3> QED BY <3>5, <3>6 DEF RequestOK
  <2> QED BY <2>1, <2>2, <2>3 DEF IntakeInv, RequestOK
<1>7. RequestOK(r)' /\ ~Storing(r)'
  <2>1. req'[r] = None
    BY <1>5
  <2>2. RequestOK(r)'
    BY <2>1 DEF RequestOK
  <2>3. ~Storing(r)'
    BY <2>1 DEF Storing, Intake!Doing
  <2> QED BY <2>2, <2>3
<1>8. \A o \in Executions : RequestOK(o)'
  BY <1>6, <1>7
<1>9. StoringApart'
  BY <1>1, <1>6, <1>7, ApartStays DEF IntakeInv
<1>10. (\A e \in Intake!Events : EventOK(e)') /\ Intake!OncePerEvent' /\ Intake!AckMeansStored'
  BY <1>1 DEF IntakeInv, EventOK, Intake!OncePerEvent, Intake!AckMeansStored
<1> QED BY <1>1, <1>3, <1>5, <1>8, <1>9, <1>10 DEF IntakeInv

\* A report is looked up by its key.
LEMMA LookStep ==
  ASSUME IntakeInv, NEW r \in Executions, Intake!Look(r)
  PROVE  IntakeInv'
<1> DEFINE e == Intake!Current(r)
           q == req[r]
<1>1. /\ SendOK(q) /\ q \in Sending /\ q # None /\ q.phase = "look"
      /\ e \in Intake!Events /\ e = q.batch[q.at]
  BY CurrentOK DEF Intake!Look, Intake!Doing
<1>2. UNCHANGED <<i_event, made, mapping, stored, acked>>
  BY DEF Intake!Look
<1>3. raced' = IF \E o \in Executions \ {r} : Storing(o) /\ Intake!Current(o) = e
               THEN raced \cup {e} ELSE raced
  BY DEF Intake!Look, Storing
<1>4. /\ DOMAIN req' = Executions /\ \A o \in Executions \ {r} : req'[o] = req[o]
      /\ i_event[e] # None => req'[r] = [q EXCEPT !.phase = "count", !.found = i_event[e].duplicates]
      /\ i_event[e] = None => req'[r] = [q EXCEPT !.phase = "insert", !.device = Intake!Device(mapping)]
  BY DEF Intake!Look, IntakeInv
<1>5. Grows
  BY <1>2, <1>3 DEF IntakeInv, EventOK, Grows
<1>6. RequestOK(r)' /\ Intake!Current(r)' = e
  <2>1. CASE i_event[e] # None
    <3>1. i_event[e].duplicates \in Nat /\ i_event[e].duplicates < stored[e]
      BY <1>1, <2>1 DEF IntakeInv, EventOK, IntakeRow
    <3>2. /\ req'[r] \in Sending /\ req'[r].phase = "count" /\ req'[r].at = q.at
          /\ req'[r].batch = q.batch /\ req'[r].failures = q.failures /\ req'[r].span = q.span
          /\ req'[r].found = i_event[e].duplicates
      <4>1. PICK k \in Nat : k = i_event[e].duplicates
        BY <3>1
      <4>2. req'[r] = [q EXCEPT !.phase = "count", !.found = k] /\ q \in Sending
        BY <1>1, <1>4, <2>1, <4>1
      <4> HIDE DEF q, e
      <4>3. /\ req'[r].phase = "count" /\ req'[r].at = q.at /\ req'[r].batch = q.batch
            /\ req'[r].failures = q.failures /\ req'[r].span = q.span /\ req'[r].found = k
        BY <4>2 DEF Sending
      <4>4. req'[r] \in Sending
        BY <4>1, <4>2 DEF Sending
      <4> QED BY <4>1, <4>3, <4>4
    <3>3. SendOK(req[r])'
      BY <1>1, <1>2, <2>1, <3>1, <3>2 DEF SendOK
    <3> QED BY <1>1, <3>2, <3>3 DEF RequestOK, Intake!Current
  <2>2. CASE i_event[e] = None
    <3>1. Intake!Device(mapping) \in Intake!Devices \cup {None}
      BY DeviceOK DEF IntakeInv
    <3>2. /\ req'[r] \in Sending /\ req'[r].phase = "insert" /\ req'[r].at = q.at
          /\ req'[r].batch = q.batch /\ req'[r].failures = q.failures /\ req'[r].span = q.span
          /\ req'[r].device = Intake!Device(mapping)
      BY <1>1, <1>4, <2>2, <3>1 DEF Sending
    <3>3. SendOK(req[r])'
      BY <1>1, <1>2, <3>2 DEF SendOK
    <3> QED BY <1>1, <3>2, <3>3 DEF RequestOK, Intake!Current
  <2> QED BY <2>1, <2>2
<1>7. \A o \in Executions : RequestOK(o)'
  <2>1. ASSUME NEW o \in Executions \ {r} PROVE RequestOK(o)'
    BY <1>2, <1>4, <1>5, OthersOK
  <2> QED BY <1>6, <2>1
<1>8. StoringApart'
  <2>1. raced \subseteq raced'
    BY <1>3
  <2>2. ASSUME NEW o \in Executions \ {r}
        PROVE  /\ Storing(o)' <=> Storing(o)
               /\ Intake!Current(o)' = Intake!Current(o)
               /\ Storing(o) /\ Intake!Current(o) = e => e \in raced'
    BY <1>3, <1>4, StoringSame
  <2> HIDE DEF e
  <2> QED BY <1>6, <2>1, <2>2 DEF IntakeInv, StoringApart
<1>9. (\A x \in Intake!Events : EventOK(x)') /\ Intake!OncePerEvent' /\ Intake!AckMeansStored'
  BY <1>2, <1>5 DEF IntakeInv, EventOK, Intake!OncePerEvent, Intake!AckMeansStored, Grows
<1> QED BY <1>2, <1>4, <1>7, <1>8, <1>9 DEF IntakeInv

\* A report that was there is counted on it.
LEMMA CountStep ==
  ASSUME IntakeInv, NEW r \in Executions, Intake!Count(r)
  PROVE  IntakeInv'
<1> DEFINE e == Intake!Current(r)
           q == req[r]
           row == i_event[e]
<1>1. /\ SendOK(q) /\ q \in Sending /\ q.phase = "count" /\ q.at \in 1 .. Len(q.batch)
      /\ e \in Intake!Events /\ e = q.batch[q.at] /\ Storing(r)
  BY CurrentOK DEF Intake!Count, Intake!Doing, Storing
<1>2. UNCHANGED <<made, mapping, raced>> /\ Intake!Proceed(r, q)
      /\ i_event' = [i_event EXCEPT ![e].duplicates = q.found + 1]
      /\ stored' = [stored EXCEPT ![e] = @ + 1]
  BY DEF Intake!Count
<1>3. /\ row # None /\ q.found < stored[e] /\ (e \notin raced => q.found = row.duplicates)
      /\ q.found \in Nat /\ stored[e] \in Nat /\ row \in IntakeRow /\ EventOK(e)
  BY <1>1 DEF SendOK, Sending, IntakeInv, EventOK
<1>4. /\ DOMAIN i_event' = Intake!Events /\ DOMAIN stored' = Intake!Events
      /\ stored'[e] = stored[e] + 1
      /\ \A x \in Intake!Events \ {e} : i_event'[x] = i_event[x] /\ stored'[x] = stored[x]
  BY <1>1, <1>2 DEF IntakeInv
<1>5. /\ i_event'[e] \in IntakeRow /\ i_event'[e].duplicates = q.found + 1
      /\ i_event'[e].device = row.device /\ i_event'[e].span = row.span
  <2>1. q.found + 1 \in Nat /\ i_event'[e] = [row EXCEPT !.duplicates = q.found + 1]
    BY <1>1, <1>2, <1>3 DEF IntakeInv
  <2> HIDE DEF row, q, e
  <2>2. /\ i_event'[e].duplicates = q.found + 1
        /\ i_event'[e].device = row.device /\ i_event'[e].span = row.span
    BY <1>3, <2>1 DEF IntakeRow
  <2> QED BY <1>3, <2>1, <2>2 DEF IntakeRow
<1>6. i_event'[e] # None
  BY <1>5, OperationsAssumption DEF Intake!IntakeAssumption, IntakeRow
<1> HIDE DEF e, q, row
<1>7. Grows
  BY <1>2, <1>3, <1>4, <1>6 DEF Grows, IntakeInv, EventOK
<1>8. \A x \in Intake!Events : EventOK(x)'
  <2>1. ASSUME NEW x \in Intake!Events, x = e PROVE EventOK(x)'
    BY <1>2, <1>3, <1>4, <1>5, <1>6, <2>1 DEF EventOK, row
  <2>2. ASSUME NEW x \in Intake!Events \ {e} PROVE EventOK(x)'
    BY <1>2, <1>4 DEF EventOK, IntakeInv
  <2> QED BY <2>1, <2>2
<1>9. Intake!OncePerEvent'
  BY <1>2, <1>3, <1>4, <1>6 DEF IntakeInv, Intake!OncePerEvent, row
<1>10. RequestOK(r)' /\ Intake!AckMeansStored' /\ acked' \subseteq Intake!Events
  <2>1. \A i \in 1 .. q.at : q.batch[i] \in Intake!Events
    BY <1>1 DEF Sending, BatchesOf
  <2>2. q.failures = 0 => \A i \in 1 .. q.at : i_event'[q.batch[i]] # None
    BY <1>1, <1>6, <1>7, <2>1 DEF SendOK, Grows
  <2> QED BY <1>1, <1>2, <1>7, <2>2, AfterProceed
<1>11. /\ DOMAIN req' = Executions /\ \A o \in Executions \ {r} : req'[o] = req[o]
       /\ req'[r] # None => req'[r].phase = "log"
  BY <1>1, <1>2, ProceedOK
<1>12. ASSUME NEW o \in Executions \ {r} PROVE RequestOK(o)'
  <2>1. ASSUME Intake!Doing(o, "count"), Intake!Current(o) \notin raced'
        PROVE  i_event'[Intake!Current(o)] = i_event[Intake!Current(o)]
    <3>1. Intake!Current(o) \in Intake!Events
      BY <2>1, CurrentOK
    <3>2. Intake!Current(o) # e
      BY <1>1, <1>2, <2>1 DEF IntakeInv, StoringApart, Storing, e
    <3> QED BY <1>4, <3>1, <3>2
  <2> QED BY <1>2, <1>7, <1>11, <2>1, OthersOK
<1>13. ~Storing(r)'
  BY <1>11 DEF Storing, Intake!Doing
<1>14. StoringApart'
  BY <1>2, <1>11, <1>13, ApartStays, StoringSame DEF IntakeInv
<1> QED
  BY <1>2, <1>4, <1>8, <1>9, <1>10, <1>11, <1>12, <1>14 DEF IntakeInv

\* A report another request has inserted meanwhile is counted on it.
LEMMA InsertTakenStep ==
  ASSUME IntakeInv, NEW r \in Executions, Intake!Insert(r), Intake!Taken(Intake!Current(r))
  PROVE  IntakeInv'
<1> DEFINE e == Intake!Current(r)
           q == req[r]
<1>1. /\ SendOK(q) /\ q \in Sending /\ q.phase = "insert" /\ q.at \in 1 .. Len(q.batch)
      /\ e \in Intake!Events /\ e = q.batch[q.at] /\ Storing(r)
  BY CurrentOK DEF Intake!Insert, Intake!Doing, Storing
<1>2. StoresNothing /\ acked' = acked /\ i_event[e] # None
      /\ req' = [req EXCEPT ![r].phase = "count", ![r].found = i_event[e].duplicates]
  BY DEF Intake!Insert, Intake!Taken, StoresNothing
<1>3. i_event[e].duplicates \in Nat /\ i_event[e].duplicates < stored[e]
  BY <1>1, <1>2 DEF IntakeInv, EventOK, IntakeRow
<1>4. /\ DOMAIN req' = Executions /\ \A o \in Executions \ {r} : req'[o] = req[o]
      /\ req'[r] = [q EXCEPT !.phase = "count", !.found = i_event[e].duplicates]
  BY <1>2 DEF IntakeInv
<1>5. /\ req'[r] \in Sending /\ req'[r].phase = "count" /\ req'[r].at = q.at
      /\ req'[r].batch = q.batch /\ req'[r].failures = q.failures /\ req'[r].span = q.span
      /\ req'[r].found = i_event[e].duplicates
  <2>1. PICK k \in Nat : k = i_event[e].duplicates
    BY <1>3
  <2>2. req'[r] = [q EXCEPT !.phase = "count", !.found = k]
    BY <1>4, <2>1
  <2>3. q \in Sending
    BY <1>1
  <2> HIDE DEF q, e
  <2>4. /\ req'[r].phase = "count" /\ req'[r].at = q.at /\ req'[r].batch = q.batch
        /\ req'[r].failures = q.failures /\ req'[r].span = q.span /\ req'[r].found = k
    BY <2>2, <2>3 DEF Sending
  <2>5. req'[r] \in Sending
    BY <2>1, <2>2, <2>3 DEF Sending
  <2> QED BY <2>1, <2>4, <2>5
<1>6. RequestOK(r)' /\ Intake!Current(r)' = e
  <2>1. SendOK(req[r])'
    BY <1>1, <1>2, <1>3, <1>5 DEF SendOK, StoresNothing
  <2> QED BY <1>1, <1>5, <2>1 DEF RequestOK, Intake!Current
<1>7. Grows /\ Intake!OncePerEvent' /\ \A x \in Intake!Events : EventOK(x)'
  BY <1>2, NothingStored
<1>8. \A o \in Executions : RequestOK(o)'
  <2>1. ASSUME NEW o \in Executions \ {r} PROVE RequestOK(o)'
    BY <1>2, <1>4, <1>7, OthersOK DEF StoresNothing
  <2> QED BY <1>6, <2>1
<1>9. StoringApart'
  <2>1. \A o \in Executions : Storing(o)' => Storing(o) /\ Intake!Current(o)' = Intake!Current(o)
    BY <1>1, <1>4, <1>6, StoringSame
  <2> QED BY <1>2, <2>1, ApartStays DEF IntakeInv, StoresNothing
<1>10. Intake!AckMeansStored'
  BY <1>2 DEF IntakeInv, Intake!AckMeansStored, StoresNothing
<1> QED BY <1>2, <1>4, <1>7, <1>8, <1>9, <1>10 DEF IntakeInv, StoresNothing

\* A new report is inserted.
LEMMA InsertNewStep ==
  ASSUME IntakeInv, NEW r \in Executions, Intake!Insert(r), ~Intake!Taken(Intake!Current(r))
  PROVE  IntakeInv'
<1> DEFINE e == Intake!Current(r)
           q == req[r]
<1>1. /\ SendOK(q) /\ q \in Sending /\ q.phase = "insert" /\ q.at \in 1 .. Len(q.batch)
      /\ e \in Intake!Events /\ e = q.batch[q.at] /\ Storing(r)
  BY CurrentOK DEF Intake!Insert, Intake!Doing, Storing
<1>2. /\ UNCHANGED <<mapping, raced>> /\ Intake!Proceed(r, q) /\ i_event[e] = None
      /\ i_event' = [i_event EXCEPT ![e] = [duplicates |-> 0, device |-> q.device, span |-> q.span]]
      /\ made' = [made EXCEPT ![e] = [n \in DOMAIN @ |-> @[n] + Intake!Records(e)[n]]]
      /\ stored' = [stored EXCEPT ![e] = @ + 1]
  BY DEF Intake!Insert, Intake!Taken
<1>3. stored[e] = 0
  BY <1>1, <1>2 DEF IntakeInv, EventOK
<1>4. /\ DOMAIN i_event' = Intake!Events /\ DOMAIN stored' = Intake!Events
      /\ DOMAIN made' = Intake!Events /\ stored'[e] = 1
      /\ \A x \in Intake!Events \ {e} :
           i_event'[x] = i_event[x] /\ stored'[x] = stored[x] /\ made'[x] = made[x]
  BY <1>1, <1>2, <1>3 DEF IntakeInv
<1>5. /\ i_event'[e] = [duplicates |-> 0, device |-> q.device, span |-> q.span]
      /\ made'[e] = [n \in DOMAIN made[e] |-> made[e][n] + Intake!Records(e)[n]]
  BY <1>1, <1>2 DEF IntakeInv
<1>6. q.device \in q.span /\ q.span \in SUBSET Intake!Devices
  BY <1>1 DEF SendOK, Sending
<1>7. /\ i_event'[e] \in IntakeRow /\ i_event'[e].duplicates = 0
      /\ i_event'[e].device \in i_event'[e].span
  BY <1>5, <1>6 DEF IntakeRow
<1>8. i_event'[e] # None
  BY <1>7, OperationsAssumption DEF Intake!IntakeAssumption, IntakeRow
<1>9. made'[e] = Intake!Records(e)
  <2>1. made[e] = [run |-> 0, alert |-> 0, task |-> 0, outbox |-> 0]
    BY <1>1, <1>2 DEF IntakeInv, Intake!OncePerEvent
  <2>2. \A n \in {"run", "alert", "task", "outbox"} : 0 + Intake!Records(e)[n] = Intake!Records(e)[n]
    BY DEF Intake!Records
  <2> QED BY <1>5, <2>1, <2>2 DEF Intake!Records
<1> HIDE DEF e, q
<1>10. Grows
  BY <1>2, <1>3, <1>4, <1>8 DEF Grows, IntakeInv, EventOK
<1>11. \A x \in Intake!Events : EventOK(x)'
  <2>1. ASSUME NEW x \in Intake!Events, x = e PROVE EventOK(x)'
    BY <1>4, <1>7, <1>8, <2>1 DEF EventOK
  <2>2. ASSUME NEW x \in Intake!Events \ {e} PROVE EventOK(x)'
    BY <1>2, <1>4 DEF EventOK, IntakeInv
  <2> QED BY <2>1, <2>2
<1>12. Intake!OncePerEvent'
  <2>1. made'[e] = [run |-> 1, alert |-> IF Intake!Triggers(e) THEN 1 ELSE 0,
                    task |-> IF Intake!Triggers(e) THEN 1 ELSE 0, outbox |-> 1]
    BY <1>9 DEF Intake!Records
  <2> QED BY <1>4, <1>8, <2>1 DEF IntakeInv, Intake!OncePerEvent
<1>13. RequestOK(r)' /\ Intake!AckMeansStored' /\ acked' \subseteq Intake!Events
  <2>1. \A i \in 1 .. q.at : q.batch[i] \in Intake!Events
    BY <1>1 DEF Sending, BatchesOf
  <2>2. q.failures = 0 => \A i \in 1 .. q.at : i_event'[q.batch[i]] # None
    BY <1>1, <1>8, <1>10, <2>1 DEF SendOK, Grows
  <2> QED BY <1>1, <1>2, <1>10, <2>2, AfterProceed
<1>14. /\ DOMAIN req' = Executions /\ \A o \in Executions \ {r} : req'[o] = req[o]
       /\ req'[r] # None => req'[r].phase = "log"
  BY <1>1, <1>2, ProceedOK
<1>15. ASSUME NEW o \in Executions \ {r} PROVE RequestOK(o)'
  <2>1. ASSUME Intake!Doing(o, "count"), Intake!Current(o) \notin raced'
        PROVE  i_event'[Intake!Current(o)] = i_event[Intake!Current(o)]
    <3>1. Intake!Current(o) \in Intake!Events /\ i_event[Intake!Current(o)] # None
      BY <2>1, CurrentOK DEF SendOK, Intake!Doing
    <3> QED BY <1>2, <1>4, <3>1
  <2> QED BY <1>2, <1>10, <1>14, <2>1, OthersOK
<1>16. ~Storing(r)'
  BY <1>14 DEF Storing, Intake!Doing
<1>17. StoringApart'
  BY <1>2, <1>14, <1>16, ApartStays, StoringSame DEF IntakeInv
<1> QED
  BY <1>2, <1>4, <1>11, <1>12, <1>13, <1>14, <1>15, <1>17 DEF IntakeInv

\* Every step of the intake.
LEMMA IntakeStep == IntakeInv /\ [Intake!Next]_intake => IntakeInv'
<1> SUFFICES ASSUME IntakeInv, [Intake!Next]_intake PROVE IntakeInv'
  OBVIOUS
<1>0. CASE UNCHANGED intake
  BY <1>0 DEF intake, IntakeInv, EventOK, RequestOK, SendOK, MapOK, StoringApart, Storing,
     Intake!Doing,
     Intake!Current, Intake!OncePerEvent, Intake!AckMeansStored
<1>1. ASSUME NEW r \in Executions, NEW x \in Intake!Events, Intake!Send(r, <<x>>, FALSE)
      PROVE  IntakeInv'
  <2>1. <<x>> \in Seq(Intake!Events) /\ <<x>> # <<>>
    OBVIOUS
  <2> QED BY <1>1, <2>1, SendStep
<1>2. ASSUME NEW r \in Executions, NEW batch \in Batches, Intake!Send(r, batch, TRUE)
      PROVE  IntakeInv'
  BY <1>2, SendStep, OperationsAssumption DEF Intake!IntakeAssumption
<1>3. ASSUME NEW r \in Executions, NEW row \in MappingRow, Intake!BeginMap(r, row)
      PROVE  IntakeInv'
  BY <1>3, BeginMapStep
<1>4. ASSUME NEW r \in Executions,
             \/ Intake!Log(r) \/ Intake!Refuse(r) \/ Intake!Look(r) \/ Intake!Insert(r)
             \/ Intake!Count(r) \/ Intake!Fail(r) \/ Intake!Die(r) \/ Intake!EndMap(r)
      PROVE  IntakeInv'
  BY <1>4, LogStep, RefuseStep, LookStep, InsertTakenStep, InsertNewStep, CountStep, FailStep,
     DieStep, EndMapStep
<1> QED BY <1>0, <1>1, <1>2, <1>3, <1>4 DEF Intake!Next, MappingRow

\* The steps of the instance, seen from it.
LEMMA IntakeFocus ==
  focus = "intake" /\ OperationsStep => focus' = "intake" /\ [Intake!Next]_intake
BY DEF OperationsStep, OperationsNext, intake, parts

\* However reports of one event race, and whoever changes mappings meanwhile: one row per event,
\* repetitions are counted on it (exactly unless two were stored at once), its device is one the
\* mapping gave while it was received, and what was acknowledged is stored
\* (event_ingest_service).
THEOREM IntakeStaysSound == OperationsSpec => []IntakeSound
<1> DEFINE I == focus = "intake" => IntakeInv
<1>1. OperationsInit => I
  BY IntakeInit DEF OperationsInit
<1>2. I /\ [OperationsNext]_<<focus, vars, parts>> => I'
  BY IntakeStep, IntakeFocus DEF OperationsNext, OperationsStep
<1>3. IntakeInv => Intake!IntakeSound
  <2> SUFFICES ASSUME IntakeInv PROVE Intake!IntakeSound
    OBVIOUS
  <2>1. Intake!TypeOK
    BY DEF IntakeInv, RequestOK, SendOK, MapOK, Sending, Mapping, EventOK, IntakeRow, MappingRow,
       Intake!TypeOK
  <2>2. Intake!DuplicatesCounted /\ Intake!DeviceIsCurrent
    BY DEF IntakeInv, EventOK, Intake!DuplicatesCounted, Intake!DeviceIsCurrent
  <2> QED BY <2>1, <2>2 DEF IntakeInv, Intake!IntakeSound
<1>4. I => IntakeSound
  BY <1>3 DEF IntakeSound
<1> QED BY <1>1, <1>2, <1>4, PTL DEF OperationsSpec

-----------------------------------------------------------------------------
(* The risk ledger.                                                         *)

SyncRequest ==
  [op : {"sync"}, job : BOOLEAN, found : {"", "succeeded", "failed"},
   to : [Alerts -> Ledger!Statuses \cup {None}], fresh : SUBSET Alerts]
MoveRequest == [op : {"move"}, on : Alerts, to : Ledger!Statuses]

Urging(r, a) == b_req[r] # None /\ b_req[r].op = "urge" /\ b_req[r].on = a

\* No count is ahead of what was asked, and a closed risk says when.
RiskOK(a) ==
  /\ asked[a] \in 0 .. MaxUrges
  /\ risk[a] = None => asked[a] = 0
  /\ risk[a] # None =>
       /\ risk[a] \in Ledger!Rows /\ risk[a].urges <= asked[a]
       /\ risk[a].status = "closed" => risk[a].closedAt

\* Urges and moves are about risks that are in the ledger.
LedgerRequestOK(r) ==
  b_req[r] # None =>
    \/ b_req[r] \in SyncRequest
    \/ b_req[r] \in Ledger!Urges /\ risk[b_req[r].on] # None /\ b_req[r].urges <= asked[b_req[r].on]
    \/ b_req[r] \in MoveRequest /\ risk[b_req[r].on] # None

\* While requests come one at a time: what a person closed is not about to be written, and
\* the count lacks no urge but the one under way.
OneAtATime ==
  /\ \A r, k \in Executions : b_req[r] # None /\ b_req[k] # None => r = k
  /\ \A a \in byHand : risk[a] # None /\ risk[a].status = "closed"
  /\ \A r \in Executions, a \in byHand :
       b_req[r] # None =>
         (b_req[r].op = "sync" => b_req[r].to[a] = None) /\ ~Urging(r, a)
  /\ \A a \in Alerts : risk[a] # None =>
       IF \E r \in Executions : Urging(r, a) THEN risk[a].urges + 1 = asked[a]
       ELSE risk[a].urges = asked[a]
  /\ \A r \in Executions, a \in Alerts : Urging(r, a) => b_req[r].urges = asked[a]

\* While runs of the job come one at a time, each has read what the job shows.
RunsApart ==
  /\ \A r, k \in Executions : Ledger!Running(r) /\ Ledger!Running(k) => r = k
  /\ \A r \in Executions : Ledger!Running(r) => b_req[r].found = job
JobOK == Ledger!JobTellsOutcome /\ (~met => RunsApart)

LedgerInv ==
  /\ b_alert \in [Alerts -> {"pending", "confirmed", "closed"}]
  /\ job \in {"", "succeeded", "failed"} /\ crossed \in BOOLEAN /\ met \in BOOLEAN
  /\ lost \in BOOLEAN
  /\ DOMAIN risk = Alerts /\ DOMAIN asked = Alerts /\ DOMAIN b_req = Executions
  /\ byHand \subseteq Alerts
  /\ \A a \in Alerts : RiskOK(a)
  /\ \A r \in Executions : LedgerRequestOK(r)
  /\ ~crossed => OneAtATime
  /\ JobOK

\* The ledger begins empty.
LEMMA LedgerInit == Ledger!Init => LedgerInv
<1> SUFFICES ASSUME Ledger!Init PROVE LedgerInv
  OBVIOUS
<1>0. 0 \in 0 .. MaxUrges
  BY OperationsAssumption DEF Ledger!LedgerAssumption
<1> USE DEF Ledger!Init
<1>1. \A a \in Alerts : risk[a] = None /\ asked[a] = 0
  OBVIOUS
<1>2. \A a \in Alerts : RiskOK(a)
  BY <1>0, <1>1 DEF RiskOK
<1>3. \A r \in Executions : b_req[r] = None
  OBVIOUS
<1>4. \A r \in Executions : LedgerRequestOK(r)
  BY <1>3 DEF LedgerRequestOK
<1>5. OneAtATime
  BY <1>1, <1>3 DEF OneAtATime, Urging
<1>6. JobOK
  BY <1>3 DEF JobOK, RunsApart, Ledger!Running, Ledger!JobTellsOutcome
<1> QED BY <1>2, <1>4, <1>5, <1>6 DEF LedgerInv

\* A row that is written is a row; a status of "closed" comes with its time, and the count of
\* urges is kept.
LEMMA WrittenOK ==
  ASSUME NEW row, row = None \/ row \in Ledger!Rows, NEW to \in Ledger!Statuses
  PROVE  LET n == Ledger!Written(row, to) IN
         /\ n \in Ledger!Rows /\ n # None /\ n.status = to
         /\ n.urges = IF row = None THEN 0 ELSE row.urges
         /\ to = "closed" => n.closedAt
<1> DEFINE n == Ledger!Written(row, to)
<1>1. (to = "closed" \/ (row # None /\ row.closedAt)) \in BOOLEAN
  OBVIOUS
<1>2. n \in Ledger!Rows /\ n.status = to /\ n.urges = IF row = None THEN 0 ELSE row.urges
  BY <1>1 DEF Ledger!Rows, Ledger!Written
<1>3. to = "closed" => n.closedAt
  BY DEF Ledger!Written
<1>4. n # None
  BY <1>2, OperationsAssumption DEF Ledger!LedgerAssumption, Ledger!Rows
<1> QED BY <1>2, <1>3, <1>4

\* What is no run of the job leaves what it shows, and those who read it.
LEMMA JobStays ==
  ASSUME LedgerInv, job' = job, met' = met, lost' = lost, outcome' = outcome,
         \A k \in Executions : Ledger!Running(k)' => Ledger!Running(k) /\ b_req'[k] = b_req[k]
  PROVE  JobOK'
<1>1. JobOK
  BY DEF LedgerInv
<1>2. Ledger!JobTellsOutcome'
  BY <1>1 DEF JobOK, Ledger!JobTellsOutcome
<1>3. ASSUME ~met' PROVE RunsApart'
  <2>1. RunsApart
    BY <1>1, <1>3 DEF JobOK
  <2> QED BY <2>1 DEF RunsApart
<1> QED BY <1>2, <1>3 DEF JobOK

\* The disposal of an alert goes on.
LEMMA LedgerProgress ==
  ASSUME LedgerInv, NEW a \in Alerts, Ledger!Progress(a)
  PROVE  LedgerInv'
<1> USE DEF Ledger!Progress
<1>1. b_alert' \in [Alerts -> {"pending", "confirmed", "closed"}]
  BY DEF LedgerInv
<1>2. (\A e \in Alerts : RiskOK(e))'
  BY DEF LedgerInv, RiskOK
<1>3. (\A r \in Executions : LedgerRequestOK(r))'
  BY DEF LedgerInv, LedgerRequestOK
<1>4. OneAtATime => OneAtATime'
  BY DEF OneAtATime, Urging
<1>5. JobOK'
  BY JobStays DEF Ledger!Running
<1> QED BY <1>1, <1>2, <1>3, <1>4, <1>5 DEF LedgerInv

\* A page, or the job, reads the alerts and decides what the rows shall be; rows that are closed
\* it leaves alone.
LEMMA LedgerBeginSync ==
  ASSUME LedgerInv, NEW r \in Executions, NEW byJob \in BOOLEAN, Ledger!BeginSync(r, byJob)
  PROVE  LedgerInv'
<1> USE DEF Ledger!BeginSync, Ledger!Begin
<1> DEFINE new == [op |-> "sync", job |-> byJob, found |-> job, to |-> [a \in Alerts |-> Ledger!Synced(a)],
                   fresh |-> {a \in Alerts : risk[a] = None}]
<1>1. \A a \in Alerts : Ledger!Synced(a) \in Ledger!Statuses \cup {None}
  BY DEF Ledger!Synced, Ledger!Statuses, LedgerInv, RiskOK, Ledger!Rows
<1>2. new \in SyncRequest
  BY <1>1 DEF SyncRequest, LedgerInv
<1>3. \A a \in Alerts : risk[a] # None /\ risk[a].status = "closed" => Ledger!Synced(a) = None
  BY DEF Ledger!Synced
<1>4. new.op = "sync" /\ (\A a \in Alerts : new.to[a] = Ledger!Synced(a))
  OBVIOUS
<1>5. b_req' = [b_req EXCEPT ![r] = new] /\ b_req[r] = None
  OBVIOUS
<1> HIDE DEF new
<1>6. b_req'[r] = new /\ DOMAIN b_req' = Executions
  BY <1>5 DEF LedgerInv
<1>7. \A k \in Executions : k # r => b_req'[k] = b_req[k]
  BY <1>5 DEF LedgerInv
<1>8. (\A a \in Alerts : RiskOK(a))'
  BY DEF LedgerInv, RiskOK
<1>9. ASSUME NEW k \in Executions PROVE LedgerRequestOK(k)'
  <2>1. CASE k = r
    BY <2>1, <1>2, <1>6 DEF LedgerRequestOK
  <2>2. CASE k # r
    BY <2>2, <1>7 DEF LedgerInv, LedgerRequestOK
  <2> QED BY <2>1, <2>2
<1>10. ASSUME ~crossed' PROVE OneAtATime'
  <2>1. (\A k \in Executions : b_req[k] = None) /\ OneAtATime
    BY <1>10 DEF LedgerInv
  <2>2. \A k \in Executions : k # r => b_req'[k] = None
    BY <2>1, <1>7
  <2>3. \A k \in Executions, a \in Alerts : ~Urging(k, a) /\ ~Urging(k, a)'
    BY <2>1, <2>2, <1>4, <1>6 DEF Urging
  <2>4. (\A a \in byHand : risk[a] # None /\ risk[a].status = "closed")'
    BY <2>1 DEF OneAtATime
  <2>5. (\A k \in Executions, a \in byHand :
           b_req[k] # None => (b_req[k].op = "sync" => b_req[k].to[a] = None) /\ ~Urging(k, a))'
    BY <2>2, <2>3, <2>4, <1>3, <1>4, <1>6 DEF LedgerInv
  <2>6. (\A a \in Alerts : risk[a] # None =>
           IF \E k \in Executions : Urging(k, a) THEN risk[a].urges + 1 = asked[a]
           ELSE risk[a].urges = asked[a])'
    BY <2>1, <2>3 DEF OneAtATime
  <2> QED BY <2>2, <2>3, <2>4, <2>5, <2>6 DEF OneAtATime
<1>11. JobOK'
  <2>1. JobOK /\ job' = job /\ outcome' = outcome /\ lost' = lost /\ (met => met')
    BY DEF LedgerInv
  <2>2. Ledger!JobTellsOutcome'
    BY <2>1 DEF JobOK, Ledger!JobTellsOutcome
  <2>3. ASSUME ~met' PROVE RunsApart'
    <3>1. RunsApart /\ ~met /\ (byJob => \A k \in Executions : ~Ledger!Running(k))
      BY <2>1, <2>3 DEF JobOK
    <3>2. new.job = byJob /\ new.found = job
      BY DEF new
    <3>3. Ledger!Running(r)' => byJob /\ b_req'[r].found = job
      BY <3>2, <1>6 DEF Ledger!Running
    <3>4. \A k \in Executions : k # r /\ Ledger!Running(k)' =>
             Ledger!Running(k) /\ b_req'[k] = b_req[k]
      BY <1>7 DEF Ledger!Running
    <3> QED BY <3>1, <3>3, <3>4, <2>1 DEF RunsApart
  <2> QED BY <2>2, <2>3 DEF JobOK
<1>12. crossed' \in BOOLEAN /\ met' \in BOOLEAN
  BY DEF LedgerInv
<1> QED BY <1>6, <1>8, <1>9, <1>10, <1>11, <1>12 DEF LedgerInv

\* What every end of a request leaves: that request alone is gone.
LEMMA LedgerEnds ==
  ASSUME LedgerInv, NEW r \in Executions, b_req[r] # None,
         b_req' = [b_req EXCEPT ![r] = None]
  PROVE  /\ DOMAIN b_req' = Executions
         /\ b_req'[r] = None
         /\ \A k \in Executions : k # r => b_req'[k] = b_req[k]
         /\ ~crossed => \A k \in Executions : b_req'[k] = None
<1>1. /\ DOMAIN b_req' = Executions
      /\ b_req'[r] = None
      /\ \A k \in Executions : k # r => b_req'[k] = b_req[k]
  BY DEF LedgerInv
<1>2. ASSUME ~crossed, NEW k \in Executions PROVE b_req'[k] = None
  <2>1. OneAtATime
    BY <1>2 DEF LedgerInv
  <2> QED BY <2>1, <1>1 DEF OneAtATime
<1> QED BY <1>1, <1>2

\* A write that keeps what the requests under way lean on keeps them in order.
LEMMA RequestsStay ==
  ASSUME LedgerInv, NEW r \in Executions, b_req[r] # None,
         b_req' = [b_req EXCEPT ![r] = None],
         \A a \in Alerts : risk[a] # None => risk'[a] # None,
         asked' = asked
  PROVE  (\A k \in Executions : LedgerRequestOK(k))'
<1> SUFFICES ASSUME NEW k \in Executions PROVE LedgerRequestOK(k)'
  OBVIOUS
<1>1. b_req'[k] # None => b_req'[k] = b_req[k]
  BY LedgerEnds
<1>2. LedgerRequestOK(k)
  BY DEF LedgerInv
<1> QED BY <1>1, <1>2 DEF LedgerRequestOK, Ledger!Urges, MoveRequest

\* A run that ends has written its status or read it, unless another run met it.
LEMMA JobEnds ==
  ASSUME LedgerInv, NEW r \in Executions, b_req[r] # None, b_req[r].op = "sync",
         b_req' = [b_req EXCEPT ![r] = None], NEW noted, met' = met,
         job' # job => b_req[r].job,
         ~lost' => /\ ~lost /\ job' = Ledger!Noted(b_req[r], noted)
                   /\ outcome' = IF b_req[r].job THEN noted ELSE outcome
  PROVE  JobOK'
<1>1. JobOK
  BY DEF LedgerInv
<1>2. \A k \in Executions : Ledger!Running(k)' =>
        k # r /\ Ledger!Running(k) /\ b_req'[k] = b_req[k]
  BY LedgerEnds DEF Ledger!Running
<1>3. b_req[r].job => Ledger!Running(r)
  BY DEF Ledger!Running
<1>4. ASSUME ~met', ~lost' PROVE job' = outcome'
  <2>1. RunsApart /\ Ledger!JobTellsOutcome /\ ~met /\ ~lost
    BY <1>1, <1>4 DEF JobOK
  <2>2. CASE b_req[r].job
    <3>1. b_req[r].found = job
      BY <2>1, <2>2, <1>3 DEF RunsApart
    <3> QED BY <2>2, <3>1, <1>4 DEF Ledger!Noted
  <2>3. CASE ~b_req[r].job
    BY <2>1, <2>3, <1>4 DEF Ledger!Noted, Ledger!JobTellsOutcome
  <2> QED BY <2>2, <2>3
<1>5. ASSUME ~met' PROVE RunsApart'
  <2>1. RunsApart
    BY <1>1, <1>5 DEF JobOK
  <2>2. ASSUME NEW k \in Executions, Ledger!Running(k)' PROVE job' = job
    BY <2>1, <2>2, <1>2, <1>3 DEF RunsApart
  <2>3. \A i, k \in Executions : Ledger!Running(i)' /\ Ledger!Running(k)' => i = k
    BY <2>1, <1>2 DEF RunsApart
  <2>4. \A k \in Executions : Ledger!Running(k)' => b_req'[k].found = job'
    BY <2>1, <2>2, <1>2 DEF RunsApart
  <2> QED BY <2>3, <2>4 DEF RunsApart
<1> QED BY <1>4, <1>5 DEF JobOK, Ledger!JobTellsOutcome

\* The page or job commits what it decided, or loses to a row inserted meanwhile.
LEMMA LedgerEndSync ==
  ASSUME LedgerInv, NEW r \in Executions, Ledger!EndSync(r)
  PROVE  LedgerInv'
<1> DEFINE q == b_req[r]
<1>1. /\ b_req[r] # None /\ b_req[r].op = "sync"
      /\ b_req' = [b_req EXCEPT ![r] = None]
      /\ UNCHANGED <<b_alert, moves, runs, asked, byHand, crossed, met>>
  BY DEF Ledger!EndSync
<1>2. q \in SyncRequest
  BY <1>1 DEF LedgerInv, LedgerRequestOK, Ledger!Urges, MoveRequest
<1>3. /\ \/ risk' = risk
         \/ risk' = [a \in Alerts |-> IF q.to[a] = None THEN risk[a]
                                      ELSE Ledger!Written(risk[a], q.to[a])]
      /\ job' \in {job, "succeeded"}
      /\ lost' \in BOOLEAN
      /\ ~lost' =>
           /\ ~lost
           /\ job' = Ledger!Noted(q, "succeeded")
           /\ outcome' = IF q.job THEN "succeeded" ELSE outcome
      /\ job' # job => q.job
  BY DEF Ledger!EndSync, LedgerInv, Ledger!Noted
<1> HIDE DEF q
<1>4. ASSUME NEW a \in Alerts
      PROVE  \/ risk'[a] = risk[a]
             \/ /\ q.to[a] # None /\ q.to[a] \in Ledger!Statuses
                /\ risk'[a] = Ledger!Written(risk[a], q.to[a])
  BY <1>2, <1>3 DEF SyncRequest
<1>5. DOMAIN risk' = Alerts
  BY <1>3 DEF LedgerInv
<1>6. ASSUME NEW a \in Alerts
      PROVE  /\ risk[a] # None => risk'[a] # None /\ risk'[a].urges = risk[a].urges
             /\ risk[a] = None /\ risk'[a] # None => risk'[a].urges = 0
             /\ RiskOK(a)'
  <2>1. RiskOK(a)
    BY DEF LedgerInv
  <2>2. CASE risk'[a] = risk[a]
    BY <2>1, <2>2, <1>1 DEF RiskOK
  <2>3. CASE /\ q.to[a] # None /\ q.to[a] \in Ledger!Statuses
             /\ risk'[a] = Ledger!Written(risk[a], q.to[a])
    <3>1. risk[a] = None \/ risk[a] \in Ledger!Rows
      BY <2>1 DEF RiskOK
    <3>2. /\ risk'[a] \in Ledger!Rows /\ risk'[a] # None /\ risk'[a].status = q.to[a]
          /\ risk'[a].urges = IF risk[a] = None THEN 0 ELSE risk[a].urges
          /\ q.to[a] = "closed" => risk'[a].closedAt
      BY <2>3, <3>1, WrittenOK
    <3> QED BY <2>1, <3>2, <1>1 DEF RiskOK
  <2> QED BY <2>2, <2>3, <1>4
<1>7. (\A k \in Executions : LedgerRequestOK(k))'
  BY <1>1, <1>6, RequestsStay
<1>8. ASSUME ~crossed' PROVE OneAtATime'
  <2>1. ~crossed /\ OneAtATime
    BY <1>8, <1>1 DEF LedgerInv
  <2>2. \A k \in Executions : b_req'[k] = None
    BY <2>1, <1>1, LedgerEnds
  <2>3. \A k \in Executions, a \in Alerts : ~Urging(k, a) /\ ~Urging(k, a)'
    BY <2>1, <2>2, <1>1 DEF Urging, OneAtATime
  <2>4. ASSUME NEW a \in byHand PROVE risk'[a] # None /\ risk'[a].status = "closed"
    <3>1. a \in Alerts /\ risk[a] # None /\ risk[a].status = "closed" /\ q.to[a] = None
      BY <2>1, <1>1 DEF OneAtATime, LedgerInv, q
    <3> QED BY <3>1, <1>4
  <2>5. ASSUME NEW a \in Alerts, risk'[a] # None PROVE risk'[a].urges = asked'[a]
    <3>1. RiskOK(a) /\ (risk[a] # None => risk[a].urges = asked[a])
      BY <2>1, <2>3 DEF OneAtATime, LedgerInv
    <3> QED BY <3>1, <2>5, <1>1, <1>6 DEF RiskOK
  <2> QED BY <2>2, <2>3, <2>4, <2>5, <1>1 DEF OneAtATime
<1>9. JobOK'
  BY <1>1, <1>3, JobEnds DEF q
<1> QED BY <1>1, <1>3, <1>5, <1>6, <1>7, <1>8, <1>9, LedgerEnds DEF LedgerInv

\* The page or job fails otherwise, and says so.
LEMMA LedgerFailSync ==
  ASSUME LedgerInv, NEW r \in Executions, Ledger!FailSync(r)
  PROVE  LedgerInv'
<1>1. /\ b_req[r] # None /\ b_req[r].op = "sync"
      /\ b_req' = [b_req EXCEPT ![r] = None]
      /\ UNCHANGED <<b_alert, risk, moves, runs, asked, byHand, crossed, met, lost>>
      /\ job' = Ledger!Noted(b_req[r], "failed")
      /\ outcome' = IF b_req[r].job THEN "failed" ELSE outcome
  BY DEF Ledger!FailSync
<1>2. (\A a \in Alerts : RiskOK(a))'
  BY <1>1 DEF LedgerInv, RiskOK
<1>3. (\A k \in Executions : LedgerRequestOK(k))'
  BY <1>1, RequestsStay
<1>4. ASSUME ~crossed' PROVE OneAtATime'
  <2>1. ~crossed /\ OneAtATime
    BY <1>4, <1>1 DEF LedgerInv
  <2>2. \A k \in Executions : b_req'[k] = None
    BY <2>1, <1>1, LedgerEnds
  <2>3. \A k \in Executions, a \in Alerts : ~Urging(k, a) /\ ~Urging(k, a)'
    BY <2>1, <2>2, <1>1 DEF Urging, OneAtATime
  <2> QED BY <2>1, <2>2, <2>3, <1>1 DEF OneAtATime
<1>5. /\ job' # job => b_req[r].job
      /\ ~lost' => ~lost
  BY <1>1 DEF Ledger!Noted
<1>6. JobOK'
  BY <1>1, <1>5, JobEnds
<1>7. job' \in {"", "succeeded", "failed"}
  BY <1>1 DEF Ledger!Noted, LedgerInv
<1> QED BY <1>1, <1>2, <1>3, <1>4, <1>6, <1>7, LedgerEnds DEF LedgerInv

\* An urge reads the count.
LEMMA LedgerBeginUrge ==
  ASSUME LedgerInv, NEW r \in Executions, NEW a \in Alerts, Ledger!BeginUrge(r, a)
  PROVE  LedgerInv'
<1> DEFINE new == [op |-> "urge", on |-> a, urges |-> risk[a].urges + 1,
                   to |-> IF risk[a].status = "discovered" THEN "analyzing" ELSE None]
<1>1. /\ risk[a] # None /\ risk[a].status # "closed" /\ asked[a] < MaxUrges
      /\ b_req[r] = None /\ b_req' = [b_req EXCEPT ![r] = new]
      /\ crossed' = (crossed \/ \E k \in Executions : b_req[k] # None)
      /\ asked' = [asked EXCEPT ![a] = @ + 1]
      /\ UNCHANGED <<b_alert, risk, job, moves, runs, byHand, met, lost, outcome>>
  BY DEF Ledger!BeginUrge, Ledger!Begin, Ledger!Open
<1>2. RiskOK(a)
  BY DEF LedgerInv
<1>3. risk[a].urges \in Nat /\ asked[a] \in Nat /\ risk[a].urges <= asked[a] /\ MaxUrges \in Nat
  BY <1>1, <1>2, OperationsAssumption DEF RiskOK, Ledger!Rows, Ledger!LedgerAssumption
<1>4. asked'[a] = asked[a] + 1 /\ DOMAIN asked' = Alerts
  BY <1>1 DEF LedgerInv
<1>5. \A e \in Alerts : e # a => asked'[e] = asked[e]
  BY <1>1 DEF LedgerInv
<1>6. /\ new \in Ledger!Urges /\ new.op = "urge" /\ new.on = a
      /\ new.urges = risk[a].urges + 1
  BY <1>3 DEF Ledger!Urges
<1> HIDE DEF new
<1>7. b_req'[r] = new /\ DOMAIN b_req' = Executions
  BY <1>1 DEF LedgerInv
<1>8. \A k \in Executions : k # r => b_req'[k] = b_req[k]
  BY <1>1 DEF LedgerInv
<1>9. ASSUME NEW e \in Alerts PROVE RiskOK(e)'
  <2>1. CASE e = a
    <3>1. asked'[a] \in 0 .. MaxUrges /\ risk[a].urges <= asked'[a]
      BY <1>1, <1>3, <1>4
    <3> QED BY <2>1, <3>1, <1>1, <1>2 DEF RiskOK
  <2>2. CASE e # a
    <3>1. RiskOK(e)
      BY DEF LedgerInv
    <3> QED BY <2>2, <3>1, <1>1, <1>5 DEF RiskOK
  <2> QED BY <2>1, <2>2
<1>10. ASSUME NEW k \in Executions PROVE LedgerRequestOK(k)'
  <2>1. CASE k = r
    <3>1. new.urges <= asked'[a]
      BY <1>3, <1>4, <1>6
    <3> QED BY <2>1, <3>1, <1>1, <1>6, <1>7 DEF LedgerRequestOK
  <2>2. CASE k # r
    <3>1. LedgerRequestOK(k) /\ b_req'[k] = b_req[k]
      BY <2>2, <1>8 DEF LedgerInv
    <3>2. CASE b_req[k] \in Ledger!Urges /\ risk[b_req[k].on] # None
               /\ b_req[k].urges <= asked[b_req[k].on]
      <4>1. b_req[k].urges \in Nat /\ b_req[k].on \in Alerts
        BY <3>2 DEF Ledger!Urges
      <4>2. b_req[k].urges <= asked'[b_req[k].on]
        BY <3>2, <4>1, <1>3, <1>4, <1>5
      <4> QED BY <3>1, <3>2, <4>2, <1>1 DEF LedgerRequestOK
    <3> QED BY <3>1, <3>2, <1>1 DEF LedgerRequestOK
  <2> QED BY <2>1, <2>2
<1>11. ASSUME ~crossed' PROVE OneAtATime'
  <2>1. (\A k \in Executions : b_req[k] = None) /\ OneAtATime
    BY <1>11, <1>1 DEF LedgerInv
  <2>2. \A k \in Executions : k # r => b_req'[k] = None
    BY <2>1, <1>8
  <2>3. new # None
    BY <1>6, OperationsAssumption DEF Ledger!LedgerAssumption, Ledger!Urges
  <2>4. \A k \in Executions, e \in Alerts : Urging(k, e)' <=> k = r /\ e = a
    BY <2>2, <2>3, <1>6, <1>7 DEF Urging
  <2>5. \A k \in Executions, e \in Alerts : ~Urging(k, e)
    BY <2>1 DEF Urging
  <2>6. (\A e \in byHand : risk[e] # None /\ risk[e].status = "closed")' /\ a \notin byHand
    BY <2>1, <1>1 DEF OneAtATime
  <2>7. (\A k \in Executions, e \in byHand :
           b_req[k] # None => (b_req[k].op = "sync" => b_req[k].to[e] = None) /\ ~Urging(k, e))'
    BY <2>2, <2>4, <2>6, <1>1, <1>6, <1>7 DEF LedgerInv
  <2>8. \A e \in Alerts : risk[e] # None => risk[e].urges = asked[e]
    BY <2>1, <2>5 DEF OneAtATime
  <2>9. (\A e \in Alerts : risk[e] # None =>
           IF \E k \in Executions : Urging(k, e) THEN risk[e].urges + 1 = asked[e]
           ELSE risk[e].urges = asked[e])'
    BY <2>4, <2>8, <1>1, <1>4, <1>5
  <2>10. (\A k \in Executions, e \in Alerts : Urging(k, e) => b_req[k].urges = asked[e])'
    BY <2>4, <2>8, <1>1, <1>4, <1>6, <1>7
  <2>11. (\A k, l \in Executions : b_req[k] # None /\ b_req[l] # None => k = l)'
    BY <2>2
  <2> QED BY <2>6, <2>7, <2>9, <2>10, <2>11 DEF OneAtATime
<1>12. JobOK'
  BY <1>1, <1>6, <1>7, <1>8, JobStays DEF Ledger!Running
<1>13. crossed' \in BOOLEAN /\ met' \in BOOLEAN
  BY <1>1 DEF LedgerInv
<1> QED BY <1>1, <1>4, <1>7, <1>9, <1>10, <1>11, <1>12, <1>13 DEF LedgerInv

\* The urge writes the count it read, plus one, and a status if the risk was new.
LEMMA LedgerEndUrge ==
  ASSUME LedgerInv, NEW r \in Executions, Ledger!EndUrge(r)
  PROVE  LedgerInv'
<1> DEFINE q == b_req[r]
           a == q.on
           row == [risk[a] EXCEPT !.urges = q.urges,
                                  !.status = IF q.to = None THEN @ ELSE q.to]
<1>1. /\ q # None /\ q.op = "urge"
      /\ b_req' = [b_req EXCEPT ![r] = None]
      /\ risk' = [risk EXCEPT ![a] = row]
      /\ UNCHANGED <<b_alert, job, moves, runs, asked, byHand, crossed, met, lost, outcome>>
  BY DEF Ledger!EndUrge
<1>2. q \in Ledger!Urges /\ risk[a] # None /\ q.urges <= asked[a]
  BY <1>1 DEF LedgerInv, LedgerRequestOK, SyncRequest, MoveRequest
<1>3. a \in Alerts /\ q.urges \in Nat /\ q.to \in {"analyzing", None}
  BY <1>2 DEF Ledger!Urges
<1> HIDE DEF q, a
<1>4. RiskOK(a) /\ risk[a] \in Ledger!Rows
  BY <1>2, <1>3 DEF LedgerInv, RiskOK
<1>5. /\ row \in Ledger!Rows /\ row.urges = q.urges
      /\ row.status = "closed" => row.closedAt
      /\ q.to = None => row.status = risk[a].status
  BY <1>2, <1>3, <1>4 DEF Ledger!Rows, RiskOK, Ledger!Statuses
<1>6. row # None
  BY <1>5, OperationsAssumption DEF Ledger!LedgerAssumption, Ledger!Rows
<1> HIDE DEF row
<1>7. risk'[a] = row /\ DOMAIN risk' = Alerts
  BY <1>1, <1>3 DEF LedgerInv
<1>8. \A e \in Alerts : e # a => risk'[e] = risk[e]
  BY <1>1 DEF LedgerInv
<1>9. ASSUME NEW e \in Alerts PROVE RiskOK(e)'
  <2>1. CASE e = a
    BY <2>1, <1>1, <1>2, <1>4, <1>5, <1>6, <1>7 DEF RiskOK
  <2>2. CASE e # a
    <3>1. RiskOK(e)
      BY DEF LedgerInv
    <3> QED BY <2>2, <3>1, <1>1, <1>8 DEF RiskOK
  <2> QED BY <2>1, <2>2
<1>10. (\A k \in Executions : LedgerRequestOK(k))'
  BY <1>1, <1>6, <1>7, <1>8, RequestsStay DEF q
<1>11. ASSUME ~crossed' PROVE OneAtATime'
  <2>1. ~crossed /\ OneAtATime
    BY <1>11, <1>1 DEF LedgerInv
  <2>2. \A k \in Executions : b_req'[k] = None
    BY <2>1, <1>1, LedgerEnds DEF q
  <2>3. \A k \in Executions : b_req[k] # None => k = r
    BY <2>1, <1>1 DEF OneAtATime, q
  <2>4. \A k \in Executions, e \in Alerts : Urging(k, e) <=> k = r /\ e = a
    BY <2>3, <1>1, <1>3 DEF Urging, q, a
  <2>5. \A k \in Executions, e \in Alerts : ~Urging(k, e)'
    BY <2>2 DEF Urging
  <2>6. ASSUME NEW e \in byHand PROVE risk'[e] # None /\ risk'[e].status = "closed"
    <3>1. e \in Alerts /\ e # a /\ risk[e] # None /\ risk[e].status = "closed"
      BY <2>1, <2>4, <1>1 DEF OneAtATime, LedgerInv, q
    <3> QED BY <3>1, <1>8
  <2>7. ASSUME NEW e \in Alerts, risk'[e] # None PROVE risk'[e].urges = asked'[e]
    <3>1. CASE e = a
      <4>1. q.urges = asked[a]
        BY <2>1, <2>4, <1>3 DEF OneAtATime, q
      <4> QED BY <3>1, <4>1, <1>1, <1>5, <1>7
    <3>2. CASE e # a
      BY <3>2, <2>1, <2>4, <2>7, <1>1, <1>8 DEF OneAtATime
    <3> QED BY <3>1, <3>2
  <2> QED BY <2>2, <2>5, <2>6, <2>7, <1>1 DEF OneAtATime
<1>12. JobOK'
  BY <1>1, LedgerEnds, JobStays DEF Ledger!Running, q
<1> QED BY <1>1, <1>7, <1>9, <1>10, <1>11, <1>12, LedgerEnds DEF LedgerInv, q

\* A person sets another status.
LEMMA LedgerBeginMove ==
  ASSUME LedgerInv, NEW r \in Executions, NEW a \in Alerts, NEW to \in Ledger!Statuses,
         Ledger!BeginMove(r, a, to)
  PROVE  LedgerInv'
<1> DEFINE new == [op |-> "move", on |-> a, to |-> to]
<1>1. /\ risk[a] # None
      /\ b_req[r] = None /\ b_req' = [b_req EXCEPT ![r] = new]
      /\ crossed' = (crossed \/ \E k \in Executions : b_req[k] # None)
      /\ UNCHANGED <<b_alert, risk, job, runs, asked, byHand, met, lost, outcome>>
  BY DEF Ledger!BeginMove, Ledger!Begin
<1>2. new \in MoveRequest /\ new.op = "move" /\ new.on = a
  BY DEF MoveRequest
<1> HIDE DEF new
<1>3. b_req'[r] = new /\ DOMAIN b_req' = Executions
  BY <1>1 DEF LedgerInv
<1>4. \A k \in Executions : k # r => b_req'[k] = b_req[k]
  BY <1>1 DEF LedgerInv
<1>5. (\A e \in Alerts : RiskOK(e))'
  BY <1>1 DEF LedgerInv, RiskOK
<1>6. ASSUME NEW k \in Executions PROVE LedgerRequestOK(k)'
  <2>1. CASE k = r
    BY <2>1, <1>1, <1>2, <1>3 DEF LedgerRequestOK
  <2>2. CASE k # r
    BY <2>2, <1>1, <1>4 DEF LedgerInv, LedgerRequestOK
  <2> QED BY <2>1, <2>2
<1>7. ASSUME ~crossed' PROVE OneAtATime'
  <2>1. (\A k \in Executions : b_req[k] = None) /\ OneAtATime
    BY <1>7, <1>1 DEF LedgerInv
  <2>2. \A k \in Executions : k # r => b_req'[k] = None
    BY <2>1, <1>4
  <2>3. \A k \in Executions, e \in Alerts : ~Urging(k, e) /\ ~Urging(k, e)'
    BY <2>1, <2>2, <1>2, <1>3 DEF Urging
  <2>4. (\A k \in Executions, e \in byHand :
           b_req[k] # None => (b_req[k].op = "sync" => b_req[k].to[e] = None) /\ ~Urging(k, e))'
    BY <2>2, <2>3, <1>1, <1>2, <1>3 DEF LedgerInv
  <2> QED BY <2>1, <2>2, <2>3, <2>4, <1>1 DEF OneAtATime
<1>8. JobOK'
  BY <1>1, <1>2, <1>3, <1>4, JobStays DEF Ledger!Running
<1>9. crossed' \in BOOLEAN /\ met' \in BOOLEAN
  BY <1>1 DEF LedgerInv
<1> QED BY <1>1, <1>3, <1>5, <1>6, <1>7, <1>8, <1>9 DEF LedgerInv

\* The status is written, and with it the time if the risk is closed.
LEMMA LedgerEndMove ==
  ASSUME LedgerInv, NEW r \in Executions, Ledger!EndMove(r)
  PROVE  LedgerInv'
<1> DEFINE q == b_req[r]
           a == q.on
           row == Ledger!Written(risk[a], q.to)
<1>1. /\ q # None /\ q.op = "move"
      /\ b_req' = [b_req EXCEPT ![r] = None]
      /\ risk' = [risk EXCEPT ![a] = row]
      /\ byHand' = IF q.to = "closed" THEN byHand \cup {a} ELSE byHand \ {a}
      /\ UNCHANGED <<b_alert, job, moves, runs, asked, crossed, met, lost, outcome>>
  BY DEF Ledger!EndMove
<1>2. q \in MoveRequest /\ risk[a] # None
  BY <1>1 DEF LedgerInv, LedgerRequestOK, SyncRequest, Ledger!Urges
<1>3. a \in Alerts /\ q.to \in Ledger!Statuses
  BY <1>2 DEF MoveRequest
<1> HIDE DEF q, a
<1>4. RiskOK(a) /\ risk[a] \in Ledger!Rows
  BY <1>2, <1>3 DEF LedgerInv, RiskOK
<1>5. /\ row \in Ledger!Rows /\ row # None /\ row.status = q.to /\ row.urges = risk[a].urges
      /\ q.to = "closed" => row.closedAt
  BY <1>2, <1>3, <1>4, WrittenOK
<1> HIDE DEF row
<1>6. risk'[a] = row /\ DOMAIN risk' = Alerts
  BY <1>1, <1>3 DEF LedgerInv
<1>7. \A e \in Alerts : e # a => risk'[e] = risk[e]
  BY <1>1 DEF LedgerInv
<1>8. ASSUME NEW e \in Alerts PROVE RiskOK(e)'
  <2>1. CASE e = a
    BY <2>1, <1>1, <1>2, <1>4, <1>5, <1>6 DEF RiskOK
  <2>2. CASE e # a
    <3>1. RiskOK(e)
      BY DEF LedgerInv
    <3> QED BY <2>2, <3>1, <1>1, <1>7 DEF RiskOK
  <2> QED BY <2>1, <2>2
<1>9. (\A k \in Executions : LedgerRequestOK(k))'
  BY <1>1, <1>5, <1>6, <1>7, RequestsStay DEF q
<1>10. byHand' \subseteq Alerts
  BY <1>1, <1>3 DEF LedgerInv
<1>11. ASSUME ~crossed' PROVE OneAtATime'
  <2>1. ~crossed /\ OneAtATime
    BY <1>11, <1>1 DEF LedgerInv
  <2>2. \A k \in Executions : b_req'[k] = None
    BY <2>1, <1>1, LedgerEnds DEF q
  <2>3. \A k \in Executions, e \in Alerts : ~Urging(k, e) /\ ~Urging(k, e)'
    BY <2>1, <2>2, <1>1 DEF Urging, OneAtATime, q
  <2>4. ASSUME NEW e \in byHand' PROVE risk'[e] # None /\ risk'[e].status = "closed"
    <3>1. CASE e = a
      BY <3>1, <2>4, <1>1, <1>5, <1>6
    <3>2. CASE e # a
      BY <3>2, <2>1, <2>4, <1>1, <1>7 DEF OneAtATime, LedgerInv
    <3> QED BY <3>1, <3>2
  <2>5. ASSUME NEW e \in Alerts, risk'[e] # None PROVE risk'[e].urges = asked'[e]
    <3>1. risk[e] # None => risk[e].urges = asked[e]
      BY <2>1, <2>3 DEF OneAtATime
    <3>2. CASE e = a
      BY <3>1, <3>2, <1>1, <1>2, <1>5, <1>6
    <3>3. CASE e # a
      BY <3>1, <3>3, <2>5, <1>1, <1>7
    <3> QED BY <3>2, <3>3
  <2> QED BY <2>2, <2>3, <2>4, <2>5 DEF OneAtATime
<1>12. JobOK'
  BY <1>1, LedgerEnds, JobStays DEF Ledger!Running, q
<1> QED BY <1>1, <1>6, <1>8, <1>9, <1>10, <1>11, <1>12, LedgerEnds DEF LedgerInv, q

\* Every step of the ledger.
LEMMA LedgerStep == LedgerInv /\ [Ledger!Next]_ledger => LedgerInv'
<1> SUFFICES ASSUME LedgerInv, [Ledger!Next]_ledger PROVE LedgerInv'
  OBVIOUS
<1>1. CASE UNCHANGED ledger
  <2> USE DEF ledger
  <2>1. (\A a \in Alerts : RiskOK(a))'
    BY <1>1 DEF LedgerInv, RiskOK
  <2>2. (\A r \in Executions : LedgerRequestOK(r))'
    BY <1>1 DEF LedgerInv, LedgerRequestOK
  <2>3. OneAtATime => OneAtATime'
    BY <1>1 DEF OneAtATime, Urging
  <2>4. JobOK'
    BY <1>1, JobStays DEF Ledger!Running
  <2> QED BY <1>1, <2>1, <2>2, <2>3, <2>4 DEF LedgerInv
<1>2. CASE Ledger!Next
  BY <1>2, LedgerProgress, LedgerBeginSync, LedgerEndSync, LedgerFailSync, LedgerBeginUrge,
     LedgerBeginMove, LedgerEndUrge, LedgerEndMove DEF Ledger!Next
<1> QED BY <1>1, <1>2

\* The invariant says all the ledger promises: at most one urge is under way, and the count
\* lacks that one.
LEMMA LedgerInvSound == LedgerInv => Ledger!LedgerSound
<1> SUFFICES ASSUME LedgerInv PROVE Ledger!LedgerSound
  OBVIOUS
<1>1. Ledger!TypeOK
  <2>1. ASSUME NEW a \in Alerts, risk[a] # None
        PROVE  risk[a] \in [status : Ledger!Statuses, closedAt : BOOLEAN, urges : 0 .. MaxUrges]
    <3>1. /\ risk[a] \in Ledger!Rows /\ risk[a].urges <= asked[a] /\ asked[a] \in 0 .. MaxUrges
      BY <2>1 DEF LedgerInv, RiskOK
    <3>2. risk[a].urges \in 0 .. MaxUrges
      BY <3>1, OperationsAssumption DEF Ledger!Rows, Ledger!LedgerAssumption
    <3> QED BY <3>1, <3>2 DEF Ledger!Rows
  <2> QED BY <2>1 DEF LedgerInv, Ledger!TypeOK
<1>2. Ledger!ClosedHasTime
  BY DEF LedgerInv, RiskOK, Ledger!ClosedHasTime
<1>3. Ledger!ClosedByHandStays
  BY DEF LedgerInv, OneAtATime, Ledger!ClosedByHandStays
<1>4. Ledger!UrgesCounted
  <2> DEFINE Under(a) == {r \in Executions : b_req[r] # None /\ b_req[r].op = "urge" /\ b_req[r].on = a}
  <2>1. ASSUME ~crossed, NEW a \in Alerts, risk[a] # None
        PROVE  risk[a].urges = asked[a] - Cardinality(Under(a))
    <3>1. OneAtATime /\ RiskOK(a)
      BY <2>1 DEF LedgerInv
    <3>2. risk[a].urges \in Nat /\ asked[a] \in Nat
      BY <2>1, <3>1, OperationsAssumption DEF RiskOK, Ledger!Rows, Ledger!LedgerAssumption
    <3>3. CASE \E r \in Executions : Urging(r, a)
      <4>1. PICK r \in Executions : Urging(r, a)
        BY <3>3
      <4>2. Under(a) = {r}
        BY <3>1, <4>1 DEF OneAtATime, Urging
      <4>3. Cardinality(Under(a)) = 1
        BY <4>2, FS_Singleton
      <4>4. risk[a].urges + 1 = asked[a]
        BY <2>1, <3>1, <3>3 DEF OneAtATime
      <4> QED BY <3>2, <4>3, <4>4
    <3>4. CASE ~\E r \in Executions : Urging(r, a)
      <4>1. Under(a) = {}
        BY <3>4 DEF Urging
      <4>2. Cardinality(Under(a)) = 0
        BY <4>1, FS_EmptySet
      <4>3. risk[a].urges = asked[a]
        BY <2>1, <3>1, <3>4 DEF OneAtATime
      <4> QED BY <3>2, <4>2, <4>3
    <3> QED BY <3>3, <3>4
  <2>2. \A S : Ledger!Cardinality(S) = Cardinality(S)
    BY DEF Ledger!Cardinality, Cardinality, Ledger!IsFiniteSet, IsFiniteSet
  <2> QED BY <2>1, <2>2 DEF Ledger!UrgesCounted
<1>5. Ledger!JobTellsOutcome
  BY DEF LedgerInv, JobOK
<1> QED BY <1>1, <1>2, <1>3, <1>4, <1>5 DEF Ledger!LedgerSound

\* The steps of the instance, seen from it.
LEMMA LedgerFocus ==
  focus = "ledger" /\ OperationsStep => focus' = "ledger" /\ [Ledger!Next]_ledger
BY DEF OperationsStep, OperationsNext, ledger, parts

\* Whatever overlaps: a closed risk says when, and the job shows the outcome of its last run
\* unless a run lost a race or two runs overlapped; while requests come one at a time, every
\* urge is counted and what a person closed stays closed (biz_center_service).
THEOREM LedgerStaysSound == OperationsSpec => []LedgerSound
<1> DEFINE I == focus = "ledger" => LedgerInv
<1>1. OperationsInit => I
  BY LedgerInit DEF OperationsInit
<1>2. I /\ OperationsStep => I'
  <2> SUFFICES ASSUME I, OperationsStep PROVE I'
    OBVIOUS
  <2>1. CASE focus = "ledger"
    BY <2>1, LedgerFocus, LedgerStep
  <2>2. CASE focus # "ledger"
    BY <2>2 DEF OperationsStep, OperationsNext
  <2> QED BY <2>1, <2>2
<1>3. I => LedgerSound
  BY LedgerInvSound DEF LedgerSound
<1> QED BY <1>1, <1>2, <1>3, PTL DEF OperationsSpec, OperationsStep

=============================================================================
