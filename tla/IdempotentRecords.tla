-------------------------- MODULE IdempotentRecords --------------------------
(***************************************************************************)
(* How tasks and outbox events are created once per idempotency key        *)
(* (enqueue_task_record, publish_event_record): look the key up, insert    *)
(* inside a savepoint, and when the unique key refuses, look it up again.  *)
(* Both look-ups read the snapshot the transaction's first one took.       *)
(***************************************************************************)
EXTENDS Naturals, FiniteSets

CONSTANTS
  Callers, Keys,
  MaxCalls,  \* bound of an instance: calls
  None, Error

VARIABLES
  rows,     \* records: [id, key, by], committed
  call,     \* caller -> None or its progress
  answer,   \* caller -> None, Error or the record its last call returned
  calls,
  raced     \* history: keys two calls were about at once

vars == <<rows, call, answer, calls, raced>>

Init ==
  /\ rows = {} /\ calls = 0 /\ raced = {}
  /\ call = [c \in Callers |-> None] /\ answer = [c \in Callers |-> None]

Of(set, key) == {r \in set : r.key = key}
Doing(c, phase) == call[c] # None /\ call[c].phase = phase

(* The transaction's snapshot is what is committed now. *)
Begin(c, key, own) ==
  /\ call[c] = None /\ calls < MaxCalls /\ calls' = calls + 1
  /\ call' = [call EXCEPT ![c] = [phase |-> "look", key |-> key, commit |-> own, seen |-> rows, id |-> calls]]
  /\ raced' = IF \E o \in Callers \ {c} : call[o] # None /\ call[o].key = key THEN raced \cup {key} ELSE raced
  /\ UNCHANGED <<rows, answer>>

Return(c, what) ==
  /\ call' = [call EXCEPT ![c] = None]
  /\ answer' = [answer EXCEPT ![c] = what]

Look(c) ==
  LET found == Of(call[c].seen, call[c].key) IN
  /\ Doing(c, "look")
  /\ IF found # {} THEN \E r \in found : Return(c, r)
     ELSE call' = [call EXCEPT ![c].phase = "insert"] /\ UNCHANGED answer
  /\ UNCHANGED <<rows, calls, raced>>

(* The insert waits while another transaction holds the key. *)
Holds(o, key) == Doing(o, "flushed") /\ call[o].key = key

Refused(key) == Of(rows, key) # {}
Insert(c) ==
  /\ Doing(c, "insert") /\ ~ \E o \in Callers : Holds(o, call[c].key)
  /\ call' = [call EXCEPT ![c].phase = IF Refused(call[c].key) THEN "again" ELSE "flushed"]
  /\ UNCHANGED <<rows, answer, calls, raced>>

(* By itself, or together with the caller's own changes. *)
Commit(c) ==
  LET row == [id |-> call[c].id, key |-> call[c].key, by |-> c] IN
  /\ Doing(c, "flushed")
  /\ rows' = rows \cup {row} /\ Return(c, row)
  /\ UNCHANGED <<calls, raced>>

\* mutant
LookAgainOwn(c) ==
  /\ Doing(c, "again")
  /\ Return(c, [id |-> call[c].id, key |-> call[c].key, by |-> c])
  /\ UNCHANGED <<rows, calls, raced>>

(* scalar_one of the old snapshot: an error when the key is not in it. *)
LookAgain(c) ==
  LET found == Of(call[c].seen, call[c].key) IN
  /\ Doing(c, "again")
  /\ IF found = {} THEN Return(c, Error) ELSE \E r \in found : Return(c, r)
  /\ UNCHANGED <<rows, calls, raced>>

(* The caller's own changes fail: all is rolled back. *)
RollBack(c) ==
  /\ Doing(c, "flushed") /\ ~call[c].commit
  /\ call' = [call EXCEPT ![c] = None]
  /\ UNCHANGED <<rows, answer, calls, raced>>

Next ==
  \E c \in Callers :
    \/ \E key \in Keys, own \in BOOLEAN : Begin(c, key, own)
    \/ Look(c) \/ Insert(c) \/ Commit(c) \/ LookAgain(c) \/ RollBack(c)

Spec == Init /\ [][Next]_vars

-----------------------------------------------------------------------------
(* Records have distinct ids and known keys. *)
TypeOK ==
  /\ \A r \in rows : r.key \in Keys /\ r.by \in Callers /\ r.id < calls
  /\ \A c \in Callers : call[c] # None => call[c].phase \in {"look", "insert", "flushed", "again"}

(* A key gets one record, however many calls are about it at once.          *)
OneRecordPerKey == \A r, s \in rows : r.key = s.key => r = s

(* Whoever is answered with a record has the one that is stored, and an     *)
(* error is the answer only of calls that met another with their key.       *)
AnswerIsStored ==
  \A c \in Callers : answer[c] # None =>
    answer[c] \in rows \/ (answer[c] = Error /\ raced # {})

\* One key, one record; and every caller is answered with the record that is stored.
RecordsSound == TypeOK /\ OneRecordPerKey /\ AnswerIsStored
=============================================================================
