----------------------------- MODULE EventIntake -----------------------------
(***************************************************************************)
(* Real-time events come in one at a time from connectors and in batches   *)
(* from Grafana, which sends a batch again until it is answered with       *)
(* success.  An event, its alert, its run, its outbox entry and its task   *)
(* are one transaction; an event received again is only counted.           *)
(***************************************************************************)
EXTENDS Naturals, Sequences

CONSTANTS
  Kind,      \* event -> [type, severity, valid]: what it says, whether its fields fit
  Batches,   \* sequences of events Grafana sends
  Canonical, \* ids of known devices; all events are about one source device
  Requests, MaxSends, MaxMaps, \* bounds of an instance: requests at a time, sends, mappings
  None

Events == DOMAIN Kind
Devices == Canonical \cup {"unmapped"}

IntakeAssumption ==
  /\ \A batch \in Batches : batch \in Seq(Events) /\ batch # <<>>
  /\ None \notin [duplicates : Nat, device : Devices, span : SUBSET Devices]

VARIABLES
  event,     \* event -> None or its row
  made,      \* event -> how many of each record were created for it
  mapping,   \* None or the mapping of the source device
  req,       \* request -> None or its progress
  sends, maps,
  stored,    \* history: event -> deliveries that were committed
  raced,     \* history: events two requests were storing at once
  acked      \* history: events whose senders were told they are in

vars == <<event, made, mapping, req, sends, maps, stored, raced, acked>>

Nothing == [run |-> 0, alert |-> 0, task |-> 0, outbox |-> 0]

Init ==
  /\ event = [e \in Events |-> None]
  /\ made = [e \in Events |-> Nothing]
  /\ mapping = None
  /\ req = [r \in Requests |-> None]
  /\ sends = 0 /\ maps = 0
  /\ stored = [e \in Events |-> 0] /\ raced = {} /\ acked = {}

(* evaluate_rule_gate: recoveries and heartbeats are only kept, and so are *)
(* events below a warning.                                                 *)
Triggers(e) ==
  /\ Kind[e].type \notin {"recovered", "heartbeat"}
  /\ Kind[e].severity \in {"warning", "major", "critical"}

(* normalize_event_payload: the device a mapping in use gives. *)
Device(m) == IF m # None /\ m.active THEN m.id ELSE "unmapped"

Doing(r, phase) == req[r] # None /\ req[r].phase = phase
Current(r) == req[r].batch[req[r].at]

(* A new event may be seen by everybody who is about it at this moment. *)
Spans(m) == [r \in Requests |-> IF req[r] = None \/ req[r].phase = "map" THEN req[r]
                                ELSE [req[r] EXCEPT !.span = @ \cup {Device(m)}]]

Send(r, batch, hook) ==
  /\ req[r] = None /\ sends < MaxSends /\ sends' = sends + 1
  /\ req' = [req EXCEPT ![r] =
       [phase |-> IF hook THEN "log" ELSE "look", batch |-> batch, at |-> 1, hook |-> hook,
        failures |-> 0, broken |-> FALSE, found |-> 0, device |-> None, span |-> {Device(mapping)}]]
  /\ UNCHANGED <<event, made, mapping, maps, stored, raced, acked>>

(* The next alert of the batch, or the answer: any failure means 503. *)
Proceed(r, q) ==
  IF q.at < Len(q.batch)
  THEN /\ req' = [req EXCEPT ![r] = [q EXCEPT !.at = @ + 1, !.phase = "log", !.span = {Device(mapping)}]]
       /\ UNCHANGED acked
  ELSE /\ req' = [req EXCEPT ![r] = None]
       /\ acked' = IF q.failures = 0 THEN acked \cup {q.batch[i] : i \in 1 .. Len(q.batch)} ELSE acked

(* The log row of an alert; a session whose transaction failed refuses it,  *)
(* and with it the rest of the batch.                                       *)
Log(r) ==
  /\ Doing(r, "log")
  /\ req' = [req EXCEPT ![r] = IF @.broken THEN None ELSE [@ EXCEPT !.phase = "look"]]
  /\ UNCHANGED <<event, made, mapping, sends, maps, stored, raced, acked>>

Failed(q) == [q EXCEPT !.failures = @ + 1]

(* Fields that do not fit are refused before anything is stored. *)
Refuse(r) ==
  /\ Doing(r, "look") /\ ~Kind[Current(r)].valid
  /\ Proceed(r, Failed(req[r]))
  /\ UNCHANGED <<event, made, mapping, sends, maps, stored, raced>>

\* mutant
LookCached(r) ==
  LET e == Current(r) IN
  /\ Doing(r, "look") /\ Kind[e].valid
  /\ req' = [req EXCEPT ![r] =
       IF event[e] # None THEN [@ EXCEPT !.phase = "count", !.found = event[e].duplicates]
       ELSE [@ EXCEPT !.phase = "insert", !.device = IF @ = None THEN Device(mapping) ELSE @]]
  /\ raced' = IF \E o \in Requests \ {r} : (Doing(o, "insert") \/ Doing(o, "count")) /\ Current(o) = e
              THEN raced \cup {e} ELSE raced
  /\ UNCHANGED <<event, made, mapping, sends, maps, stored, acked>>

(* The event is there, or it is composed with the mapping of this moment. *)
Look(r) ==
  LET e == Current(r) IN
  /\ Doing(r, "look") /\ Kind[e].valid
  /\ req' = [req EXCEPT ![r] =
       IF event[e] # None THEN [@ EXCEPT !.phase = "count", !.found = event[e].duplicates]
       ELSE [@ EXCEPT !.phase = "insert", !.device = Device(mapping)]]
  /\ raced' = IF \E o \in Requests \ {r} : (Doing(o, "insert") \/ Doing(o, "count")) /\ Current(o) = e
              THEN raced \cup {e} ELSE raced
  /\ UNCHANGED <<event, made, mapping, sends, maps, stored, acked>>

Records(e) == [run |-> 1, alert |-> IF Triggers(e) THEN 1 ELSE 0,
               task |-> IF Triggers(e) THEN 1 ELSE 0, outbox |-> 1]

(* One transaction; the unique key lets one of several through, the others  *)
(* are rolled back, find the winner and count themselves.                   *)
Taken(e) == event[e] # None
Insert(r) ==
  LET e == Current(r) IN
  /\ Doing(r, "insert")
  /\ IF Taken(e)
     THEN /\ req' = [req EXCEPT ![r].phase = "count", ![r].found = event[e].duplicates]
          /\ UNCHANGED <<event, made, stored, acked>>
     ELSE /\ event' = [event EXCEPT ![e] = [duplicates |-> 0, device |-> req[r].device,
                                            span |-> req[r].span]]
          /\ made' = [made EXCEPT ![e] = [n \in DOMAIN @ |-> @[n] + Records(e)[n]]]
          /\ stored' = [stored EXCEPT ![e] = @ + 1]
          /\ Proceed(r, req[r])
  /\ UNCHANGED <<mapping, sends, maps, raced>>

Count(r) ==
  LET e == Current(r) IN
  /\ Doing(r, "count")
  /\ event' = [event EXCEPT ![e].duplicates = req[r].found + 1]
  /\ stored' = [stored EXCEPT ![e] = @ + 1]
  /\ Proceed(r, req[r])
  /\ UNCHANGED <<made, mapping, sends, maps, raced>>

(* The database fails: nothing of this event is stored.  A connector is     *)
(* told so at once; the hook goes on, with a session that may be broken.    *)
Fail(r) ==
  /\ \E phase \in {"look", "insert", "count"} : Doing(r, phase)
  /\ \E broken \in BOOLEAN : Proceed(r, [Failed(req[r]) EXCEPT !.broken = broken])
  /\ UNCHANGED <<event, made, mapping, sends, maps, stored, raced>>

(* The process or the connection dies before the answer. *)
Die(r) ==
  /\ req[r] # None
  /\ req' = [req EXCEPT ![r] = None]
  /\ UNCHANGED <<event, made, mapping, sends, maps, stored, raced, acked>>

(* upsert_device_mapping reads the row, then writes the columns that change; *)
(* a first row that another one inserted meanwhile is an error.              *)
BeginMap(r, row) ==
  /\ req[r] = None /\ maps < MaxMaps /\ maps' = maps + 1
  /\ req' = [req EXCEPT ![r] = [phase |-> "map", batch |-> <<None>>, at |-> 1, row |-> row, seen |-> mapping]]
  /\ UNCHANGED <<event, made, mapping, sends, stored, raced, acked>>

Merged(q) ==
  IF q.seen = None THEN IF mapping = None THEN q.row ELSE mapping
  ELSE [c \in DOMAIN q.row |-> IF q.row[c] # q.seen[c] THEN q.row[c] ELSE mapping[c]]

EndMap(r) ==
  /\ Doing(r, "map")
  /\ mapping' = Merged(req[r])
  /\ req' = [Spans(mapping') EXCEPT ![r] = None]
  /\ UNCHANGED <<event, made, sends, maps, stored, raced, acked>>

Next ==
  \E r \in Requests :
    \/ \E e \in Events : Kind[e].valid /\ Send(r, <<e>>, FALSE)
    \/ \E batch \in Batches : Send(r, batch, TRUE)
    \/ Log(r) \/ Refuse(r) \/ Look(r) \/ Insert(r) \/ Count(r) \/ Fail(r) \/ Die(r)
    \/ \E row \in [id : Canonical, active : BOOLEAN] : BeginMap(r, row)
    \/ EndMap(r)

Spec == Init /\ [][Next]_vars

-----------------------------------------------------------------------------
(* Requests are in a phase they have, events have a device. *)
TypeOK ==
  /\ \A r \in Requests : req[r] # None => req[r].phase \in {"log", "look", "insert", "count", "map"}
  /\ \A e \in Events : event[e] # None => event[e].device \in Devices
  /\ mapping # None => mapping.id \in Canonical /\ mapping.active \in BOOLEAN

(* However often an event is sent, and by how many at once, it gets one run *)
(* and one outbox entry, and one alert and one task when it calls for       *)
(* action: all of them with the event, none without.                        *)
OncePerEvent ==
  \A e \in Events :
    LET one == IF event[e] = None THEN 0 ELSE 1
        acts == IF Triggers(e) THEN one ELSE 0 IN
    made[e] = [run |-> one, alert |-> acts, task |-> acts, outbox |-> one]

(* A sender that was told "received" has every event of its request stored, *)
(* whatever failed on the way.                                              *)
AckMeansStored == \A e \in acked : event[e] # None

(* Deliveries received again are counted: exactly, unless two were being    *)
(* stored at once, then at least one and never too many.                    *)
DuplicatesCounted ==
  \A e \in Events : event[e] # None =>
    /\ event[e].duplicates < stored[e]
    /\ stored[e] > 1 => event[e].duplicates > 0
    /\ e \notin raced => event[e].duplicates = stored[e] - 1

(* An event carries a device the mapping gave at some moment while it was   *)
(* received.                                                                *)
DeviceIsCurrent == \A e \in Events : event[e] # None => event[e].device \in event[e].span

\* An event sent again and again is stored once, acknowledged only when stored, counted
\* each time, and attributed to the device the mapping names.
IntakeSound ==
  TypeOK /\ OncePerEvent /\ AckMeansStored /\ DuplicatesCounted /\ DeviceIsCurrent
=============================================================================
