---------------------------- MODULE RuntimeConfig ----------------------------
(***************************************************************************)
(* The settings an administrator may change while the program runs         *)
(* (services/config_service.py): each document of settings lies in Redis,  *)
(* and the values in force lie in the memory of the process, which reads   *)
(* Redis only when it starts.  An update writes the whole document to      *)
(* Redis, waits for the answer, and then sets the values the update names. *)
(* A value that is not a number is stored and refused afterwards.  The     *)
(* prompt, a document of one text that every update names, is left out.    *)
(***************************************************************************)
EXTENDS Integers, Sequences

CONSTANTS
  Docs,          \* the documents: of the index and of the model
  KeysOf,        \* [Docs -> their settings, in the order they are set]
  Values, Bad,   \* values a setting may be given, one of them no number
  Default,       \* what an unset setting is
  None,          \* nothing stored, no value named, no request
  Requests,      \* updates that may be under way at once
  MaxUpdates     \* bound: updates in all

VARIABLES
  stored,    \* [Docs -> the document in Redis or None]
  running,   \* [Keys -> the value in force]
  request,   \* [Requests -> the update under way or None]
  updates,   \* updates so far
  blurred    \* documents whose updates overlapped or whose write went unanswered

vars == <<stored, running, request, updates, blurred>>

Named(d) == {KeysOf[d][i] : i \in 1 .. Len(KeysOf[d])}
Keys == UNION {Named(d) : d \in Docs}

\* A setting belongs to one document; the other values differ from None and each other.
SettingsAssumption ==
  /\ MaxUpdates \in Nat /\ Bad \notin Values \cup {None} /\ None \notin Values
  /\ \A d, e \in Docs : Named(d) \cap Named(e) # {} => d = e
  /\ \A d \in Docs : None \notin
       [doc : {d}, param : [Named(d) -> Values \cup {Bad, None}], written : BOOLEAN]

TypeOK ==
  /\ \A d \in Docs : stored[d] = None \/ stored[d] \in [Named(d) -> Values \cup {Bad, None}]
  /\ running \in [Keys -> Values \cup {Default}]
  /\ \A r \in Requests : request[r] # None => request[r].doc \in Docs
  /\ updates \in 0 .. MaxUpdates /\ blurred \subseteq Docs

Init ==
  /\ stored = [d \in Docs |-> None] /\ running = [k \in Keys |-> Default]
  /\ request = [r \in Requests |-> None] /\ updates = 0 /\ blurred = {}

\* The settings of d that precede the first one a conversion refuses.
Sound(d, param) ==
  {KeysOf[d][i] : i \in {n \in 1 .. Len(KeysOf[d]) :
                           \A j \in 1 .. n : param[KeysOf[d][j]] # Bad}}

\* What memory becomes when the document param is put in force.
Effect(d, param) ==
  [k \in Keys |-> IF k \in Sound(d, param) /\ param[k] # None THEN param[k] ELSE running[k]]

-----------------------------------------------------------------------------
\* An update arrives and sends its document to Redis.
Begin(r, d, param) ==
  /\ request[r] = None /\ updates < MaxUpdates
  /\ request' = [request EXCEPT ![r] = [doc |-> d, param |-> param, written |-> FALSE]]
  /\ updates' = updates + 1
  /\ blurred' = IF \E q \in Requests : request[q] # None /\ request[q].doc = d
                THEN blurred \cup {d} ELSE blurred
  /\ UNCHANGED <<stored, running>>

\* Redis takes the whole document, the settings it does not name included.
Write(r) ==
  /\ request[r] # None /\ ~request[r].written
  /\ stored' = [stored EXCEPT ![request[r].doc] = request[r].param]
  /\ request' = [request EXCEPT ![r].written = TRUE]
  /\ UNCHANGED <<running, updates, blurred>>

\* mutant
PutInForceNot(r) ==
  /\ request[r] # None /\ request[r].written
  /\ request' = [request EXCEPT ![r] = None]
  /\ UNCHANGED <<stored, running, updates, blurred>>

\* The answer of Redis is there: the named values come into force, up to one refused.
PutInForce(r) ==
  /\ request[r] # None /\ request[r].written
  /\ running' = Effect(request[r].doc, request[r].param)
  /\ request' = [request EXCEPT ![r] = None]
  /\ UNCHANGED <<stored, updates, blurred>>

\* Redis refuses, or its answer is lost: memory keeps what it has.
Fail(r) ==
  /\ request[r] # None /\ request' = [request EXCEPT ![r] = None]
  /\ blurred' = IF request[r].written THEN blurred \cup {request[r].doc} ELSE blurred
  /\ UNCHANGED <<stored, running, updates>>

\* load_runtime of a new process: each document that can be read comes into force over
\* the defaults; a setting it does not name, or one after a refused one, is the default.
Loaded(d, k) ==
  IF stored[d] # None /\ k \in Sound(d, stored[d]) /\ stored[d][k] # None
  THEN stored[d][k] ELSE Default

Restart ==
  /\ updates < MaxUpdates /\ updates' = updates + 1
  /\ request' = [r \in Requests |-> None]
  /\ \E unread \in {{}, Docs} :
       /\ running' = [k \in Keys |->
            LET d == CHOOSE d \in Docs : k \in Named(d) IN
            IF d \in unread THEN Default ELSE Loaded(d, k)]
       /\ blurred' = unread
  /\ UNCHANGED stored

Next ==
  \/ \E r \in Requests :
       \/ Write(r) \/ PutInForce(r) \/ Fail(r)
       \/ \E d \in Docs : \E param \in [Named(d) -> Values \cup {Bad, None}] : Begin(r, d, param)
  \/ Restart

Spec == Init /\ [][Next]_vars

-----------------------------------------------------------------------------
\* What was set is in force: every value that Redis holds for a setting is the value
\* that runs, unless updates of its document overlapped, Redis failed, or a value before
\* it was refused; so a restart takes no value back that Redis names (config_service.py:
\* an update is in force at once and survives a restart).
StoredIsRunning ==
  \A d \in Docs \ blurred :
    (\A r \in Requests : request[r] = None \/ request[r].doc # d) /\ stored[d] # None =>
      \A k \in Sound(d, stored[d]) : stored[d][k] # None => running[k] = stored[d][k]

\* The settings of the program: what is stored runs.
SettingsSound == TypeOK /\ StoredIsRunning
=============================================================================
