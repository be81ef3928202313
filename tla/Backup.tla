------------------------------- MODULE Backup -------------------------------
(***************************************************************************)
(* Backups of MySQL, Redis and Milvus into files, a manifest that names    *)
(* the three files of one backup, and the way back.  Backups run from a    *)
(* loop and from administrators' requests, overlapping; a file is named    *)
(* after the second in which its dump began.  MySQL is read in one         *)
(* transaction; keys and vectors are read and put back one after another.  *)
(***************************************************************************)
EXTENDS Naturals, Sequences

CONSTANTS
  Procs,      \* the loop and the administrators' requests
  TableRows, Keys, Vectors,  \* what MySQL's tables, Redis and Milvus may hold
  NumTables,  \* tables in MySQL, in the order of SHOW TABLES
  MaxTime, MaxDone,   \* bounds of an instance: seconds; writes, deletions, backups
                      \* and restores together
  None

Stores == <<"mysql", "redis", "milvus">>   \* in the order they are dumped
RestoreOrder == <<"milvus", "mysql", "redis">>
StoreSet == {Stores[i] : i \in 1 .. 3}
Tables == 1 .. NumTables
Seconds == 0 .. MaxTime
Itemwise == {"redis", "milvus"}
Items(s) == IF s = "redis" THEN Keys ELSE Vectors
Contents(s) == IF s = "mysql" THEN [Tables -> SUBSET TableRows] ELSE SUBSET Items(s)

BackupAssumption ==
  /\ MaxTime \in Nat /\ NumTables \in Nat /\ None \notin Seconds
  /\ \A s \in StoreSet : \A what \in Contents(s) : what # None

VARIABLES
  now,       \* the second of the clock
  content,   \* store -> what it holds
  file,      \* store, second -> None or the content of the file of that name
  manifest,  \* second -> None or the second of each store's file
  proc,      \* process -> None or its progress
  restored,  \* store -> None or the content a restore reported, until it changes
  done,      \* writes, deletions, backups and restores so far
  span,      \* history: process -> contents each store had since its backup began
  shared,    \* history: two dumps of one store began in one second
  tampered,  \* history: a data file was deleted by itself
  skipped,   \* history: a key could not be dumped, which was passed over
  blurred    \* history: stores where a restore passed over an error or met other work

vars == <<now, content, file, manifest, proc, restored, done, span, shared, tampered, skipped, blurred>>
disk == <<file, manifest>>
history == <<span, shared, tampered, skipped, blurred>>

Init ==
  /\ now = 0
  /\ content = [s \in StoreSet |-> IF s = "mysql" THEN [t \in Tables |-> TableRows] ELSE Items(s)]
  /\ file = [s \in StoreSet |-> [t \in Seconds |-> None]]
  /\ manifest = [t \in Seconds |-> None]
  /\ proc = [p \in Procs |-> None]
  /\ restored = [s \in StoreSet |-> None]
  /\ done = 0
  /\ span = [p \in Procs |-> [s \in StoreSet |-> {}]]
  /\ shared = FALSE /\ tampered = FALSE /\ skipped = FALSE /\ blurred = {}

Tick ==
  /\ now < MaxTime /\ now' = now + 1
  /\ UNCHANGED <<content, disk, proc, restored, done, history>>

Idle(p) == proc[p] = None
Doing(p, op) == ~Idle(p) /\ proc[p].op = op
BackingUp(p) == Doing(p, "next") \/ Doing(p, "reading")
NoSpan == [s \in StoreSet |-> {}]
EndBackup(p) == proc' = [proc EXCEPT ![p] = None] /\ span' = [span EXCEPT ![p] = NoSpan]

(* While items are put back into a store, the restore can meet others. *)
Putting(p, s) == Doing(p, "putting") /\ RestoreOrder[proc[p].at] = s
Meeting(s) == IF \E p \in Procs : Putting(p, s) THEN {s} ELSE {}

(* A store changes, in the span of every backup under way. *)
Holds(s, what) ==
  /\ content' = [content EXCEPT ![s] = what]
  /\ span' = [p \in Procs |-> IF BackingUp(p) THEN [span[p] EXCEPT ![s] = @ \cup {what}]
                               ELSE span[p]]

Counted == done < MaxDone /\ done' = done + 1

(* The program goes on writing, in one transaction of MySQL or to one item. *)
Write(s, what) ==
  /\ Counted /\ what # content[s] /\ Holds(s, what)
  /\ s \in Itemwise => \E x \in Items(s) : what \ {x} = content[s] \ {x}
  /\ restored' = [restored EXCEPT ![s] = None]
  /\ blurred' = blurred \cup Meeting(s)
  /\ UNCHANGED <<now, disk, proc, shared, tampered, skipped>>

-----------------------------------------------------------------------------
(* backup_all, and the request for a dump of MySQL alone: the first file is *)
(* the only one, and no manifest follows.                                   *)
Begin(p, single) ==
  /\ Idle(p) /\ Counted
  /\ proc' = [proc EXCEPT ![p] =
       [op |-> "next", single |-> single, ts |-> now, at |-> 1,
        files |-> [s \in StoreSet |-> None], dump |-> None, left |-> {}]]
  /\ span' = [span EXCEPT ![p] = [s \in StoreSet |-> {content[s]}]]
  /\ UNCHANGED <<now, content, disk, restored, shared, tampered, skipped, blurred>>

\* mutant
NameFirst(p) == proc[p].ts

(* A dump takes its own second, then reads the store. *)
Name(p) == now
BeginDump(p) ==
  LET q == proc[p]
      s == Stores[q.at] IN
  /\ Doing(p, "next") /\ q.at <= 3
  /\ proc' = [proc EXCEPT ![p] =
       [q EXCEPT !.op = "reading", !.files[s] = Name(p),
                 !.dump = IF s = "mysql" THEN None ELSE {},
                 !.left = IF s = "mysql" THEN {} ELSE Items(s)]]
  /\ shared' = (shared \/ file[s][now] # None
                 \/ \E o \in Procs : BackingUp(o) /\ proc[o].files[s] = now)
  /\ UNCHANGED <<now, content, disk, restored, done, span, tampered, skipped, blurred>>

(* All tables of MySQL are read in one transaction, as of its first read. *)
ReadTables(p) ==
  /\ Doing(p, "reading") /\ proc[p].dump = None
  /\ proc' = [proc EXCEPT ![p].dump = content["mysql"]]
  /\ UNCHANGED <<now, content, disk, restored, done, history>>

(* The scan of Redis and the iterators over Milvus' two collections meet    *)
(* each item once, in an order of their own, while the others are written   *)
(* to.  An error with one key of Redis is swallowed and the scan goes on.   *)
ReadItem(p, x) ==
  LET s == Stores[proc[p].at] IN
  /\ Doing(p, "reading") /\ x \in proc[p].left
  /\ \/ /\ proc' = [proc EXCEPT ![p].left = @ \ {x},
                                 ![p].dump = @ \cup ({x} \cap content[s])]
        /\ UNCHANGED skipped
     \/ /\ s = "redis" /\ skipped' = TRUE
        /\ proc' = [proc EXCEPT ![p].left = @ \ {x}]
  /\ UNCHANGED <<now, content, disk, restored, done, span, shared, tampered, blurred>>

Save(p) ==
  LET q == proc[p]
      s == Stores[q.at] IN
  /\ Doing(p, "reading") /\ q.left = {} /\ q.dump # None
  /\ file' = [file EXCEPT ![s][q.files[s]] = q.dump]
  /\ IF q.single THEN EndBackup(p)
     ELSE /\ proc' = [proc EXCEPT ![p] = [q EXCEPT !.op = "next", !.at = @ + 1, !.dump = None]]
          /\ UNCHANGED span
  /\ UNCHANGED <<now, content, manifest, restored, done, shared, tampered, skipped,
                 blurred>>

(* The manifest comes last, named after the second the backup began in. *)
Conclude(p) ==
  /\ Doing(p, "next") /\ proc[p].at = 4
  /\ manifest' = [manifest EXCEPT ![proc[p].ts] = [files |-> proc[p].files, span |-> span[p]]]
  /\ shared' = (shared \/ manifest[proc[p].ts] # None)
  /\ EndBackup(p)
  /\ UNCHANGED <<now, content, file, restored, done, tampered, skipped, blurred>>

(* A store that cannot be read ends the backup; files written stay. *)
BackupFails(p) ==
  /\ BackingUp(p) /\ EndBackup(p)
  /\ UNCHANGED <<now, content, disk, restored, done, shared, tampered, skipped, blurred>>

-----------------------------------------------------------------------------
(* restore_all: the files of one manifest, Milvus first; an error is noted  *)
(* in the answer and the next store follows.                                *)
BeginRestore(p, t) ==
  /\ Idle(p) /\ Counted /\ manifest[t] # None
  /\ proc' = [proc EXCEPT ![p] = [op |-> "restore", files |-> manifest[t].files, at |-> 1]]
  /\ UNCHANGED <<now, content, disk, restored, history>>

Restoring(p, s) == Doing(p, "restore") /\ proc[p].at <= 3 /\ RestoreOrder[proc[p].at] = s
Saved(p, s) == file[s][proc[p].files[s]]
Onward(p) == proc' = [proc EXCEPT ![p] = IF @.at = 3 THEN None
                                         ELSE [op |-> "restore", files |-> @.files, at |-> @.at + 1]]

(* A store fails, or its file is gone: no more happens to the store. *)
RestoreFails(p) ==
  /\ Doing(p, "restore") \/ Doing(p, "putting")
  /\ Onward(p)
  /\ UNCHANGED <<now, content, disk, restored, done, history>>

PutBack(p, s) ==
  proc' = [proc EXCEPT ![p] = [op |-> "putting", files |-> @.files, at |-> @.at,
                               dump |-> Saved(p, s), left |-> Saved(p, s)]]

(* Milvus' two collections are dropped, an error forgiven, and the vectors  *)
(* of the file are inserted into what is there.                             *)
DropVectors(p) ==
  /\ Restoring(p, "milvus") /\ Saved(p, "milvus") # None /\ PutBack(p, "milvus")
  /\ restored' = [restored EXCEPT !["milvus"] = None]
  /\ \/ Holds("milvus", {}) /\ blurred' = blurred \cup Meeting("milvus")
     \/ /\ \E rest \in SUBSET content["milvus"] : Holds("milvus", rest)
        /\ blurred' = blurred \cup {"milvus"}
  /\ UNCHANGED <<now, disk, done, shared, tampered, skipped>>

(* Redis is not emptied: a key created since the backup stays. *)
BeginKeys(p) ==
  /\ Restoring(p, "redis") /\ Saved(p, "redis") # None /\ PutBack(p, "redis")
  /\ UNCHANGED <<now, content, disk, restored, done, history>>

(* One item after another is put back; an error with one key is swallowed. *)
PutItem(p, x) ==
  LET s == RestoreOrder[proc[p].at] IN
  /\ Doing(p, "putting") /\ x \in proc[p].left
  /\ proc' = [proc EXCEPT ![p].left = @ \ {x}]
  /\ \/ Holds(s, content[s] \cup {x}) /\ UNCHANGED blurred
     \/ s = "redis" /\ blurred' = blurred \cup {s} /\ UNCHANGED <<content, span>>
  /\ UNCHANGED <<now, disk, restored, done, shared, tampered, skipped>>

ReportItems(p) ==
  /\ Doing(p, "putting") /\ proc[p].left = {}
  /\ restored' = [restored EXCEPT ![RestoreOrder[proc[p].at]] = proc[p].dump]
  /\ Onward(p)
  /\ UNCHANGED <<now, content, disk, done, history>>

(* The dump of MySQL is a DROP, a CREATE and an INSERT for every row, table *)
(* by table, and is run until a statement fails.  The reader splits it at   *)
(* the semicolons and skips a piece that begins with a comment: the first,  *)
(* which holds the comment and the first DROP.  To create a table that was  *)
(* not dropped fails.                                                       *)
DropRuns(t) == t # 1
Recreated(t) == \A u \in 1 .. t : DropRuns(u)

RestoreTables(p) ==
  LET saved == Saved(p, "mysql") IN
  /\ Restoring(p, "mysql") /\ saved # None
  /\ Holds("mysql", [t \in Tables |-> IF Recreated(t) THEN saved[t] ELSE content["mysql"][t]])
  /\ restored' = [restored EXCEPT !["mysql"] = IF Recreated(NumTables) THEN saved ELSE None]
  /\ Onward(p)
  /\ UNCHANGED <<now, disk, done, shared, tampered, skipped, blurred>>

-----------------------------------------------------------------------------

(* delete_backup_all removes the files a manifest names, then the manifest; *)
(* delete_backup removes one data file.                                     *)
DeleteBackup(t) ==
  /\ manifest[t] # None /\ Counted
  /\ file' = [s \in StoreSet |-> [file[s] EXCEPT ![manifest[t].files[s]] = None]]
  /\ manifest' = [manifest EXCEPT ![t] = None]
  /\ UNCHANGED <<now, content, proc, restored, history>>

DeleteFile(s, t) ==
  /\ file[s][t] # None /\ Counted /\ file' = [file EXCEPT ![s][t] = None]
  /\ tampered' = TRUE
  /\ UNCHANGED <<now, content, manifest, proc, restored, span, shared, skipped, blurred>>

Next ==
  \/ Tick
  \/ \E s \in StoreSet : \E what \in Contents(s) : Write(s, what)
  \/ \E p \in Procs :
       \/ \E single \in BOOLEAN : Begin(p, single)
       \/ BeginDump(p) \/ ReadTables(p) \/ \E x \in Keys \cup Vectors : ReadItem(p, x) \/ PutItem(p, x)
       \/ Save(p) \/ Conclude(p) \/ BackupFails(p)
       \/ \E t \in Seconds : BeginRestore(p, t)
       \/ RestoreFails(p) \/ RestoreTables(p)
       \/ DropVectors(p) \/ BeginKeys(p) \/ ReportItems(p)
  \/ \E t \in Seconds : DeleteBackup(t) \/ \E s \in StoreSet : DeleteFile(s, t)

Spec == Init /\ [][Next]_vars

-----------------------------------------------------------------------------
(* Stores, files and manifests hold values of their kinds. *)
TypeOK ==
  /\ \A s \in StoreSet : content[s] \in Contents(s)
  /\ \A s \in StoreSet, t \in Seconds : file[s][t] \in Contents(s) \cup {None}
  /\ \A t \in Seconds : manifest[t] # None => manifest[t].files \in [StoreSet -> Seconds]

(* A backup that is listed has its three files, unless two dumps of a store *)
(* began in the same second or a file was deleted by itself (backup_all     *)
(* writes the manifest last, delete_backup_all removes what it names).      *)
ListedIsWhole ==
  ~shared /\ ~tampered => \A t \in Seconds : manifest[t] # None =>
    \A s \in StoreSet : file[s][manifest[t].files[s]] # None

(* The dump of MySQL in a listed backup is what the tables held at one      *)
(* moment of that backup.  Those of Redis and Milvus are of no moment: each *)
(* of their items was there at some moment, and none that was there all the *)
(* time is missing, unless an error with a key was swallowed (backup_redis, *)
(* _dump_milvus_sync).                                                      *)
BackupIsOfItsTime ==
  ~shared /\ ~tampered => \A t \in Seconds : manifest[t] # None =>
    \A s \in StoreSet :
      LET saved == file[s][manifest[t].files[s]]
          span_s == manifest[t].span[s] IN
      IF s = "mysql" THEN saved \in span_s
      ELSE /\ saved \subseteq UNION span_s
           /\ \A x \in Items(s) : (\A what \in span_s : x \in what) =>
                x \in saved \/ (s = "redis" /\ skipped)

(* What a restore reports as restored is in the store until somebody writes *)
(* to it: exactly the file's content for MySQL and Milvus, at least that    *)
(* for Redis, unless an error was passed over or others wrote while items   *)
(* were put back.                                                           *)
ReportedIsRestored ==
  \A s \in StoreSet \ blurred : restored[s] # None =>
    IF s = "redis" THEN restored[s] \subseteq content[s] ELSE content[s] = restored[s]

(* What restore_mysql says of itself, backup_service.py:89: statement by    *)
(* statement, DROP, CREATE, INSERT, over the current data.                  *)
RestoreOverwrites ==
  [][\A p \in Procs : RestoreTables(p) => content'["mysql"] = Saved(p, "mysql")]_vars

\* A listed backup is whole and of its time; what a restore reports restored, is.
BackupsSound == TypeOK /\ ListedIsWhole /\ BackupIsOfItsTime /\ ReportedIsRestored
=============================================================================
