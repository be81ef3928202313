------------------------------ MODULE Accounts ------------------------------
(***************************************************************************)
(* Accounts and their administration.  A request reads its actor and its   *)
(* target in the snapshot of one transaction (REPEATABLE READ), decides,   *)
(* and writes the one column it changes.                                   *)
(***************************************************************************)
EXTENDS Naturals, FiniteSets

CONSTANTS
  Users,     \* ids
  Secrets,   \* passwords
  First,     \* users there from the start: active administrators
  Initial,   \* ... and their password
  Requests, MaxRequests,  \* bounds of an instance: requests at a time, in all
  None, Deleted

Values ==
  [role |-> {"admin", "operator"}, status |-> {"active", "inactive"}, password |-> Secrets]
Columns == DOMAIN Values
Rows == [role : Values.role, status : Values.status, password : Values.password]

\* There is somebody to begin with, and None and Deleted are no rows and no requests.
AccountsAssumption ==
  /\ IsFiniteSet(Users) /\ First # {} /\ First \subseteq Users /\ Initial \in Secrets
  /\ None # Deleted /\ {None, Deleted} \cap Rows = {}
  /\ None \notin [target : Users, column : Columns \cup {"row"}, seen : Rows \cup {None},
                  value : Rows \cup {Deleted} \cup UNION {Values[c] : c \in Columns}]

VARIABLES
  users,    \* id -> None, Deleted or the row
  req,      \* request -> None or what it asks and the rows it sees
  asked,    \* requests so far
  told,     \* history: id, column -> value an answer said was set
  met,      \* history: id, column pairs two requests were about at once
  crossed,  \* history: two requests about administrators overlapped
  demoted   \* history: an administrator's role was taken away

vars == <<users, req, asked, told, met, crossed, demoted>>

Init ==
  /\ users = [u \in Users |-> IF u \in First
                THEN [role |-> "admin", status |-> "active", password |-> Initial] ELSE None]
  /\ req = [r \in Requests |-> None]
  /\ asked = 0
  /\ told = [u \in Users |-> [c \in Columns |-> None]]
  /\ met = {} /\ crossed = FALSE /\ demoted = FALSE

Exists(db, u) == db[u] \notin {None, Deleted}
ActiveAdmins(db) == {u \in Users : Exists(db, u) /\ db[u].role = "admin" /\ db[u].status = "active"}

Others(r) == {o \in Requests \ {r} : req[o] # None}
Idle(r) == req[r] = None /\ asked < MaxRequests /\ asked' = asked + 1

Ask(r, q) ==
  /\ req' = [req EXCEPT ![r] = q]
  /\ met' = met \cup {<<q.target, q.column>> : o \in {o \in Others(r) :
                        req[o].target = q.target /\ req[o].column \in {q.column, "row"}}}
                \cup {<<q.target, c>> : c \in IF q.column = "row" /\ \E o \in Others(r) : req[o].target = q.target
                                              THEN Columns ELSE {}}
  /\ crossed' = (crossed \/ Others(r) # {})
  /\ UNCHANGED <<users, told, demoted>>

(* set_user_status and update_user_role by one with the permission; the     *)
(* last active administrator stays active, the actor is never the target.   *)
AskColumn(r, actor, u, c, v) ==
  /\ Idle(r) /\ Exists(users, actor) /\ users[actor].role = "admin" /\ Exists(users, u)
  /\ c = "status" =>
       /\ u # actor
       /\ users[u].role = "admin" /\ v = "inactive" => Cardinality(ActiveAdmins(users)) > 1
  /\ Ask(r, [target |-> u, column |-> c, value |-> v, seen |-> users[u]])

(* change_password: by the user, who gives the old one. *)
AskPassword(r, u, old, new) ==
  /\ Idle(r) /\ Exists(users, u) /\ users[u].password = old
  /\ Ask(r, [target |-> u, column |-> "password", value |-> new, seen |-> users[u]])

\* mutant
AskDeletionUnguarded(r, actor, u) ==
  /\ Idle(r) /\ Exists(users, actor) /\ users[actor].role = "admin" /\ Exists(users, u)
  /\ Ask(r, [target |-> u, column |-> "row", value |-> Deleted, seen |-> users[u]])

(* delete_user. *)
AskDeletion(r, actor, u) ==
  /\ Idle(r) /\ Exists(users, actor) /\ users[actor].role = "admin" /\ Exists(users, u) /\ u # actor
  /\ users[u].role = "admin" => Cardinality(ActiveAdmins(users)) > 1
  /\ Ask(r, [target |-> u, column |-> "row", value |-> Deleted, seen |-> users[u]])

(* register_user: the name must be free, for its snapshot and at the end. *)
AskRegistration(r, actor, u, row) ==
  /\ Idle(r) /\ Exists(users, actor) /\ users[actor].role = "admin" /\ users[u] = None
  /\ Ask(r, [target |-> u, column |-> "row", value |-> row, seen |-> None])

Answered(r) == req' = [req EXCEPT ![r] = None] /\ UNCHANGED <<asked, met, crossed>>

(* The UPDATE names the column, and is left out when the row seen had the   *)
(* value already (a new hash never does); a row deleted meanwhile is an     *)
(* error.                                                                   *)
Row(u, q) == [users[u] EXCEPT ![q.column] = q.value]
CommitColumn(r) ==
  LET q == req[r]
      u == q.target
      changes == q.column = "password" \/ q.seen[q.column] # q.value IN
  /\ req[r] # None /\ q.column # "row"
  /\ Answered(r)
  /\ IF changes /\ ~Exists(users, u) THEN UNCHANGED <<users, told, demoted>>
     ELSE /\ users' = IF changes THEN [users EXCEPT ![u] = Row(u, q)] ELSE users
          /\ told' = [told EXCEPT ![u][q.column] = q.value]
          /\ demoted' = (demoted \/ (changes /\ q.value = "operator"))

CommitRow(r) ==
  LET q == req[r]
      u == q.target IN
  /\ req[r] # None /\ q.column = "row"
  /\ Answered(r)
  /\ users' = IF q.value = Deleted \/ users[u] = None THEN [users EXCEPT ![u] = q.value] ELSE users
  /\ told' = [told EXCEPT ![u] = [c \in Columns |-> None]]
  /\ UNCHANGED demoted

(* The request breaks off: its transaction is rolled back. *)
Fail(r) ==
  /\ req[r] # None
  /\ Answered(r)
  /\ UNCHANGED <<users, told, demoted>>

Next ==
  \E r \in Requests :
    \/ \E a, u \in Users :
         \/ \E c \in Columns : \E v \in Values[c] : AskColumn(r, a, u, c, v)
         \/ AskDeletion(r, a, u)
         \/ \E row \in Rows : row.status = "active" /\ AskRegistration(r, a, u, row)
    \/ \E u \in Users, old, new \in Secrets : AskPassword(r, u, old, new)
    \/ CommitColumn(r) \/ CommitRow(r) \/ Fail(r)

Spec == Init /\ [][Next]_vars

-----------------------------------------------------------------------------
(* Every account is unused, deleted or a row. *)
TypeOK ==
  /\ users \in [Users -> Rows \cup {None, Deleted}]
  /\ \A r \in Requests : req[r] # None => req[r].column \in Columns \cup {"row"}

(* Nobody is locked out of the administration: an active administrator      *)
(* remains, unless requests overlapped (two administrators may disable each *)
(* other) or a role was taken away, which nothing checks.                   *)
AdminRemains == ~crossed /\ ~demoted => ActiveAdmins(users) # {}

(* What an answer said was set is set, until an answer about the same       *)
(* column says otherwise, whatever overlaps in the other columns.           *)
AnswerHolds ==
  \A u \in Users, c \in Columns :
    Exists(users, u) /\ <<u, c>> \notin met /\ told[u][c] # None => users[u][c] = told[u][c]

\* An administrator remains, and what a request was granted held when it was granted.
AccountsSound == TypeOK /\ AdminRemains /\ AnswerHolds
=============================================================================
