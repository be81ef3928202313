--------------------------- MODULE ServicesProofs ---------------------------
(***************************************************************************)
(* What the services around a question keep, for every value of their      *)
(* constants: the settings in force, the accounts, what an answer cites,   *)
(* the memory of a user and the conversations.                             *)
(***************************************************************************)
EXTENDS MCServices, Sequences, SequencesExt, FiniteSetTheorems, FunctionTheorems,
        NaturalsInduction, WellFoundedInduction, TLAPS

ServicesStep == [ServicesNext]_ServicesVars

-----------------------------------------------------------------------------
(* The settings.                                                            *)

Document(d) == [Settings!Named(d) -> Numbers \cup {Word, None}]
Update(d) == [doc : {d}, param : Document(d), written : BOOLEAN]
Pending(r, d) == request[r] # None /\ request[r].doc = d

\* Memory has every value of the stored document up to one that is refused.
Agrees(d) ==
  stored[d] # None =>
    \A k \in Settings!Sound(d, stored[d]) : stored[d][k] # None => running[k] = stored[d][k]

\* A document without incidents has one update at most; Redis and memory agree on it
\* until that is written, and then Redis has what the update carries.
Clear(d) ==
  /\ \A r, q \in Pair : Pending(r, d) /\ Pending(q, d) => r = q
  /\ (\A r \in Pair : Pending(r, d) => ~request[r].written) => Agrees(d)
  /\ \A r \in Pair : Pending(r, d) /\ request[r].written => stored[d] = request[r].param

SettingsInv ==
  /\ Settings!TypeOK
  /\ stored = [d \in Sections |-> stored[d]] /\ request = [r \in Pair |-> request[r]]
  /\ \A r \in Pair : request[r] # None => request[r] \in Update(request[r].doc)
  /\ \A d \in Sections \ blurred : Clear(d)

\* A setting in force up to the refused one is a value or unset, and the document's own.
LEMMA SoundValue ==
  ASSUME NEW d \in Sections, NEW param \in Document(d), NEW k \in Settings!Sound(d, param)
  PROVE  k \in Settings!Named(d) /\ k \in Settings!Keys /\ param[k] \in Numbers \cup {None}
<1>1. PICK n \in 1 .. Len(KeysOf[d]) :
        k = KeysOf[d][n] /\ \A j \in 1 .. n : param[KeysOf[d][j]] # Word
  BY DEF Settings!Sound
<1>2. n \in 1 .. n
  OBVIOUS
<1>3. k \in Settings!Named(d) /\ param[k] # Word
  BY <1>1, <1>2 DEF Settings!Named
<1>4. param[k] \in Numbers \cup {Word, None}
  BY <1>3 DEF Document
<1> QED
  BY <1>3, <1>4 DEF Settings!Keys

\* At the start nothing is stored, nothing under way and everything unset.
LEMMA SettingsBegin == Settings!Init => SettingsInv
<1> SUFFICES ASSUME Settings!Init PROVE SettingsInv
  OBVIOUS
<1> USE DEF Settings!Init
<1>1. MaxUpdates \in Nat
  BY ServicesAssumption DEF Settings!SettingsAssumption
<1>2. Settings!TypeOK
  BY <1>1 DEF Settings!TypeOK
<1>3. \A d \in Sections \ blurred : Clear(d)
  BY DEF Clear, Pending, Agrees
<1> QED
  BY <1>2, <1>3 DEF SettingsInv

\* An update that begins finds its document without another, or marks it.
LEMMA UpdateBegins ==
  ASSUME SettingsInv, NEW r \in Pair, NEW d \in Sections, NEW param \in Document(d),
         Settings!Begin(r, d, param)
  PROVE  SettingsInv'
<1> DEFINE u == [doc |-> d, param |-> param, written |-> FALSE]
<1>1. /\ request[r] = None /\ updates < MaxUpdates /\ updates' = updates + 1
      /\ request' = [request EXCEPT ![r] = u]
      /\ blurred' = IF \E q \in Pair : request[q] # None /\ request[q].doc = d
                    THEN blurred \cup {d} ELSE blurred
      /\ stored' = stored /\ running' = running
  BY DEF Settings!Begin
<1>2. u \in Update(d) /\ u # None
  <2>1. u \in Update(d)
    BY DEF Update
  <2>2. None \notin Update(d)
    BY ServicesAssumption DEF Settings!SettingsAssumption, Update, Document
  <2> QED
    BY <2>1, <2>2
<1>3. \A q \in Pair : request'[q] = IF q = r THEN u ELSE request[q]
  BY <1>1 DEF SettingsInv
<1>4. Settings!TypeOK'
  BY <1>1, <1>2, <1>3, ServicesAssumption
  DEF SettingsInv, Settings!TypeOK, Settings!SettingsAssumption
<1>5. \A q \in Pair : request'[q] # None => request'[q] \in Update(request'[q].doc)
  <2> SUFFICES ASSUME NEW q \in Pair, request'[q] # None
               PROVE  request'[q] \in Update(request'[q].doc)
    OBVIOUS
  <2>1. u.doc = d
    OBVIOUS
  <2>2. CASE q = r
    BY <1>2, <1>3, <2>1, <2>2
  <2>3. CASE q # r
    BY <1>3, <2>3 DEF SettingsInv
  <2> QED
    BY <2>2, <2>3
<1>6. ASSUME NEW e \in Sections \ blurred' PROVE Clear(e)'
  <2>1. Clear(e)
    BY <1>1, <1>6 DEF SettingsInv
  <2>2. CASE e = d
    <3>1. \A q \in Pair : ~Pending(q, d)
      BY <1>1, <1>6, <2>2 DEF Pending
    <3>2. \A q \in Pair : Pending(q, d)' => q = r
      BY <1>3, <3>1 DEF Pending
    <3>3. Agrees(d)'
      BY <1>1, <2>1, <2>2, <3>1 DEF Clear, Agrees, Settings!Sound
    <3> QED
      BY <1>3, <2>2, <3>2, <3>3 DEF Clear
  <2>3. CASE e # d
    <3>1. \A q \in Pair : Pending(q, e)' => request'[q] = request[q] /\ Pending(q, e)
      BY <1>3, <2>3 DEF Pending
    <3>2. \A q \in Pair : Pending(q, e) => request'[q] = request[q] /\ Pending(q, e)'
      BY <1>1, <1>3 DEF Pending
    <3>3. Agrees(e) => Agrees(e)'
      BY <1>1 DEF Agrees, Settings!Sound
    <3> QED
      BY <1>1, <2>1, <3>1, <3>2, <3>3 DEF Clear
  <2> QED
    BY <2>2, <2>3
<1>7. request' = [q \in Pair |-> request'[q]] /\ stored' = [e \in Sections |-> stored'[e]]
  BY <1>1 DEF SettingsInv
<1> QED
  BY <1>4, <1>5, <1>6, <1>7 DEF SettingsInv

\* What a step leaves of the other documents: a step of the update of one document that
\* keeps what runs for another one keeps that other one clear.
LEMMA ClearStays ==
  ASSUME SettingsInv, NEW r \in Pair, NEW e \in Sections, Clear(e),
         request[r] # None, request[r].doc # e, stored'[e] = stored[e],
         \A q \in Pair \ {r} : request'[q] = request[q],
         request'[r] # None => request'[r].doc = request[r].doc,
         \A k \in Settings!Named(e) : running'[k] = running[k]
  PROVE  Clear(e)'
<1>1. \A q \in Pair : Pending(q, e)' <=> Pending(q, e)
  BY DEF Pending
<1>2. \A q \in Pair : Pending(q, e) => request'[q] = request[q]
  BY DEF Pending
<1>3. Agrees(e) => Agrees(e)'
  <2> SUFFICES ASSUME Agrees(e), stored[e] # None,
                      NEW k \in Settings!Sound(e, stored[e]), stored[e][k] # None
               PROVE  running'[k] = stored[e][k]
    BY DEF Agrees, Settings!Sound
  <2>1. k \in Settings!Named(e)
    BY SoundValue DEF SettingsInv, Settings!TypeOK, Document
  <2> QED
    BY <2>1 DEF Agrees
<1> QED
  BY <1>1, <1>2, <1>3 DEF Clear

\* A write makes Redis the update's own.
LEMMA UpdateWrites ==
  ASSUME SettingsInv, NEW r \in Pair, Settings!Write(r)
  PROVE  SettingsInv'
<1> DEFINE d == request[r].doc
<1>1. /\ request[r] # None /\ ~request[r].written
      /\ stored' = [stored EXCEPT ![d] = request[r].param]
      /\ request' = [request EXCEPT ![r].written = TRUE]
      /\ running' = running /\ updates' = updates /\ blurred' = blurred
  BY DEF Settings!Write
<1>2. d \in Sections /\ request[r] \in Update(d)
  BY <1>1 DEF SettingsInv, Settings!TypeOK
<1> DEFINE w == [request[r] EXCEPT !.written = TRUE]
<1>3. w \in Update(d) /\ w.doc = d /\ w.param = request[r].param /\ w.written
  BY <1>2 DEF Update
<1>4. \A q \in Pair : request'[q] = IF q = r THEN w ELSE request[q]
  BY <1>1 DEF SettingsInv
<1>5. \A e \in Sections : stored'[e] = IF e = d THEN request[r].param ELSE stored[e]
  BY <1>1, <1>2 DEF SettingsInv
<1>6. request[r].param \in Document(d)
  BY <1>2 DEF Update
<1>7. Settings!TypeOK'
  <2>1. \A e \in Sections : stored'[e] = None \/ stored'[e] \in Document(e)
    BY <1>5, <1>6 DEF SettingsInv, Settings!TypeOK, Document
  <2>2. \A q \in Pair : request'[q] # None => request'[q].doc \in Sections
    BY <1>2, <1>3, <1>4 DEF SettingsInv, Settings!TypeOK
  <2> QED
    BY <1>1, <2>1, <2>2 DEF SettingsInv, Settings!TypeOK, Document
<1>8. \A q \in Pair : request'[q] # None => request'[q] \in Update(request'[q].doc)
  <2> SUFFICES ASSUME NEW q \in Pair, request'[q] # None
               PROVE  request'[q] \in Update(request'[q].doc)
    OBVIOUS
  <2>1. CASE q = r
    BY <1>3, <1>4, <2>1
  <2>2. CASE q # r
    BY <1>4, <2>2 DEF SettingsInv
  <2> QED
    BY <2>1, <2>2
<1>9. ASSUME NEW e \in Sections \ blurred' PROVE Clear(e)'
  <2>1. Clear(e)
    BY <1>1, <1>9 DEF SettingsInv
  <2>2. CASE e = d
    <3>1. Pending(r, e) /\ Pending(r, e)' /\ request'[r].written
      BY <1>1, <1>3, <1>4, <2>2, ServicesAssumption
      DEF Pending, Settings!SettingsAssumption, Update, Document
    <3>2. \A q \in Pair : Pending(q, e)' => q = r
      BY <1>4, <2>1, <3>1 DEF Clear, Pending
    <3> QED
      BY <1>3, <1>4, <1>5, <2>2, <3>1, <3>2 DEF Clear
  <2>3. CASE e # d
    BY <1>1, <1>3, <1>4, <1>5, <2>1, <2>3, ClearStays
  <2> QED
    BY <2>2, <2>3
<1>10. request' = [q \in Pair |-> request'[q]] /\ stored' = [e \in Sections |-> stored'[e]]
  BY <1>1 DEF SettingsInv
<1> QED
  BY <1>7, <1>8, <1>9, <1>10 DEF SettingsInv

\* The values come into force: what Redis has is what runs, and the settings of other
\* documents are other settings.
LEMMA UpdateInForce ==
  ASSUME SettingsInv, NEW r \in Pair, Settings!PutInForce(r)
  PROVE  SettingsInv'
<1> DEFINE d == request[r].doc
<1>1. /\ request[r] # None /\ request[r].written
      /\ running' = Settings!Effect(d, request[r].param)
      /\ request' = [request EXCEPT ![r] = None]
      /\ stored' = stored /\ updates' = updates /\ blurred' = blurred
  BY DEF Settings!PutInForce
<1>2. d \in Sections /\ request[r].param \in Document(d)
  BY <1>1 DEF SettingsInv, Settings!TypeOK, Update
<1>3. \A q \in Pair : request'[q] = IF q = r THEN None ELSE request[q]
  BY <1>1 DEF SettingsInv
<1> DEFINE p == request[r].param
<1>4. \A k \in Settings!Sound(d, p) :
        k \in Settings!Keys /\ k \in Settings!Named(d) /\ p[k] \in Numbers \cup {None}
  BY <1>2, SoundValue
<1>5. \A k \in Settings!Keys :
        running'[k] = IF k \in Settings!Sound(d, p) /\ p[k] # None THEN p[k] ELSE running[k]
  BY <1>1 DEF Settings!Effect
<1>6. running' \in [Settings!Keys -> Numbers \cup {Usual}]
  <2>1. \A k \in Settings!Keys : running'[k] \in Numbers \cup {Usual}
    BY <1>4, <1>5 DEF SettingsInv, Settings!TypeOK
  <2>2. running' = [k \in Settings!Keys |-> running'[k]]
    BY <1>1 DEF Settings!Effect
  <2> QED
    BY <2>1, <2>2
<1>7. Settings!TypeOK'
  BY <1>1, <1>3, <1>6 DEF SettingsInv, Settings!TypeOK
<1>8. ASSUME NEW e \in Sections \ blurred' PROVE Clear(e)'
  <2>1. Clear(e)
    BY <1>1, <1>8 DEF SettingsInv
  <2>2. CASE e = d
    <3>1. Pending(r, e) /\ stored[e] = p
      BY <1>1, <2>1, <2>2 DEF Clear, Pending
    <3>2. \A q \in Pair : ~Pending(q, e)'
      BY <1>3, <2>1, <3>1 DEF Clear, Pending
    <3>3. Agrees(e)'
      BY <1>1, <1>4, <1>5, <2>2, <3>1 DEF Agrees, Settings!Sound
    <3> QED
      BY <3>2, <3>3 DEF Clear
  <2>3. CASE e # d
    <3>1. \A k \in Settings!Named(e) : k \in Settings!Keys /\ k \notin Settings!Sound(d, p)
      BY <1>2, <1>4, <2>3, ServicesAssumption DEF Settings!SettingsAssumption, Settings!Keys
    <3> QED
      BY <1>1, <1>3, <1>5, <2>1, <2>3, <3>1, ClearStays
  <2> QED
    BY <2>2, <2>3
<1>9. request' = [q \in Pair |-> request'[q]] /\ stored' = [e \in Sections |-> stored'[e]]
  BY <1>1 DEF SettingsInv
<1> QED
  BY <1>3, <1>7, <1>8, <1>9 DEF SettingsInv

\* A failure after the write leaves its mark on the document.
LEMMA UpdateFails ==
  ASSUME SettingsInv, NEW r \in Pair, Settings!Fail(r)
  PROVE  SettingsInv'
<1> DEFINE d == request[r].doc
<1>1. /\ request[r] # None /\ request' = [request EXCEPT ![r] = None]
      /\ blurred' = IF request[r].written THEN blurred \cup {d} ELSE blurred
      /\ stored' = stored /\ running' = running /\ updates' = updates
  BY DEF Settings!Fail
<1>2. d \in Sections
  BY <1>1 DEF SettingsInv, Settings!TypeOK
<1>3. \A q \in Pair : request'[q] = IF q = r THEN None ELSE request[q]
  BY <1>1 DEF SettingsInv
<1>4. Settings!TypeOK'
  BY <1>1, <1>2, <1>3 DEF SettingsInv, Settings!TypeOK
<1>5. ASSUME NEW e \in Sections \ blurred' PROVE Clear(e)'
  <2>1. Clear(e)
    BY <1>1, <1>5 DEF SettingsInv
  <2>2. CASE e = d
    <3>1. Pending(r, e) /\ ~request[r].written
      BY <1>1, <1>5, <2>2 DEF Pending
    <3>2. \A q \in Pair : Pending(q, e) => q = r
      BY <2>1, <3>1 DEF Clear
    <3>3. Agrees(e)'
      BY <1>1, <2>1, <3>1, <3>2 DEF Clear, Agrees, Settings!Sound
    <3>4. \A q \in Pair : ~Pending(q, e)'
      BY <1>3, <3>2 DEF Pending
    <3> QED
      BY <3>3, <3>4 DEF Clear
  <2>3. CASE e # d
    BY <1>1, <1>3, <2>1, <2>3, ClearStays
  <2> QED
    BY <2>2, <2>3
<1>6. request' = [q \in Pair |-> request'[q]] /\ stored' = [e \in Sections |-> stored'[e]]
  BY <1>1 DEF SettingsInv
<1> QED
  BY <1>3, <1>4, <1>5, <1>6 DEF SettingsInv

\* A new process reads the documents; those it can read are clear.
LEMMA ProcessRestarts ==
  ASSUME SettingsInv, Settings!Restart
  PROVE  SettingsInv'
<1>1. PICK unread \in {{}, Sections} :
        /\ running' = [k \in Settings!Keys |->
             LET d == CHOOSE d \in Sections : k \in Settings!Named(d) IN
             IF d \in unread THEN Usual ELSE Settings!Loaded(d, k)]
        /\ blurred' = unread
  BY DEF Settings!Restart
<1>2. /\ updates < MaxUpdates /\ updates' = updates + 1 /\ stored' = stored
      /\ request' = [r \in Pair |-> None]
  BY DEF Settings!Restart
<1> DEFINE Home(k) == CHOOSE d \in Sections : k \in Settings!Named(d)
<1>3. \A k \in Settings!Keys : Home(k) \in Sections /\ k \in Settings!Named(Home(k))
  BY DEF Settings!Keys
<1>4. \A d \in Sections : \A k \in Settings!Named(d) : k \in Settings!Keys /\ Home(k) = d
  BY <1>3, ServicesAssumption DEF Settings!SettingsAssumption, Settings!Keys
<1>5. \A k \in Settings!Keys :
        running'[k] = IF Home(k) \in unread THEN Usual ELSE Settings!Loaded(Home(k), k)
  BY <1>1
<1>6. \A k \in Settings!Keys : running'[k] \in Numbers \cup {Usual}
  <2> SUFFICES ASSUME NEW k \in Settings!Keys, Home(k) \notin unread
               PROVE  Settings!Loaded(Home(k), k) \in Numbers \cup {Usual}
    BY <1>5
  <2> DEFINE d == Home(k)
  <2>1. d \in Sections
    BY <1>3
  <2>2. CASE stored[d] # None /\ k \in Settings!Sound(d, stored[d]) /\ stored[d][k] # None
    <3>1. stored[d] \in Document(d)
      BY <2>1, <2>2 DEF SettingsInv, Settings!TypeOK, Document
    <3>2. stored[d][k] \in Numbers \cup {None}
      BY <2>1, <2>2, <3>1, SoundValue
    <3> QED
      BY <2>2, <3>2 DEF Settings!Loaded
  <2>3. CASE ~(stored[d] # None /\ k \in Settings!Sound(d, stored[d]) /\ stored[d][k] # None)
    BY <2>3 DEF Settings!Loaded
  <2> QED
    BY <2>2, <2>3
<1>7. running' \in [Settings!Keys -> Numbers \cup {Usual}]
  <2>1. running' = [k \in Settings!Keys |-> running'[k]]
    BY <1>1
  <2> QED
    BY <1>6, <2>1
<1>8. updates' \in 0 .. MaxUpdates
  BY <1>2, ServicesAssumption DEF SettingsInv, Settings!TypeOK, Settings!SettingsAssumption
<1>9. Settings!TypeOK'
  BY <1>1, <1>2, <1>7, <1>8 DEF SettingsInv, Settings!TypeOK
<1>10. ASSUME NEW d \in Sections \ blurred' PROVE Clear(d)'
  <2>1. d \notin unread
    BY <1>1, <1>10
  <2>2. ASSUME stored[d] # None, NEW k \in Settings!Sound(d, stored[d]), stored[d][k] # None
        PROVE  running'[k] = stored[d][k]
    <3>1. k \in Settings!Named(d)
      BY <2>2, SoundValue DEF SettingsInv, Settings!TypeOK, Document
    <3> QED
      BY <1>4, <1>5, <2>1, <2>2, <3>1 DEF Settings!Loaded
  <2>3. Agrees(d)'
    BY <1>2, <2>2 DEF Agrees, Settings!Sound
  <2> QED
    BY <1>2, <2>3 DEF Clear, Pending
<1> QED
  BY <1>2, <1>9, <1>10 DEF SettingsInv

\* Every step of the settings keeps the invariant.
LEMMA SettingsStep == SettingsInv /\ Settings!Next => SettingsInv'
<1> SUFFICES ASSUME SettingsInv, Settings!Next PROVE SettingsInv'
  OBVIOUS
<1>1. CASE Settings!Restart
  BY <1>1, ProcessRestarts
<1>2. ASSUME NEW r \in Pair, NEW d \in Sections, NEW param \in Document(d),
             Settings!Begin(r, d, param)
      PROVE  SettingsInv'
  BY <1>2, UpdateBegins
<1> QED
  BY <1>1, <1>2, UpdateWrites, UpdateInForce, UpdateFails DEF Settings!Next, Document

\* A step of another service changes no settings.
LEMMA SettingsRest ==
  ASSUME SettingsInv, UNCHANGED settings
  PROVE  SettingsInv'
BY DEF SettingsInv, Settings!TypeOK, Clear, Pending, Agrees, Settings!Sound, settings

\* What is stored runs: every value Redis holds for a setting is in force, unless
\* updates of its document overlapped, Redis failed, or a value before it was refused;
\* a restart takes back nothing Redis names.
THEOREM SettingsStaySound == ServicesSpec => []SettingsSound
<1> DEFINE I == focus = "settings" => SettingsInv
<1>1. ServicesInit => I
  BY SettingsBegin DEF ServicesInit
<1>2. I /\ ServicesStep => I'
  <2> SUFFICES ASSUME I, ServicesStep, focus' = "settings" PROVE SettingsInv'
    OBVIOUS
  <2>1. SettingsInv
    BY DEF ServicesStep, ServicesNext, ServicesVars
  <2>2. Settings!Next \/ UNCHANGED settings
    BY DEF ServicesStep, ServicesNext, ServicesVars, settings
  <2> QED
    BY <2>1, <2>2, SettingsStep, SettingsRest
<1>3. I => SettingsSound
  <2> SUFFICES ASSUME SettingsInv PROVE Settings!SettingsSound
    BY DEF SettingsSound
  <2>1. Settings!StoredIsRunning
    BY DEF SettingsInv, Clear, Pending, Agrees, Settings!StoredIsRunning
  <2> QED
    BY <2>1 DEF SettingsInv, Settings!SettingsSound
<1> QED
  BY <1>1, <1>2, <1>3, PTL DEF ServicesSpec, ServicesStep, ServicesVars


-----------------------------------------------------------------------------
(* The accounts.                                                            *)

AccountRow == [role : {"admin", "operator"}, status : {"active", "inactive"}, password : Passwords]
AccountColumns == {"role", "status", "password"}

\* A request changes one column of a row it saw, or the whole row.
Said == {"admin", "operator", "active", "inactive"} \cup Passwords
ColumnRequest ==
  {q \in [target : Members, column : AccountColumns, value : Said, seen : AccountRow] :
     /\ q.column = "role" => q.value \in {"admin", "operator"}
     /\ q.column = "status" => q.value \in {"active", "inactive"}
     /\ q.column = "password" => q.value \in Passwords}
RowRequest ==
  [target : Members, column : {"row"}, value : AccountRow \cup {Deleted},
   seen : AccountRow \cup {None}]
AccountRequest == ColumnRequest \cup RowRequest

\* Two requests about one column of one row have marked it.
Marked(q, o) ==
  q.target = o.target /\ q.column # "row" /\ o.column \in {q.column, "row"} =>
    <<q.target, q.column>> \in met

\* What a request saw is still so, if no other one has been about it.
StillSeen(q) ==
  q.column # "row" /\ <<q.target, q.column>> \notin met /\ People!Exists(users, q.target) =>
    users[q.target][q.column] = q.seen[q.column]

\* What a request may take away is no administrator, or not the last one.
Spares(q) ==
  \/ q.column \in {"role", "password"}
  \/ q.column = "status" /\ q.value = "active"
  \/ q.column = "row" /\ q.value # Deleted
  \/ q.target \notin People!ActiveAdmins(users)
  \/ \E u \in People!ActiveAdmins(users) : u # q.target

Administered ==
  u_crossed \/ demoted \/
    /\ People!ActiveAdmins(users) # {}
    /\ \A r \in Pair : u_req[r] # None =>
         Spares(u_req[r]) /\ \A o \in Pair : u_req[o] # None => o = r

AccountsInv ==
  /\ users \in [Members -> AccountRow \cup {None, Deleted}]
  /\ u_req \in [Pair -> AccountRequest \cup {None}]
  /\ told = [u \in Members |-> [c \in AccountColumns |-> told[u][c]]]
  /\ \A r \in Pair : u_req[r] # None =>
       /\ StillSeen(u_req[r])
       /\ \A o \in Pair \ {r} : u_req[o] # None => Marked(u_req[r], u_req[o])
  /\ Administered
  /\ People!AnswerHolds

\* The columns and the rows, and that None and Deleted are none.
LEMMA AccountKinds ==
  /\ People!Columns = AccountColumns /\ People!Rows = AccountRow
  /\ People!Values["role"] = {"admin", "operator"}
  /\ People!Values["status"] = {"active", "inactive"} /\ People!Values["password"] = Passwords
  /\ None \notin AccountRow /\ Deleted \notin AccountRow /\ None # Deleted
<1>1. People!Columns = AccountColumns
  BY DEF People!Columns, People!Values, AccountColumns
<1>2. People!Rows = AccountRow
  BY DEF People!Rows, People!Values, AccountRow
<1>3. /\ People!Values["role"] = {"admin", "operator"}
      /\ People!Values["status"] = {"active", "inactive"} /\ People!Values["password"] = Passwords
  BY DEF People!Values
<1> QED
  BY <1>1, <1>2, <1>3, ServicesAssumption DEF People!AccountsAssumption

\* None is no request.
LEMMA RequestKinds == None \notin AccountRequest
<1> DEFINE Forms == [target : Members, column : AccountColumns \cup {"row"}, seen : AccountRow \cup {None},
                   value : AccountRow \cup {Deleted} \cup UNION {People!Values[c] : c \in AccountColumns}]
<1>1. None \notin Forms
  BY AccountKinds, ServicesAssumption DEF People!AccountsAssumption
<1>2. Said = UNION {People!Values[c] : c \in AccountColumns}
  BY AccountKinds DEF AccountColumns, Said
<1>3. ColumnRequest \subseteq Forms
  BY <1>2 DEF ColumnRequest
<1>4. RowRequest \subseteq Forms
  BY DEF RowRequest
<1> QED
  BY <1>1, <1>3, <1>4 DEF AccountRequest

\* The first accounts are administrators.
LEMMA AccountsBegin == People!Init => AccountsInv
<1> SUFFICES ASSUME People!Init PROVE AccountsInv
  OBVIOUS
<1> USE DEF People!Init
<1> DEFINE first == [role |-> "admin", status |-> "active", password |-> FirstPassword]
<1>1. first \in AccountRow /\ first.role = "admin" /\ first.status = "active"
  BY ServicesAssumption DEF People!AccountsAssumption, AccountRow
<1>2. PICK u \in Founders : u \in Members
  BY ServicesAssumption DEF People!AccountsAssumption
<1>3. users \in [Members -> AccountRow \cup {None, Deleted}]
  BY <1>1
<1>4. u \in People!ActiveAdmins(users)
  BY <1>1, <1>2, AccountKinds DEF People!ActiveAdmins, People!Exists
<1>5. Administered
  BY <1>4 DEF Administered
<1>6. People!AnswerHolds
  BY AccountKinds DEF People!AnswerHolds
<1>7. told = [v \in Members |-> [c \in AccountColumns |-> told[v][c]]]
  BY AccountKinds
<1> QED
  BY <1>3, <1>5, <1>6, <1>7 DEF AccountsInv

\* One who asks marks what others are about, and changes no row.
LEMMA RequestAsked ==
  ASSUME AccountsInv, NEW r \in Pair, u_req[r] = None, NEW q \in AccountRequest,
         q.column # "row" => q.seen = users[q.target],
         Spares(q), People!Ask(r, q)
  PROVE  AccountsInv'
<1>1. /\ u_req' = [u_req EXCEPT ![r] = q] /\ users' = users /\ told' = told
      /\ demoted' = demoted
  BY DEF People!Ask
<1>2. u_crossed' = (u_crossed \/ People!Others(r) # {})
  BY DEF People!Ask
<1>3. \A p \in Pair : u_req'[p] = IF p = r THEN q ELSE u_req[p]
  BY <1>1 DEF AccountsInv
<1>4. met \subseteq met'
  BY DEF People!Ask
<1>5. ASSUME NEW o \in Pair \ {r}, u_req[o] # None
      PROVE  Marked(q, u_req[o])' /\ Marked(u_req[o], q)'
  <2>1. o \in People!Others(r)
    BY <1>5 DEF People!Others
  <2>2. u_req[o].target = q.target /\ u_req[o].column \in {q.column, "row"} =>
          <<q.target, q.column>> \in met'
    BY <2>1 DEF People!Ask
  <2>3. u_req[o].target = q.target /\ q.column = "row" =>
          \A c \in People!Columns : <<q.target, c>> \in met'
    BY <2>1 DEF People!Ask
  <2>4. u_req[o].column # "row" => u_req[o].column \in People!Columns
    BY <1>5, AccountKinds DEF AccountsInv, AccountRequest, ColumnRequest, RowRequest
  <2> QED
    BY <1>3, <1>5, <2>2, <2>3, <2>4 DEF Marked
<1>6. u_req' \in [Pair -> AccountRequest \cup {None}]
  BY <1>1 DEF AccountsInv
<1>7. ASSUME NEW p \in Pair, u_req'[p] # None
      PROVE  /\ StillSeen(u_req[p])'
             /\ \A o \in Pair \ {p} : u_req'[o] # None => Marked(u_req[p], u_req[o])'
  <2>1. CASE p = r
    <3>1. StillSeen(u_req[p])'
      BY <1>1, <1>3, <2>1 DEF StillSeen
    <3> QED
      BY <1>3, <1>5, <2>1, <3>1 DEF Marked
  <2>2. CASE p # r
    <3>1. u_req'[p] = u_req[p] /\ u_req[p] # None
      BY <1>3, <1>7, <2>2
    <3>2. StillSeen(u_req[p])'
      BY <1>1, <1>4, <3>1 DEF AccountsInv, StillSeen
    <3>3. ASSUME NEW o \in Pair \ {p}, u_req'[o] # None PROVE Marked(u_req[p], u_req[o])'
      <4>1. CASE o = r
        BY <1>3, <1>5, <2>2, <3>1, <4>1 DEF Marked
      <4>2. CASE o # r
        BY <1>3, <1>4, <3>1, <3>3, <4>2 DEF AccountsInv, Marked
      <4> QED
        BY <4>1, <4>2
    <3> QED
      BY <3>2, <3>3
  <2> QED
    BY <2>1, <2>2
<1>8. Administered'
  <2> SUFFICES ASSUME ~u_crossed', ~demoted' PROVE Administered'
    BY DEF Administered
  <2>1. ~u_crossed /\ ~demoted /\ People!Others(r) = {}
    BY <1>1, <1>2
  <2>2. \A o \in Pair : o # r => u_req[o] = None
    BY <2>1 DEF People!Others
  <2>3. People!ActiveAdmins(users) # {}
    BY <2>1 DEF AccountsInv, Administered
  <2>4. \A p \in Pair : u_req'[p] # None => p = r
    BY <1>3, <2>2
  <2>5. People!ActiveAdmins(users)' = People!ActiveAdmins(users)
    BY <1>1 DEF People!ActiveAdmins, People!Exists
  <2>6. Spares(q)'
    BY <1>1, <2>5 DEF Spares
  <2> QED
    BY <1>3, <2>3, <2>4, <2>5, <2>6 DEF Administered, Spares
<1>9. People!AnswerHolds'
  BY <1>1, <1>4 DEF AccountsInv, People!AnswerHolds, People!Exists
<1> QED
  BY <1>1, <1>6, <1>7, <1>8, <1>9 DEF AccountsInv

\* A request that ends without a change leaves everybody else as they were.
LEMMA RequestDropped ==
  ASSUME AccountsInv, NEW r \in Pair, u_req' = [u_req EXCEPT ![r] = None],
         users' = users, told' = told, met' = met, u_crossed' = u_crossed, demoted' = demoted
  PROVE  AccountsInv'
<1>1. \A p \in Pair : u_req'[p] = IF p = r THEN None ELSE u_req[p]
  BY DEF AccountsInv
<1>2. u_req' \in [Pair -> AccountRequest \cup {None}]
  BY DEF AccountsInv
<1>3. \A p \in Pair : u_req'[p] # None => p # r /\ u_req'[p] = u_req[p] /\ u_req[p] # None
  BY <1>1
<1>4. ASSUME NEW p \in Pair, u_req'[p] # None
      PROVE  /\ StillSeen(u_req[p])'
             /\ \A o \in Pair \ {p} : u_req'[o] # None => Marked(u_req[p], u_req[o])'
  <2>1. StillSeen(u_req[p])'
    BY <1>3, <1>4 DEF AccountsInv, StillSeen, People!Exists
  <2> QED
    BY <1>3, <1>4, <2>1 DEF AccountsInv, Marked
<1>5. Administered'
  <2> SUFFICES ASSUME ~u_crossed', ~demoted' PROVE Administered'
    BY DEF Administered
  <2>1. ~u_crossed /\ ~demoted
    OBVIOUS
  <2>2. People!ActiveAdmins(users)' = People!ActiveAdmins(users)
    BY DEF People!ActiveAdmins, People!Exists
  <2>3. \A p \in Pair : u_req'[p] # None => Spares(u_req[p])'
    BY <1>3, <2>1, <2>2 DEF AccountsInv, Administered, Spares
  <2> QED
    BY <1>3, <2>1, <2>2, <2>3 DEF AccountsInv, Administered
<1>6. People!AnswerHolds'
  BY DEF AccountsInv, People!AnswerHolds, People!Exists
<1> QED
  BY <1>2, <1>4, <1>5, <1>6 DEF AccountsInv

\* What a change of a row leaves of the requests of others, and of those who administer.
LEMMA RowChanges ==
  ASSUME AccountsInv, NEW r \in Pair, u_req[r] # None,
         u_req' = [u_req EXCEPT ![r] = None], met' = met, u_crossed' = u_crossed,
         demoted => demoted', NEW u \in Members, u = u_req[r].target,
         users' \in [Members -> AccountRow \cup {None, Deleted}],
         \A v \in Members \ {u} : users'[v] = users[v],
         \A c \in AccountColumns \ {u_req[r].column} : u_req[r].column # "row" /\ People!Exists(users, u)' =>
           users'[u][c] = users[u][c] /\ People!Exists(users, u),
         told' = [v \in Members |-> [c \in AccountColumns |-> told'[v][c]]],
         ~u_crossed /\ ~demoted' => People!ActiveAdmins(users)' # {},
         People!AnswerHolds'
  PROVE  AccountsInv'
<1>1. \A p \in Pair : u_req'[p] = IF p = r THEN None ELSE u_req[p]
  BY DEF AccountsInv
<1>2. u_req' \in [Pair -> AccountRequest \cup {None}]
  BY DEF AccountsInv
<1>3. \A p \in Pair : u_req'[p] # None => p # r /\ u_req'[p] = u_req[p] /\ u_req[p] # None
  BY <1>1
<1>4. ASSUME NEW p \in Pair, u_req'[p] # None
      PROVE  StillSeen(u_req[p])'
  <2> DEFINE q == u_req[p]
  <2>1. /\ p # r /\ u_req'[p] = q /\ q # None /\ q \in AccountRequest
        /\ StillSeen(q) /\ Marked(q, u_req[r])
    BY <1>3, <1>4 DEF AccountsInv
  <2> SUFFICES ASSUME q.column # "row", <<q.target, q.column>> \notin met,
                      People!Exists(users, q.target)'
               PROVE  users'[q.target][q.column] = q.seen[q.column]
    BY <2>1 DEF StillSeen, People!Exists
  <2>2. q.column \in AccountColumns /\ q.target \in Members
    BY <2>1 DEF AccountRequest, ColumnRequest, RowRequest
  <2>3. CASE q.target # u
    BY <2>1, <2>2, <2>3 DEF StillSeen, People!Exists
  <2>4. CASE q.target = u
    <3>1. u_req[r].column \notin {q.column, "row"}
      BY <2>1, <2>4 DEF Marked
    <3>2. users'[u][q.column] = users[u][q.column] /\ People!Exists(users, u)
      BY <2>2, <2>4, <3>1
    <3> QED
      BY <2>1, <2>4, <3>2 DEF StillSeen
  <2> QED
    BY <2>3, <2>4
<1>5. \A p \in Pair : u_req'[p] # None =>
        \A o \in Pair \ {p} : u_req'[o] # None => Marked(u_req[p], u_req[o])'
  BY <1>3 DEF AccountsInv, Marked
<1>6. Administered'
  <2> SUFFICES ASSUME ~u_crossed', ~demoted' PROVE Administered'
    BY DEF Administered
  <2>1. ~u_crossed /\ ~demoted
    OBVIOUS
  <2>2. \A p \in Pair : u_req'[p] = None
    BY <1>1, <2>1 DEF AccountsInv, Administered
  <2> QED
    BY <2>1, <2>2 DEF Administered
<1> QED
  BY <1>2, <1>4, <1>5, <1>6 DEF AccountsInv

\* A column is set, or was seen to have the value.
LEMMA ColumnCommitted ==
  ASSUME AccountsInv, NEW r \in Pair, People!CommitColumn(r)
  PROVE  AccountsInv'
<1>0. u_req[r] # None /\ u_req[r].column # "row" /\ u_req[r] \in ColumnRequest
  <2>1. u_req[r] # None /\ u_req[r].column # "row"
    BY DEF People!CommitColumn
  <2> QED
    BY <2>1 DEF AccountsInv, AccountRequest, RowRequest
<1>2. PICK q \in ColumnRequest : q = u_req[r]
  BY <1>0
<1> DEFINE u == q.target  c == q.column
           differs == c = "password" \/ q.seen[c] # q.value
<1>1. /\ q # None /\ c # "row" /\ u_req' = [u_req EXCEPT ![r] = None]
      /\ met' = met /\ u_crossed' = u_crossed
      /\ IF differs /\ ~People!Exists(users, u) THEN UNCHANGED <<users, told, demoted>>
         ELSE /\ users' = IF differs THEN [users EXCEPT ![u] = People!Row(u, q)] ELSE users
              /\ told' = [told EXCEPT ![u][c] = q.value]
              /\ demoted' = (demoted \/ (differs /\ q.value = "operator"))
  BY <1>0, <1>2 DEF People!CommitColumn, People!Answered
<1>3. u \in Members /\ c \in AccountColumns
  BY <1>2 DEF ColumnRequest
<1>4. CASE differs /\ ~People!Exists(users, u)
  BY <1>1, <1>4, RequestDropped
<1>5. ASSUME ~(differs /\ ~People!Exists(users, u))
      PROVE  AccountsInv'
  <2>1. /\ users' = IF differs THEN [users EXCEPT ![u] = People!Row(u, q)] ELSE users
        /\ told' = [told EXCEPT ![u][c] = q.value]
    BY <1>1, <1>5
  <2>2. demoted' <=> demoted \/ (differs /\ q.value = "operator")
    BY <1>1, <1>5
  <2>3. differs => /\ users[u] \in AccountRow /\ People!Exists(users, u)
                   /\ users' = [users EXCEPT ![u] = [users[u] EXCEPT ![c] = q.value]]
    BY <1>3, <1>5, <2>1 DEF AccountsInv, People!Exists, People!Row
  <2>4. differs => [users[u] EXCEPT ![c] = q.value] \in AccountRow
    <3> SUFFICES ASSUME differs PROVE [users[u] EXCEPT ![c] = q.value] \in AccountRow
      OBVIOUS
    <3>1. CASE c = "role"
      BY <1>2, <2>3, <3>1 DEF ColumnRequest, AccountRow
    <3>2. CASE c = "status"
      BY <1>2, <2>3, <3>2 DEF ColumnRequest, AccountRow
    <3>3. CASE c = "password"
      BY <1>2, <2>3, <3>3 DEF ColumnRequest, AccountRow
    <3> QED
      BY <1>3, <3>1, <3>2, <3>3 DEF AccountColumns
  <2>5. users' \in [Members -> AccountRow \cup {None, Deleted}]
    BY <2>1, <2>3, <2>4 DEF AccountsInv
  <2>6. /\ \A v \in Members \ {u} : users'[v] = users[v]
        /\ \A d \in AccountColumns \ {c} : differs => users'[u][d] = users[u][d]
        /\ differs => users'[u][c] = q.value /\ users'[u] \in AccountRow
    BY <1>3, <2>1, <2>3, <2>4 DEF AccountsInv, AccountRow, AccountColumns
  <2>7. /\ told' = [v \in Members |-> [d \in AccountColumns |-> told'[v][d]]]
        /\ told'[u][c] = q.value
        /\ \A v \in Members, d \in AccountColumns : v # u \/ d # c => told'[v][d] = told[v][d]
    BY <1>3, <2>1 DEF AccountsInv
  <2>8. \A v \in Members : People!Exists(users, v)' <=> People!Exists(users, v)
    BY <1>3, <2>1, <2>3, <2>6, AccountKinds DEF People!Exists
  <2>9. People!AnswerHolds'
    <3> SUFFICES ASSUME NEW v \in Members, NEW d \in AccountColumns, People!Exists(users, v)',
                        <<v, d>> \notin met', told'[v][d] # None
                 PROVE  users'[v][d] = told'[v][d]
      BY AccountKinds DEF People!AnswerHolds
    <3>1. CASE v # u \/ d # c
      <4>1. users'[v][d] = users[v][d] /\ told'[v][d] = told[v][d]
        BY <2>1, <2>6, <2>7, <3>1
      <4> QED
        BY <1>1, <2>8, <4>1, AccountKinds DEF AccountsInv, People!AnswerHolds
    <3>2. CASE v = u /\ d = c /\ differs
      BY <2>6, <2>7, <3>2
    <3>3. CASE v = u /\ d = c /\ ~differs
      <4>1. users[u][c] = q.seen[c]
        BY <1>1, <1>2, <2>8, <3>3 DEF AccountsInv, StillSeen
      <4> QED
        BY <2>1, <2>7, <3>3, <4>1
    <3> QED
      BY <3>1, <3>2, <3>3
  <2>10. ~u_crossed /\ ~demoted' => People!ActiveAdmins(users)' # {}
    <3> SUFFICES ASSUME ~u_crossed, ~demoted' PROVE People!ActiveAdmins(users)' # {}
      OBVIOUS
    <3>1. People!ActiveAdmins(users) # {} /\ Spares(q) /\ ~(differs /\ q.value = "operator")
      BY <1>1, <1>2, <2>2 DEF AccountsInv, Administered
    <3>2. ASSUME NEW w \in People!ActiveAdmins(users), w # u \/ ~differs \/ c = "password"
                   \/ c = "role" \/ (c = "status" /\ q.value = "active")
          PROVE  w \in People!ActiveAdmins(users)'
      <4>1. /\ w \in Members /\ People!Exists(users, w)
            /\ users[w].role = "admin" /\ users[w].status = "active"
        BY DEF People!ActiveAdmins
      <4>2. People!Exists(users, w)'
        BY <2>8, <4>1
      <4>3. users'[w].role = "admin" /\ users'[w].status = "active"
        <5>1. CASE w # u \/ ~differs
          BY <2>1, <2>6, <4>1, <5>1
        <5>2. CASE w = u /\ differs
          <6>1. /\ users' = [users EXCEPT ![u] = [users[u] EXCEPT ![c] = q.value]]
                /\ users[u] \in AccountRow /\ users'[u] = [users[u] EXCEPT ![c] = q.value]
            BY <1>3, <2>3, <5>2 DEF AccountsInv
          <6>2. c = "role" => q.value = "admin"
            BY <1>2, <3>1, <5>2 DEF ColumnRequest
          <6>3. c # "status" \/ q.value = "active"
            BY <3>2, <5>2
          <6> QED
            BY <1>3, <4>1, <5>2, <6>1, <6>2, <6>3 DEF AccountRow, AccountColumns
        <5> QED
          BY <5>1, <5>2
      <4> QED
        BY <4>1, <4>2, <4>3 DEF People!ActiveAdmins, People!Exists
    <3>3. CASE c \in {"role", "password"} \/ (c = "status" /\ q.value = "active")
      BY <3>1, <3>2, <3>3
    <3>4. CASE u \notin People!ActiveAdmins(users)
      BY <3>1, <3>2, <3>4
    <3>5. CASE \E w \in People!ActiveAdmins(users) : w # u
      BY <3>2, <3>5
    <3> QED
      BY <1>1, <3>1, <3>3, <3>4, <3>5 DEF Spares
  <2>11. \A d \in AccountColumns \ {c} : People!Exists(users, u)' =>
           users'[u][d] = users[u][d] /\ People!Exists(users, u)
    BY <1>3, <2>1, <2>6, <2>8
  <2>12. \A d \in AccountColumns \ {u_req[r].column} :
           u_req[r].column # "row" /\ People!Exists(users, u)' =>
             users'[u][d] = users[u][d] /\ People!Exists(users, u)
    BY <1>2, <2>11
  <2>13. demoted => demoted'
    BY <2>2
  <2> HIDE DEF differs, c, u
  <2>14. u = u_req[r].target
    BY <1>2 DEF u
  <2> QED
    BY <1>0, <1>1, <1>3, <2>5, <2>6, <2>7, <2>9, <2>10, <2>12, <2>13, <2>14, RowChanges
<1> QED
  BY <1>4, <1>5

\* A row is deleted, or registered where none is.
LEMMA RowCommitted ==
  ASSUME AccountsInv, NEW r \in Pair, People!CommitRow(r)
  PROVE  AccountsInv'
<1>1. u_req[r] # None /\ u_req[r].column = "row" /\ u_req[r] \in RowRequest
  <2>1. u_req[r] # None /\ u_req[r].column = "row"
    BY DEF People!CommitRow
  <2> QED
    BY <2>1 DEF AccountsInv, AccountRequest, ColumnRequest, AccountColumns
<1>2. PICK q \in RowRequest : q = u_req[r]
  BY <1>1
<1>3. PICK u \in Members : u = q.target
  BY DEF RowRequest
<1>4. /\ u_req' = [u_req EXCEPT ![r] = None] /\ met' = met /\ u_crossed' = u_crossed
      /\ users' = IF q.value = Deleted \/ users[u] = None
                  THEN [users EXCEPT ![u] = q.value] ELSE users
      /\ told' = [told EXCEPT ![u] = [c \in People!Columns |-> None]]
      /\ demoted' = demoted
  BY <1>2, <1>3 DEF People!CommitRow, People!Answered
<1>5. users' \in [Members -> AccountRow \cup {None, Deleted}]
  BY <1>4 DEF AccountsInv, RowRequest
<1>6. \A v \in Members \ {u} : users'[v] = users[v]
  BY <1>4 DEF AccountsInv
<1>7. /\ told' = [v \in Members |-> [d \in AccountColumns |-> told'[v][d]]]
      /\ \A d \in AccountColumns : told'[u][d] = None
      /\ \A v \in Members \ {u} : told'[v] = told[v]
  BY <1>4, AccountKinds DEF AccountsInv
<1>8. People!AnswerHolds'
  <2> SUFFICES ASSUME NEW v \in Members, NEW d \in AccountColumns, People!Exists(users, v)',
                      <<v, d>> \notin met', told'[v][d] # None
               PROVE  users'[v][d] = told'[v][d]
    BY AccountKinds DEF People!AnswerHolds
  <2>1. v # u
    BY <1>7
  <2> QED
    BY <1>4, <1>6, <1>7, <2>1, AccountKinds DEF AccountsInv, People!AnswerHolds, People!Exists
<1>9. ~u_crossed /\ ~demoted' => People!ActiveAdmins(users)' # {}
  <2> SUFFICES ASSUME ~u_crossed, ~demoted PROVE People!ActiveAdmins(users)' # {}
    BY <1>4
  <2>1. People!ActiveAdmins(users) # {} /\ Spares(q)
    BY <1>1, <1>2 DEF AccountsInv, Administered
  <2>2. \A w \in People!ActiveAdmins(users) : w # u => w \in People!ActiveAdmins(users)'
    BY <1>6 DEF People!ActiveAdmins, People!Exists
  <2>3. CASE u \notin People!ActiveAdmins(users) \/ \E w \in People!ActiveAdmins(users) : w # u
    BY <2>1, <2>2, <2>3
  <2>4. CASE u \in People!ActiveAdmins(users) /\ q.value # Deleted
    <3>1. users[u] # None
      BY <2>4 DEF People!ActiveAdmins, People!Exists
    <3>2. users' = users
      BY <1>4, <2>4, <3>1
    <3> QED
      BY <2>1, <3>2 DEF People!ActiveAdmins, People!Exists
  <2> QED
    BY <1>1, <1>2, <1>3, <2>1, <2>3, <2>4 DEF Spares
<1> QED
  BY <1>1, <1>2, <1>3, <1>4, <1>5, <1>6, <1>7, <1>8, <1>9, RowChanges

\* One of several active administrators is not the last.
LEMMA NotTheLast ==
  ASSUME Cardinality(People!ActiveAdmins(users)) > 1, NEW u
  PROVE  \E w \in People!ActiveAdmins(users) : w # u
<1> SUFFICES ASSUME \A w \in People!ActiveAdmins(users) : w = u PROVE FALSE
  OBVIOUS
<1>1. IsFiniteSet(People!ActiveAdmins(users))
  <2>1. IsFiniteSet(Members)
    BY ServicesAssumption DEF People!AccountsAssumption, People!IsFiniteSet, IsFiniteSet
  <2> QED
    BY <2>1, FS_Subset DEF People!ActiveAdmins
<1>2. People!ActiveAdmins(users) = {} \/ People!ActiveAdmins(users) = {u}
  OBVIOUS
<1>3. Cardinality({}) = 0 /\ Cardinality({u}) = 1
  BY FS_EmptySet, FS_Singleton
<1> QED
  BY <1>2, <1>3

\* The checks of each question leave an administrator.
LEMMA ColumnAsked ==
  ASSUME AccountsInv, NEW r \in Pair, NEW a \in Members, NEW u \in Members,
         NEW c \in People!Columns, NEW v \in People!Values[c], People!AskColumn(r, a, u, c, v)
  PROVE  AccountsInv'
<1> DEFINE q == [target |-> u, column |-> c, value |-> v, seen |-> users[u]]
<1>1. /\ u_req[r] = None /\ People!Exists(users, u) /\ People!Ask(r, q)
      /\ c = "status" /\ users[u].role = "admin" /\ v = "inactive" =>
           People!Cardinality(People!ActiveAdmins(users)) > 1
  BY DEF People!AskColumn, People!Idle
<1>2. c \in AccountColumns /\ users[u] \in AccountRow
  BY <1>1, AccountKinds DEF AccountsInv, People!Exists
<1>3. /\ c = "role" => v \in {"admin", "operator"} /\ v \in Said
      /\ c = "status" => v \in {"active", "inactive"} /\ v \in Said
      /\ c = "password" => v \in Passwords /\ v \in Said
  BY AccountKinds DEF Said
<1>4. q \in ColumnRequest
  BY <1>2, <1>3 DEF ColumnRequest, AccountColumns
<1>5. Spares(q)
  <2>1. CASE c = "status" /\ users[u].role = "admin" /\ v = "inactive"
    <3>1. Cardinality(People!ActiveAdmins(users)) > 1
      BY <1>1, <2>1 DEF People!Cardinality, Cardinality
    <3> QED
      BY <3>1, NotTheLast DEF Spares
  <2>2. CASE c = "status" /\ users[u].role # "admin"
    BY <2>2 DEF Spares, People!ActiveAdmins
  <2>3. CASE c = "status" /\ v = "active"
    BY <2>3 DEF Spares
  <2> QED
    BY <1>2, <1>3, <2>1, <2>2, <2>3 DEF Spares, AccountColumns
<1> QED
  BY <1>1, <1>4, <1>5, RequestAsked DEF AccountRequest

\* A deletion asked for names an account there is, and spares the last admin.
LEMMA DeletionAsked ==
  ASSUME AccountsInv, NEW r \in Pair, NEW a \in Members, NEW u \in Members,
         People!AskDeletion(r, a, u)
  PROVE  AccountsInv'
<1> DEFINE q == [target |-> u, column |-> "row", value |-> Deleted, seen |-> users[u]]
<1>1. /\ u_req[r] = None /\ People!Exists(users, u) /\ People!Ask(r, q)
      /\ users[u].role = "admin" => People!Cardinality(People!ActiveAdmins(users)) > 1
  BY DEF People!AskDeletion, People!Idle
<1>2. q \in RowRequest
  BY <1>1 DEF AccountsInv, People!Exists, RowRequest
<1>3. Spares(q)
  <2>1. CASE users[u].role = "admin"
    <3>1. Cardinality(People!ActiveAdmins(users)) > 1
      BY <1>1, <2>1 DEF People!Cardinality, Cardinality
    <3> QED
      BY <3>1, NotTheLast DEF Spares
  <2>2. CASE users[u].role # "admin"
    BY <2>2 DEF Spares, People!ActiveAdmins
  <2> QED
    BY <2>1, <2>2
<1> QED
  BY <1>1, <1>2, <1>3, RequestAsked DEF AccountRequest

\* A registration asked for is of a row that is not there, and demotes nobody.
LEMMA RegistrationAsked ==
  ASSUME AccountsInv, NEW r \in Pair, NEW a \in Members, NEW u \in Members,
         NEW new \in People!Rows, People!AskRegistration(r, a, u, new)
  PROVE  AccountsInv'
<1> DEFINE q == [target |-> u, column |-> "row", value |-> new, seen |-> None]
<1>1. u_req[r] = None /\ People!Ask(r, q)
  BY DEF People!AskRegistration, People!Idle
<1>2. q \in RowRequest /\ new # Deleted
  BY AccountKinds DEF RowRequest
<1>3. Spares(q)
  BY <1>2 DEF Spares
<1> QED
  BY <1>1, <1>2, <1>3, RequestAsked DEF AccountRequest

\* A password asked for changes no role and no status.
LEMMA PasswordAsked ==
  ASSUME AccountsInv, NEW r \in Pair, NEW u \in Members, NEW old \in Passwords,
         NEW new \in Passwords, People!AskPassword(r, u, old, new)
  PROVE  AccountsInv'
<1> DEFINE q == [target |-> u, column |-> "password", value |-> new, seen |-> users[u]]
<1>1. u_req[r] = None /\ People!Exists(users, u) /\ People!Ask(r, q)
  BY DEF People!AskPassword, People!Idle
<1>2. q \in ColumnRequest
  BY <1>1 DEF AccountsInv, People!Exists, ColumnRequest, AccountColumns, Said
<1>3. Spares(q)
  BY DEF Spares
<1> QED
  BY <1>1, <1>2, <1>3, RequestAsked DEF AccountRequest

\* Every step of the accounts keeps the invariant.
LEMMA AccountsStep ==
  ASSUME AccountsInv, People!Next
  PROVE  AccountsInv'
<1>1. ASSUME NEW r \in Pair, People!Fail(r) PROVE AccountsInv'
  BY <1>1, RequestDropped DEF People!Fail, People!Answered
<1>2. ASSUME NEW r \in Pair, NEW a \in Members, NEW u \in Members,
             \/ \E c \in People!Columns : \E v \in People!Values[c] : People!AskColumn(r, a, u, c, v)
             \/ People!AskDeletion(r, a, u)
             \/ \E new \in People!Rows : People!AskRegistration(r, a, u, new)
      PROVE  AccountsInv'
  BY <1>2, ColumnAsked, DeletionAsked, RegistrationAsked
<1>3. ASSUME NEW r \in Pair, NEW u \in Members, NEW old \in Passwords, NEW new \in Passwords,
             People!AskPassword(r, u, old, new)
      PROVE  AccountsInv'
  BY <1>3, PasswordAsked
<1> QED
  BY <1>1, <1>2, <1>3, ColumnCommitted, RowCommitted DEF People!Next

\* A step of another service changes no account.
LEMMA AccountsRest ==
  ASSUME AccountsInv, UNCHANGED accounts
  PROVE  AccountsInv'
<1>1. /\ users' = users /\ u_req' = u_req /\ told' = told /\ met' = met
      /\ u_crossed' = u_crossed /\ demoted' = demoted
  BY DEF accounts
<1>2. Administered'
  BY <1>1 DEF AccountsInv, Administered, Spares, People!ActiveAdmins, People!Exists
<1>3. People!AnswerHolds'
  BY <1>1 DEF AccountsInv, People!AnswerHolds, People!Exists
<1>4. \A r \in Pair : u_req'[r] # None =>
        /\ StillSeen(u_req[r])'
        /\ \A o \in Pair \ {r} : u_req'[o] # None => Marked(u_req[r], u_req[o])'
  BY <1>1 DEF AccountsInv, StillSeen, Marked, People!Exists
<1> QED
  BY <1>1, <1>2, <1>3, <1>4 DEF AccountsInv

\* Nobody is locked out of the administration, and what an answer said was set is set:
\* an active administrator remains unless requests overlapped or a role was taken away,
\* whoever deletes, disables and registers; two who were about one column have marked it.
THEOREM AccountsStaySound == ServicesSpec => []AccountsSound
<1> DEFINE I == focus = "accounts" => AccountsInv
<1>1. ServicesInit => I
  BY AccountsBegin DEF ServicesInit
<1>2. I /\ ServicesStep => I'
  <2> SUFFICES ASSUME I, ServicesStep, focus' = "accounts" PROVE AccountsInv'
    OBVIOUS
  <2>1. AccountsInv
    BY DEF ServicesStep, ServicesNext, ServicesVars
  <2>2. People!Next \/ UNCHANGED accounts
    BY DEF ServicesStep, ServicesNext, ServicesVars, accounts
  <2> QED
    BY <2>1, <2>2, AccountsStep, AccountsRest
<1>3. I => AccountsSound
  <2> SUFFICES ASSUME AccountsInv PROVE People!AccountsSound
    BY DEF AccountsSound
  <2>1. People!TypeOK
    BY AccountKinds DEF AccountsInv, People!TypeOK, AccountRequest, ColumnRequest, RowRequest
  <2>2. People!AdminRemains
    BY DEF AccountsInv, Administered, People!AdminRemains
  <2> QED
    BY <2>1, <2>2 DEF AccountsInv, People!AccountsSound
<1> QED
  BY <1>1, <1>2, <1>3, PTL DEF ServicesSpec, ServicesStep, ServicesVars

-----------------------------------------------------------------------------
(* The answers and their citations.                                         *)

Weighed(c) ==
  c = [ids |-> c.ids, level |-> c.level, reranked |-> c.reranked] /\ c.level \in Answers!Levels

\* The grade of first evidence, and of the corrected one.
Evident ==
  IF labels = None THEN contexts.level = "high"
  ELSE \E i, j \in DOMAIN labels : i # j /\ labels[i] = "relevant" /\ labels[j] = "relevant"
GradeOK ==
  phase \in {"correct", "widen"} =>
    /\ action \in {"normal", "rewritten"} /\ (phase = "correct" => action = "normal")
    /\ action = "normal" /\ grade = "correct" => Evident
    /\ action = "rewritten" => labels = None
    /\ action = "rewritten" /\ grade = "incorrect" => contexts.level = "low"

MarkedText(t) == Len(t) \in Nat /\ \A i \in 1 .. Len(t) : \A m \in t[i] : IsFiniteSet(m)

\* Where a number was dropped or kept, what the map cites and, unless the reply listed what
\* it cites, every mark of one number that is left are contexts of the answer.
Within(c, n) == n \in 1 .. Len(c.ids) /\ c.ids[n] # None
AnswerOK ==
  answer.dropped # {} \/ answer.map # {} =>
    /\ \A entry \in answer.map : Within(answer.contexts, entry[2])
    /\ ~answer.listed =>
         \A i \in 1 .. Len(answer.text) : \A mark \in answer.text[i] :
           Answers!Cardinality(mark) = 1 => \A n \in mark : Within(answer.contexts, n)

CitationsInv ==
  /\ Answers!TypeOK
  /\ Weighed(contexts) /\ Weighed(answer.contexts) /\ MarkedText(text)
  /\ phase = "grade" => contexts \in Finds
  /\ phase = "retrieve" => answer = Answers!Nothing /\ action = "normal"
  /\ phase = "grade" => action = "normal"
  /\ phase \in {"retrieve", "grade"} => grade = None
  /\ GradeOK /\ Answers!ConfidenceIsEarned /\ AnswerOK /\ Answers!MapWasKept
  /\ phase = "done" /\ (confidence # "refused" \/ answer.dropped # {} \/ answer.map # {}) =>
       answer.contexts = contexts

\* Evidence that is found is evidence.
LEMMA FoundIsEvidence ==
  ASSUME NEW f \in Finds
  PROVE  Weighed(f) /\ f.ids # <<>> /\ Len(f.ids) \in Nat
BY ServicesAssumption DEF Answers!AnsweringAssumption, Weighed

\* A question begins without evidence and without an answer.
LEMMA CitationsBegin == Answers!Init => CitationsInv
<1> SUFFICES ASSUME Answers!Init PROVE CitationsInv
  OBVIOUS
<1> USE DEF Answers!Init
<1>1. Answers!TypeOK /\ Weighed(contexts) /\ Weighed(answer.contexts)
  BY DEF Answers!TypeOK, Answers!Levels, Answers!Empty, Answers!Nothing, Weighed
<1>2. Len(<<>>) = 0
  OBVIOUS
<1>3. MarkedText(text)
  BY <1>2 DEF MarkedText
<1>4. answer.map = {} /\ answer.dropped = {}
  BY DEF Answers!Nothing
<1> QED
  BY <1>1, <1>3, <1>4
  DEF CitationsInv, GradeOK, Answers!ConfidenceIsEarned, AnswerOK, Answers!MapWasKept

\* Evidence is retrieved, or the question refused.
LEMMA Retrieved ==
  ASSUME CitationsInv, Answers!Retrieve
  PROVE  CitationsInv'
<1>1. PICK found \in Finds \cup {Answers!Empty} :
        /\ contexts' = found
        /\ phase' = IF found.ids = <<>> THEN "done" ELSE "grade"
        /\ confidence' = IF found.ids = <<>> THEN "refused" ELSE confidence
  BY DEF Answers!Retrieve
<1>2. /\ phase = "retrieve" /\ grade' = grade /\ action' = action /\ text' = text
      /\ listed' = listed /\ round' = round /\ answer' = answer /\ labels' = labels /\ stood' = stood
  BY DEF Answers!Retrieve
<1>3. Weighed(contexts')
  BY <1>1, FoundIsEvidence DEF Weighed, Answers!Empty, Answers!Levels
<1>4. phase' = "grade" => contexts' \in Finds
  BY <1>1 DEF Answers!Empty
<1>5. answer.map = {} /\ answer.dropped = {} /\ answer' = Answers!Nothing /\ action' = "normal"
  BY <1>2 DEF CitationsInv, Answers!Nothing
<1>6. Answers!TypeOK'
  BY <1>1, <1>2, <1>3 DEF CitationsInv, Answers!TypeOK, Weighed
<1>7. phase' \in {"done", "grade"}
  BY <1>1
<1>8. phase' = "done" => confidence' = "refused"
  BY <1>1
<1>9. /\ Weighed(contexts)' /\ Weighed(answer.contexts)' /\ MarkedText(text)'
      /\ Answers!MapWasKept' /\ AnswerOK'
  BY <1>2, <1>3 DEF CitationsInv, Weighed, MarkedText, Answers!MapWasKept, AnswerOK
<1> QED
  BY <1>2, <1>4, <1>5, <1>6, <1>7, <1>8, <1>9
  DEF CitationsInv, GradeOK, Answers!ConfidenceIsEarned

\* The grade of the labels has two relevant contexts, that of the score a high one.
LEMMA Graded ==
  ASSUME CitationsInv, Answers!Grade
  PROVE  CitationsInv'
<1>1. /\ phase = "grade" /\ phase' = "correct" /\ contexts' = contexts /\ action' = action
      /\ confidence' = confidence /\ text' = text /\ listed' = listed /\ round' = round
      /\ answer' = answer /\ stood' = stood
  BY DEF Answers!Grade
<1>2. contexts \in Finds /\ action = "normal"
  BY <1>1 DEF CitationsInv
<1>3. /\ grade' \in {"correct", "ambiguous", "incorrect"}
      /\ grade' = "correct" => Evident'
  <2>1. CASE labels' = None /\ grade' = Answers!ByScore(contexts)
    <3>1. contexts.level \in {"low", "middle", "high"}
      BY DEF CitationsInv, Weighed, Answers!Levels
    <3> QED
      BY <1>1, <2>1, <3>1 DEF Answers!ByScore, Evident
  <2>2. ASSUME NEW given \in [1 .. Len(contexts.ids) -> {"relevant", "partial", "irrelevant"}],
               labels' = given, grade' = Answers!ByLabels(given)
        PROVE  /\ grade' \in {"correct", "ambiguous", "incorrect"}
               /\ grade' = "correct" => Evident'
    <3> DEFINE R == {i \in DOMAIN given : given[i] = "relevant"}
    <3>1. given # None
      BY <1>2, <2>2, ServicesAssumption DEF Answers!AnsweringAssumption, Answers!Len, Len
    <3>2. Len(contexts.ids) \in Nat
      BY <1>2, FoundIsEvidence
    <3>3. IsFiniteSet(R)
      <4>1. IsFiniteSet(1 .. Len(contexts.ids))
        BY <3>2, FS_Interval
      <4>2. R \subseteq 1 .. Len(contexts.ids)
        OBVIOUS
      <4> QED
        BY <4>1, <4>2, FS_Subset
    <3>4. grade' = "correct" => Cardinality(R) >= 2
      BY <2>2 DEF Answers!ByLabels, Answers!Cardinality, Cardinality
    <3>5. ASSUME Cardinality(R) >= 2 PROVE \E i, j \in R : i # j
      <4> SUFFICES ASSUME \A i, j \in R : i = j PROVE FALSE
        OBVIOUS
      <4>1. R = {} \/ \E i \in R : R = {i}
        OBVIOUS
      <4>2. Cardinality({}) = 0 /\ \A i \in R : Cardinality({i}) = 1
        BY FS_EmptySet, FS_Singleton
      <4>3. Cardinality(R) = 0 \/ Cardinality(R) = 1
        BY <4>1, <4>2
      <4> QED
        BY <3>5, <4>3
    <3>6. grade' \in {"correct", "ambiguous", "incorrect"}
      BY <2>2 DEF Answers!ByLabels
    <3> QED
      BY <2>2, <3>1, <3>4, <3>5, <3>6 DEF Evident
  <2> QED
    BY <2>1, <2>2 DEF Answers!Grade
<1>4. Answers!TypeOK'
  BY <1>1, <1>3 DEF CitationsInv, Answers!TypeOK
<1>5. /\ Weighed(contexts)' /\ Weighed(answer.contexts)' /\ MarkedText(text)'
      /\ Answers!MapWasKept' /\ AnswerOK'
  BY <1>1 DEF CitationsInv, Weighed, MarkedText, Answers!MapWasKept, AnswerOK
<1>6. GradeOK'
  BY <1>1, <1>2, <1>3 DEF GradeOK
<1> QED
  BY <1>1, <1>4, <1>5, <1>6 DEF CitationsInv, Answers!ConfidenceIsEarned

\* A correction is graded by its score alone.
LEMMA Corrected ==
  ASSUME CitationsInv, Answers!Correct
  PROVE  CitationsInv'
<1>1. /\ phase = "correct" /\ phase' = "widen" /\ confidence' = confidence /\ text' = text
      /\ listed' = listed /\ round' = round /\ answer' = answer /\ stood' = stood
  BY DEF Answers!Correct
<1>2. CASE UNCHANGED <<contexts, grade, action, labels>>
  BY <1>1, <1>2
  DEF CitationsInv, Answers!TypeOK, Weighed, MarkedText, Answers!MapWasKept, AnswerOK,
      GradeOK, Evident, Answers!ConfidenceIsEarned
<1>3. ASSUME NEW found \in Finds, contexts' = found, grade' = Answers!ByScore(found),
             action' = "rewritten", labels' = None
      PROVE  CitationsInv'
  <2>1. Weighed(found) /\ found.ids # <<>>
    BY FoundIsEvidence
  <2>2. /\ grade' \in {"correct", "ambiguous", "incorrect"}
        /\ grade' = "incorrect" => found.level = "low"
    BY <1>3, <2>1 DEF Answers!ByScore, Weighed, Answers!Levels
  <2>3. Answers!TypeOK'
    BY <1>1, <1>3, <2>1, <2>2 DEF CitationsInv, Answers!TypeOK, Weighed
  <2>4. /\ Weighed(contexts)' /\ Weighed(answer.contexts)' /\ MarkedText(text)'
        /\ Answers!MapWasKept' /\ AnswerOK'
    BY <1>1, <1>3, <2>1 DEF CitationsInv, Weighed, MarkedText, Answers!MapWasKept, AnswerOK
  <2>5. GradeOK'
    BY <1>1, <1>3, <2>2 DEF GradeOK
  <2> QED
    BY <1>1, <2>3, <2>4, <2>5 DEF CitationsInv, Answers!ConfidenceIsEarned
<1> QED
  BY <1>2, <1>3 DEF Answers!Correct

\* Neighbours come without a score; the confidence is that of the grade and the way to it.
LEMMA Widened ==
  ASSUME CitationsInv, Answers!Widen
  PROVE  CitationsInv'
<1>1. /\ phase = "widen" /\ phase' = "generate" /\ grade' = grade /\ text' = text
      /\ listed' = listed /\ round' = round /\ answer' = answer /\ labels' = labels /\ stood' = stood
      /\ confidence' = Answers!Confidence(grade, action)
      /\ action' = IF grade = "incorrect" /\ action = "rewritten" THEN "refused" ELSE action
  BY DEF Answers!Widen
<1>2. Weighed(contexts') /\ contexts'.level = contexts.level
  BY DEF CitationsInv, Weighed, Answers!Widen
<1>3. Answers!TypeOK'
  BY <1>1, <1>2 DEF CitationsInv, Answers!TypeOK, Answers!Confidence, Weighed
<1>4. Answers!ConfidenceIsEarned'
  BY <1>1, <1>2 DEF CitationsInv, GradeOK, Evident, Answers!Confidence, Answers!ConfidenceIsEarned
<1>5. /\ Weighed(contexts)' /\ Weighed(answer.contexts)' /\ MarkedText(text)'
      /\ Answers!MapWasKept' /\ AnswerOK'
  BY <1>1, <1>2 DEF CitationsInv, Weighed, MarkedText, Answers!MapWasKept, AnswerOK
<1> QED
  BY <1>1, <1>3, <1>4, <1>5 DEF CitationsInv, GradeOK

\* A text is generated, its marks those of the model or one for a bare sentence.
LEMMA Generated ==
  ASSUME CitationsInv, Answers!Generate
  PROVE  CitationsInv'
<1>1. /\ phase = "generate" /\ phase' = "verify" /\ contexts' = contexts /\ grade' = grade
      /\ action' = action /\ confidence' = confidence /\ round' = round /\ answer' = answer
      /\ labels' = labels /\ stood' = stood
  BY DEF Answers!Generate
<1>2. PICK t \in Replies : text' \in Answers!Marked(t)
  BY DEF Answers!Generate
<1>3. /\ Len(t) \in Nat
      /\ \A i \in 1 .. Len(t) : \A m \in t[i] : IsFiniteSet(m)
  <2>1. t \in Seq(Answers!Range(t)) /\ \A i \in DOMAIN t : \A m \in t[i] : IsFiniteSet(m)
    BY ServicesAssumption DEF Answers!AnsweringAssumption, Answers!IsFiniteSet, IsFiniteSet
  <2>2. DOMAIN t = 1 .. Len(t) /\ Len(t) \in Nat
    BY <2>1
  <2> QED
    BY <2>1, <2>2
<1>4. /\ text' = [i \in 1 .. Len(t) |-> text'[i]]
      /\ \A i \in 1 .. Len(t) : text'[i] = t[i] \/ \E k \in 1 .. Len(contexts.ids) : text'[i] = {{k}}
  BY <1>2 DEF Answers!Marked
<1>5. Len(text') = Len(t)
  BY <1>3, <1>4
<1>6. MarkedText(text')
  <2> SUFFICES ASSUME NEW i \in 1 .. Len(t), NEW m \in text'[i] PROVE IsFiniteSet(m)
    BY <1>3, <1>5 DEF MarkedText
  <2>1. CASE text'[i] = t[i]
    BY <1>3, <2>1
  <2>2. ASSUME NEW k \in 1 .. Len(contexts.ids), text'[i] = {{k}} PROVE IsFiniteSet(m)
    BY <2>2, FS_Singleton
  <2> QED
    BY <1>4, <2>1, <2>2
<1>7. Answers!TypeOK'
  BY <1>1 DEF CitationsInv, Answers!TypeOK
<1>8. /\ Weighed(contexts)' /\ Weighed(answer.contexts)' /\ MarkedText(text)'
      /\ Answers!MapWasKept' /\ AnswerOK'
  BY <1>1, <1>6 DEF CitationsInv, Weighed, MarkedText, Answers!MapWasKept, AnswerOK
<1> QED
  BY <1>1, <1>7, <1>8 DEF CitationsInv, GradeOK, Answers!ConfidenceIsEarned

\* Where nothing is graded, the model fails, verification is off, or the second round begins
\* or is given up, the answer stays with the contexts that number it.
LEMMA Unverified ==
  ASSUME CitationsInv,
         \/ Answers!Ungraded \/ Answers!GenerateFails \/ Answers!Skip
         \/ Answers!Again \/ Answers!GiveUp
  PROVE  CitationsInv'
<1>1. CASE Answers!GenerateFails
  BY <1>1
  DEF CitationsInv, Answers!GenerateFails, Answers!TypeOK, Weighed, MarkedText,
      Answers!MapWasKept, AnswerOK, GradeOK, Answers!ConfidenceIsEarned
<1>2. CASE Answers!Skip
  <2>1. /\ phase' = "done" /\ answer' = [Answers!Nothing EXCEPT !.text = text, !.contexts = contexts]
        /\ contexts' = contexts /\ grade' = grade /\ action' = action /\ text' = text
        /\ listed' = listed /\ confidence' = confidence /\ round' = round /\ labels' = labels /\ stood' = stood
    BY <1>2 DEF Answers!Skip
  <2>2. answer'.contexts = contexts /\ answer'.map = {} /\ answer'.dropped = {}
    BY <2>1 DEF Answers!Nothing
  <2>3. Answers!TypeOK' /\ Weighed(contexts)' /\ MarkedText(text)'
    BY <2>1 DEF CitationsInv, Answers!TypeOK, Weighed, MarkedText
  <2>4. Weighed(answer.contexts)' /\ AnswerOK' /\ Answers!MapWasKept'
    BY <2>1, <2>2, <2>3 DEF Weighed, AnswerOK, Answers!MapWasKept
  <2> QED
    BY <2>1, <2>2, <2>3, <2>4 DEF CitationsInv, GradeOK, Answers!ConfidenceIsEarned
<1>3. CASE Answers!Again
  <2>1. /\ contexts' \in Finds /\ round' = 2 /\ phase' = "generate" /\ grade' = grade
        /\ action' = action /\ confidence' = confidence /\ text' = text /\ listed' = listed
        /\ answer' = answer /\ labels' = labels /\ stood' = stood
    BY <1>3 DEF Answers!Again
  <2>2. Weighed(contexts')
    BY <2>1, FoundIsEvidence
  <2>3. Answers!TypeOK'
    BY <2>1, <2>2 DEF CitationsInv, Answers!TypeOK, Weighed
  <2>4. /\ Weighed(contexts)' /\ Weighed(answer.contexts)' /\ MarkedText(text)'
        /\ Answers!MapWasKept' /\ AnswerOK'
    BY <2>1, <2>2 DEF CitationsInv, Weighed, MarkedText, Answers!MapWasKept, AnswerOK
  <2> QED
    BY <2>1, <2>3, <2>4 DEF CitationsInv, GradeOK, Answers!ConfidenceIsEarned
<1>4. CASE Answers!GiveUp
  <2>1. /\ contexts' = answer.contexts /\ phase' = "done" /\ grade' = grade /\ action' = action
        /\ confidence' = confidence /\ text' = text /\ listed' = listed /\ round' = round
        /\ answer' = answer /\ labels' = labels /\ stood' = stood
    BY <1>4 DEF Answers!GiveUp
  <2>2. Answers!TypeOK'
    BY <2>1 DEF CitationsInv, Answers!TypeOK, Weighed
  <2>3. /\ Weighed(contexts)' /\ Weighed(answer.contexts)' /\ MarkedText(text)'
        /\ Answers!MapWasKept' /\ AnswerOK'
    BY <2>1 DEF CitationsInv, Weighed, MarkedText, Answers!MapWasKept, AnswerOK
  <2> QED
    BY <2>1, <2>2, <2>3 DEF CitationsInv, GradeOK, Answers!ConfidenceIsEarned
<1>5. CASE Answers!Ungraded
  BY <1>5
  DEF CitationsInv, Answers!Ungraded, Answers!TypeOK, Weighed, MarkedText,
      Answers!MapWasKept, AnswerOK, GradeOK, Answers!ConfidenceIsEarned
<1> QED
  BY <1>1, <1>2, <1>3, <1>4, <1>5

\* Every number the map cites, and every one left in a text whose marks are its items, has an
\* item that was kept, so its context is there.
LEMMA Verified ==
  ASSUME CitationsInv, Answers!Verify
  PROVE  CitationsInv'
<1>1. PICK v \in Answers!Verdicts :
        LET dropped == {item[3] : item \in Answers!Items \ v.kept} IN
        /\ stood' = v.kept
        /\ answer' = [text |-> Answers!Stripped(text, dropped), dropped |-> dropped,
                      map |-> Answers!Mapped(dropped),
                      again |-> v.kept = {}, degraded |-> v.degraded,
                      listed |-> listed # None, contexts |-> contexts]
        /\ phase' = IF v.kept = {} /\ round = 1 THEN "again" ELSE "done"
  BY DEF Answers!Verify
<1>2. /\ phase = "verify" /\ contexts' = contexts /\ grade' = grade /\ action' = action
      /\ confidence' = confidence /\ text' = text /\ listed' = listed /\ round' = round
      /\ labels' = labels
  BY DEF Answers!Verify
<1>3. PICK dropped : dropped = {item[3] : item \in Answers!Items \ v.kept}
  OBVIOUS
<1>4. v.kept \subseteq Answers!Valid
  BY DEF Answers!Verdicts
<1>5. /\ stood' = v.kept /\ answer'.text = Answers!Stripped(text, dropped)
      /\ answer'.dropped = dropped /\ answer'.map = Answers!Mapped(dropped)
      /\ answer'.contexts = contexts /\ answer'.listed = (listed # None)
      /\ phase' \in {"again", "done"}
  BY <1>1, <1>3
<1>6. \A item \in Answers!Items : item[3] \notin dropped => item \in v.kept
  BY <1>3
<1>0. \A item \in Answers!Items : item[3] \notin dropped => Within(contexts, item[3])
  BY <1>4, <1>6 DEF Answers!Valid, Answers!Chunk, Within
<1>7. Answers!MapWasKept'
  <2> SUFFICES ASSUME NEW entry \in Answers!Mapped(dropped)
               PROVE  /\ \E item \in v.kept : <<item[1], item[3]>> = entry
                      /\ entry[2] \notin dropped
    BY <1>5 DEF Answers!MapWasKept
  <2>1. PICK item \in Answers!Items : item[3] \notin dropped /\ entry = <<item[1], item[3]>>
    BY DEF Answers!Mapped
  <2> QED
    BY <1>6, <2>1
<1>8. Len(answer'.text) = Len(text) /\ \A i \in 1 .. Len(text) :
        answer'.text[i] = text[i] \ {{n} : n \in dropped}
  BY <1>5 DEF CitationsInv, MarkedText, Answers!Stripped
<1>12. \A entry \in Answers!Mapped(dropped) : Within(contexts, entry[2])
  <2> SUFFICES ASSUME NEW entry \in Answers!Mapped(dropped) PROVE Within(contexts, entry[2])
    OBVIOUS
  <2>1. PICK item \in Answers!Items : item[3] \notin dropped /\ entry = <<item[1], item[3]>>
    BY DEF Answers!Mapped
  <2> QED
    BY <1>0, <2>1
<1>9. AnswerOK'
  <2> SUFFICES ASSUME listed = None, NEW i \in 1 .. Len(text), NEW mark \in answer'.text[i],
                      Answers!Cardinality(mark) = 1, NEW n \in mark
               PROVE  Within(contexts, n)
    BY <1>5, <1>8, <1>12 DEF AnswerOK, Answers!Cardinality, Within
  <2>1. mark \in text[i] /\ mark \notin {{m} : m \in dropped}
    BY <1>8
  <2>2. IsFiniteSet(mark)
    BY <2>1 DEF CitationsInv, MarkedText
  <2>3. mark = {n}
    <3>1. Cardinality(mark) = 1
      BY DEF Answers!Cardinality, Cardinality
    <3>2. PICK x : mark = {x}
      BY <2>2, <3>1, FS_Singleton
    <3> QED
      BY <3>2
  <2>4. n \notin dropped
    BY <2>1, <2>3
  <2> DEFINE item == <<i, mark, n>>
  <2>5. item \in Answers!Items
    <3>1. Len(text) \in Nat
      BY DEF CitationsInv, MarkedText
    <3>2. text[i] \in Answers!Range(text)
      BY DEF Answers!Range
    <3>3. mark \in UNION Answers!Range(text)
      BY <2>1, <3>2
    <3>4. n \in UNION UNION Answers!Range(text)
      BY <3>3
    <3> QED
      BY <2>1, <3>3, <3>4 DEF Answers!Items, Answers!Cited
  <2> QED
    BY <1>0, <2>4, <2>5
<1>10. Answers!TypeOK'
  BY <1>2 DEF CitationsInv, Answers!TypeOK
<1>11. Weighed(contexts)' /\ Weighed(answer.contexts)' /\ MarkedText(text)'
  BY <1>2, <1>5 DEF CitationsInv, Weighed, MarkedText
<1> QED
  BY <1>2, <1>5, <1>7, <1>9, <1>10, <1>11
  DEF CitationsInv, GradeOK, Answers!ConfidenceIsEarned

\* A step of another service changes no answer.
LEMMA CitationsRest ==
  ASSUME CitationsInv, UNCHANGED answering
  PROVE  CitationsInv'
BY DEF CitationsInv, answering, Answers!TypeOK, Weighed, MarkedText, GradeOK, Evident,
       Answers!ConfidenceIsEarned, AnswerOK, Answers!MapWasKept

\* An answer comes with the contexts its marks number, whichever step of the second round
\* failed; what it cites was kept by the verification of that very answer and is a context
\* with an id; where evidence is graded, a high confidence has some no correction replaced.
THEOREM CitationsStaySound == ServicesSpec => []CitationsSound
<1> DEFINE I == focus = "answering" => CitationsInv
<1>1. ServicesInit => I
  BY CitationsBegin DEF ServicesInit
<1>2. I /\ ServicesStep => I'
  <2> SUFFICES ASSUME I, ServicesStep, focus' = "answering" PROVE CitationsInv'
    OBVIOUS
  <2>1. CitationsInv
    BY DEF ServicesStep, ServicesNext, ServicesVars
  <2>2. Answers!Next \/ UNCHANGED answering
    BY DEF ServicesStep, ServicesNext, ServicesVars, answering
  <2> QED
    BY <2>1, <2>2, Retrieved, Graded, Corrected, Widened, Generated, Unverified, Verified,
       CitationsRest DEF Answers!Next
<1>3. I => CitationsSound
  <2> SUFFICES ASSUME CitationsInv PROVE Answers!CitationsSound
    BY DEF CitationsSound
  <2>1. Answers!NumbersFitContexts
    BY DEF CitationsInv, Answers!NumbersFitContexts
  <2>2. Answers!MarksHaveChunks
    BY DEF CitationsInv, AnswerOK, Within, Answers!MarksHaveChunks, Answers!Numbered,
           Answers!Cardinality
  <2> QED
    BY <2>1, <2>2 DEF CitationsInv, Answers!CitationsSound
<1> QED
  BY <1>1, <1>2, <1>3, PTL DEF ServicesSpec, ServicesStep, ServicesVars

-----------------------------------------------------------------------------
(* The memory of a user.                                                    *)

Planned == [step : {"embed"}, new : Memory!News]
Scattered == [step : {"commit"}, new : Memory!News, ids : SUBSET Pair]
Committing(j) == m_job[j] # None /\ m_job[j].step = "commit"
Bound == Memory!Max2(Capacity, longest)

MemoryKinds ==
  /\ row \in [Pair -> Memory!Kinds \cup {None}]
  /\ m_job \in [Pair -> Planned \cup Scattered \cup {None}]
  /\ vectors \subseteq Pair /\ hot \subseteq Pair /\ prefs \subseteq MemoryFacts
  /\ longest \in Nat

\* The ids a consolidation will commit are its own, and no rows yet; one for each fact.
IdsApart ==
  \A j \in Pair : Committing(j) =>
    /\ m_job[j].ids \cap Memory!Rows = {}
    /\ Cardinality(m_job[j].ids) = Cardinality(DOMAIN m_job[j].new)
    /\ \A k \in Pair : k # j /\ Committing(k) => m_job[j].ids \cap m_job[k].ids = {}

\* While no store failed, vectors are those of the rows, purged ones gone, and of the
\* ids that will be committed, all of them.
InStep ==
  m_failed \/
    /\ \A i \in vectors : i \in Memory!Rows \/ \E j \in Pair : Committing(j) /\ i \in m_job[j].ids
    /\ Memory!Active \subseteq vectors
    /\ \A j \in Pair : Committing(j) => m_job[j].ids \subseteq vectors

\* What is new is not active, and says nothing twice that no reply has doubled.
Fresh(new) ==
  /\ \A i \in Memory!Active : row[i].text \notin Memory!Elements(new)
  /\ \A m, n \in DOMAIN new : new[m] = new[n] /\ new[m] \notin doubled => m = n

\* Consolidations that do not overlap: there is one at most, it has room for its facts,
\* and they are fresh.
InTurn ==
  m_crossed \/
    /\ \A i, k \in Memory!Active : row[i].text = row[k].text /\ row[i].text \notin doubled => i = k
    /\ Cardinality(Memory!Active) <= Bound
    /\ \A j \in Pair : m_job[j] # None =>
         /\ \A k \in Pair : m_job[k] # None => k = j
         /\ Fresh(m_job[j].new)
         /\ Cardinality(Memory!Active) + Cardinality(DOMAIN m_job[j].new) <= Bound

MemoryInv == MemoryKinds /\ IdsApart /\ InStep /\ InTurn

\* The sets of a memory are finite, and their cardinalities numbers.
LEMMA MemoryFinite ==
  /\ Capacity \in Nat /\ MaxBatch \in Nat
  /\ \A S \in SUBSET Pair : IsFiniteSet(S) /\ Cardinality(S) \in Nat
  /\ \A S \in SUBSET (1 .. MaxBatch) : IsFiniteSet(S) /\ Cardinality(S) \in Nat
  /\ None \notin Memory!Kinds /\ None \notin Planned /\ None \notin Scattered
<1>1. Capacity \in Nat /\ MaxBatch \in Nat
  BY ServicesAssumption DEF Memory!MemoryAssumption
<1>2. IsFiniteSet(1 .. MaxBatch) /\ IsFiniteSet(Pair)
  <2>1. IsFiniteSet(1 .. MaxBatch)
    BY <1>1, FS_Interval
  <2>2. IsFiniteSet(Pair)
    BY ServicesAssumption DEF Memory!MemoryAssumption, Memory!IsFiniteSet, IsFiniteSet
  <2> QED
    BY <2>1, <2>2
<1>3. None \notin Memory!Kinds /\ None \notin Planned /\ None \notin Scattered
  BY ServicesAssumption DEF Memory!MemoryAssumption, Planned, Scattered
<1> QED
  BY <1>1, <1>2, <1>3, FS_Subset, FS_CardinalityType

\* What is new are places of a reply and the facts they name.
LEMMA NewsKinds ==
  ASSUME NEW new \in Memory!News
  PROVE  /\ DOMAIN new \in SUBSET (1 .. MaxBatch)
         /\ \A n \in DOMAIN new : new[n] \in MemoryFacts
BY DEF Memory!News

\* A job has something new.
LEMMA JobHasNews ==
  ASSUME MemoryInv, NEW j \in Pair, m_job[j] # None
  PROVE  m_job[j].new \in Memory!News /\ Cardinality(DOMAIN m_job[j].new) \in Nat
<1>1. m_job[j].new \in Memory!News
  BY DEF MemoryInv, MemoryKinds, Planned, Scattered
<1> QED
  BY <1>1, NewsKinds, MemoryFinite

\* The cardinality an instance counts with is the library's.
LEMMA MemoryCardinality == \A S : Memory!Cardinality(S) = Cardinality(S)
BY DEF Memory!Cardinality, Cardinality

\* The bound is a number, and grows with the longest reply.
LEMMA BoundGrows ==
  ASSUME MemoryInv
  PROVE  /\ Bound \in Nat /\ Capacity <= Bound
         /\ longest' \in Nat /\ longest <= longest' => Bound' \in Nat /\ Bound <= Bound'
BY MemoryFinite DEF MemoryInv, MemoryKinds, Bound, Memory!Max2

\* At the start the memory is empty.
LEMMA MemoryBegins == Memory!Init => MemoryInv
<1> SUFFICES ASSUME Memory!Init PROVE MemoryInv
  OBVIOUS
<1> USE DEF Memory!Init
<1>1. Memory!Rows = {} /\ Memory!Active = {}
  BY DEF Memory!Rows, Memory!Active
<1>2. \A j \in Pair : ~Committing(j) /\ m_job[j] = None
  BY DEF Committing
<1>3. MemoryKinds
  BY DEF MemoryKinds
<1>4. Cardinality({}) = 0 /\ 0 <= Bound
  BY FS_EmptySet, MemoryFinite DEF Bound, Memory!Max2
<1> QED
  BY <1>1, <1>2, <1>3, <1>4 DEF MemoryInv, IdsApart, InStep, InTurn

\* A step that only ages, marks and drops rows: the consolidations stay as they are.
LEMMA RowsGrowOld ==
  ASSUME MemoryInv, m_job' = m_job, m_crossed' = m_crossed, prefs' = prefs,
         doubled' = doubled, longest' = longest,
         row' \in [Pair -> Memory!Kinds \cup {None}], hot' \subseteq Pair, vectors' \subseteq Pair,
         \A i \in Pair : row'[i] # None =>
           /\ row[i] # None /\ row'[i].text = row[i].text
           /\ row'[i].deleted = "no" => row[i].deleted = "no",
         \/ m_failed'
         \/ /\ ~m_failed
            /\ \A i \in vectors' : i \in vectors /\ (row[i] # None => row'[i] # None)
            /\ \A i \in vectors : i \in vectors' \/ (row[i] # None /\ row[i].deleted # "no")
  PROVE  MemoryInv'
<1>1. Memory!Rows' \subseteq Memory!Rows /\ Memory!Active' \subseteq Memory!Active
  BY DEF Memory!Rows, Memory!Active
<1>2. \A i \in Memory!Active' : row'[i].text = row[i].text
  BY DEF Memory!Rows, Memory!Active
<1>3. \A j \in Pair : Committing(j)' <=> Committing(j)
  BY DEF Committing
<1>4. MemoryKinds'
  BY DEF MemoryInv, MemoryKinds
<1>5. IdsApart'
  BY <1>1, <1>3 DEF MemoryInv, IdsApart
<1>6. InStep'
  <2> SUFFICES ASSUME ~m_failed' PROVE InStep'
    BY DEF InStep
  <2>1. /\ ~m_failed
        /\ \A i \in vectors' : i \in vectors /\ (row[i] # None => row'[i] # None)
        /\ \A i \in vectors : i \in vectors' \/ (row[i] # None /\ row[i].deleted # "no")
    OBVIOUS
  <2>2. \A i \in vectors' : i \in Memory!Rows' \/ \E j \in Pair : Committing(j) /\ i \in m_job[j].ids
    BY <2>1 DEF MemoryInv, MemoryKinds, InStep, Memory!Rows
  <2>3. Memory!Active' \subseteq vectors'
    BY <1>1, <2>1 DEF MemoryInv, InStep, Memory!Rows, Memory!Active
  <2>4. ASSUME NEW j \in Pair, Committing(j), NEW i \in m_job[j].ids PROVE i \in vectors'
    <3>1. i \in vectors /\ i \notin Memory!Rows
      BY <2>1, <2>4 DEF MemoryInv, InStep, IdsApart
    <3>2. i \in Pair
      BY <3>1 DEF MemoryInv, MemoryKinds
    <3> QED
      BY <2>1, <3>1, <3>2 DEF Memory!Rows
  <2> QED
    BY <1>3, <2>2, <2>3, <2>4 DEF InStep
<1>7. InTurn'
  <2> SUFFICES ASSUME ~m_crossed' PROVE InTurn'
    BY DEF InTurn
  <2>1. ~m_crossed
    OBVIOUS
  <2>2. Memory!Active \subseteq Pair
    BY DEF Memory!Active, Memory!Rows
  <2>3. Cardinality(Memory!Active') <= Cardinality(Memory!Active)
    BY <1>1, <2>2, MemoryFinite, FS_Subset
  <2>4. Cardinality(Memory!Active') \in Nat /\ Cardinality(Memory!Active) \in Nat
    BY <1>1, <2>2, MemoryFinite
  <2>5. Bound' = Bound /\ Bound \in Nat
    BY BoundGrows DEF Bound
  <2>6. /\ \A i, k \in Memory!Active' :
             row'[i].text = row'[k].text /\ row'[i].text \notin doubled' => i = k
        /\ Cardinality(Memory!Active') <= Bound'
    BY <1>1, <1>2, <2>1, <2>3, <2>4, <2>5 DEF MemoryInv, InTurn
  <2>7. ASSUME NEW j \in Pair, m_job[j] # None
        PROVE  /\ \A k \in Pair : m_job[k] # None => k = j
               /\ Fresh(m_job[j].new)'
               /\ Cardinality(Memory!Active') + Cardinality(DOMAIN m_job[j].new) <= Bound'
    <3>1. /\ \A k \in Pair : m_job[k] # None => k = j
          /\ Fresh(m_job[j].new)
          /\ Cardinality(Memory!Active) + Cardinality(DOMAIN m_job[j].new) <= Bound
      BY <2>1, <2>7 DEF MemoryInv, InTurn
    <3>2. Fresh(m_job[j].new)'
      BY <1>1, <1>2, <3>1 DEF Fresh, Memory!Elements
    <3>3. Cardinality(DOMAIN m_job[j].new) \in Nat
      BY <2>7, JobHasNews
    <3> QED
      BY <2>3, <2>4, <2>5, <3>1, <3>2, <3>3
  <2> QED
    BY <2>6, <2>7 DEF InTurn
<1> QED
  BY <1>4, <1>5, <1>6, <1>7 DEF MemoryInv

\* A recall refreshes rows and changes no other part of them.
LEMMA Recalled ==
  ASSUME MemoryInv, NEW hits \in SUBSET vectors, Memory!Recall(hits)
  PROVE  MemoryInv'
<1>1. /\ row' = [i \in Pair |-> IF i \in hits \cap Memory!Active
                                THEN [row[i] EXCEPT !.age = "fresh"] ELSE row[i]]
      /\ hot' = hot \cup hits /\ vectors' = vectors /\ prefs' = prefs /\ m_job' = m_job
      /\ m_crossed' = m_crossed /\ m_failed' = m_failed /\ doubled' = doubled /\ longest' = longest
  BY DEF Memory!Recall
<1>2. ASSUME NEW i \in Pair
      PROVE  /\ row'[i] \in Memory!Kinds \cup {None}
             /\ row[i] = None => row'[i] = None
             /\ row[i] # None => row'[i] # None /\ row'[i].text = row[i].text
                                 /\ row'[i].deleted = row[i].deleted
  <2>1. CASE i \in hits \cap Memory!Active
    <3>1. row[i] \in Memory!Kinds /\ row'[i] = [row[i] EXCEPT !.age = "fresh"]
      BY <1>1, <2>1 DEF MemoryInv, MemoryKinds, Memory!Rows, Memory!Active
    <3> QED
      BY <3>1, MemoryFinite DEF Memory!Kinds, Memory!Ages
  <2>2. CASE i \notin hits \cap Memory!Active
    BY <1>1, <2>2 DEF MemoryInv, MemoryKinds
  <2> QED
    BY <2>1, <2>2
<1>3. row' \in [Pair -> Memory!Kinds \cup {None}]
  BY <1>1, <1>2
<1>4. hot' \subseteq Pair /\ vectors' \subseteq Pair
  BY <1>1 DEF MemoryInv, MemoryKinds
<1>5. m_failed' \/ ~m_failed
  BY <1>1
<1> QED
  BY <1>1, <1>2, <1>3, <1>4, <1>5, RowsGrowOld

\* A deleted row keeps what it says.
LEMMA DeletedKeepsText ==
  ASSUME NEW i \in Pair, row[i] \in Memory!Kinds, NEW how \in {"evicted", "forgotten"}
  PROVE  /\ Memory!Removed(i, how) \in Memory!Kinds
         /\ Memory!Removed(i, how).text = row[i].text
         /\ Memory!Removed(i, how).deleted = how
<1>1. PICK old : old = row[i]
  OBVIOUS
<1>2. old \in Memory!Kinds /\ 0 \in 0 .. 2
  BY <1>1
<1>3. LET marked == [old EXCEPT !.deleted = how, !.weight = 0, !.age = "ancient"]
      IN  marked \in Memory!Kinds /\ marked.text = old.text /\ marked.deleted = how
  BY <1>2 DEF Memory!Kinds, Memory!Ages
<1> QED
  BY <1>1, <1>3 DEF Memory!Removed

\* Forgetting marks one row; Redis may keep the id.
LEMMA Forgotten ==
  ASSUME MemoryInv, NEW i \in Pair, Memory!Forget(i)
  PROVE  MemoryInv'
<1>1. /\ i \in Memory!Rows /\ row' = [row EXCEPT ![i] = Memory!Removed(i, "forgotten")]
      /\ hot' \subseteq hot /\ (m_failed' \/ m_failed' = m_failed)
      /\ vectors' = vectors /\ prefs' = prefs /\ m_job' = m_job /\ m_crossed' = m_crossed
      /\ doubled' = doubled /\ longest' = longest
  BY DEF Memory!Forget
<1>2. row[i] \in Memory!Kinds
  BY <1>1 DEF MemoryInv, MemoryKinds, Memory!Rows
<1>3. \A k \in Pair : row'[k] = IF k = i THEN Memory!Removed(i, "forgotten") ELSE row[k]
  BY <1>1 DEF MemoryInv, MemoryKinds
<1>4. /\ row'[i] \in Memory!Kinds /\ row'[i].text = row[i].text /\ row'[i].deleted = "forgotten"
      /\ row[i] # None /\ row'[i] # None
  BY <1>2, <1>3, DeletedKeepsText, MemoryFinite
<1>5. row' \in [Pair -> Memory!Kinds \cup {None}]
  BY <1>1, <1>3, <1>4 DEF MemoryInv, MemoryKinds
<1>6. m_failed' \/ ~m_failed
  BY <1>1
<1>7. hot' \subseteq Pair /\ vectors' \subseteq Pair
  BY <1>1 DEF MemoryInv, MemoryKinds
<1> QED
  BY <1>1, <1>3, <1>4, <1>5, <1>6, <1>7, RowsGrowOld

\* Decay drops the rows deleted long ago, and their vectors unless Milvus fails.
LEMMA Decayed ==
  ASSUME MemoryInv, Memory!Decay
  PROVE  MemoryInv'
<1>1. PICK expired : expired = {i \in Memory!Rows : row[i].deleted = "long ago"}
  OBVIOUS
<1>2. /\ row' = [i \in Pair |-> IF i \in expired \/ row[i] = None THEN None
                                ELSE Memory!Lighter(row[i])]
      /\ vectors' \subseteq vectors
      /\ m_failed' \/ (m_failed' = m_failed /\ vectors' = vectors \ expired)
      /\ hot' = hot /\ prefs' = prefs /\ m_job' = m_job /\ m_crossed' = m_crossed
      /\ doubled' = doubled /\ longest' = longest
  BY <1>1 DEF Memory!Decay
<1>3. ASSUME NEW i \in Pair
      PROVE  /\ row'[i] \in Memory!Kinds \cup {None}
             /\ row'[i] # None => /\ row[i] # None /\ row'[i].text = row[i].text
                                  /\ row'[i].deleted = row[i].deleted
             /\ row'[i] = None => row[i] = None \/ i \in expired
  <2>1. CASE i \in expired \/ row[i] = None
    BY <1>2, <2>1
  <2>2. CASE i \notin expired /\ row[i] # None
    <3>1. row[i] \in Memory!Kinds
      BY <2>2 DEF MemoryInv, MemoryKinds
    <3>2. Memory!Lighter(row[i]) = row[i] \/ \E w \in 0 .. 2 :
            Memory!Lighter(row[i]) = [row[i] EXCEPT !.weight = w]
      <4>1. row[i].weight \in 0 .. 2
        BY <3>1 DEF Memory!Kinds
      <4>2. Memory!Min2(row[i].weight, 1) \in 0 .. 2
        BY <4>1 DEF Memory!Min2
      <4>3. (CASE row[i].age = "ancient" -> 0 [] row[i].age = "old" -> Memory!Min2(row[i].weight, 1)
               [] OTHER -> row[i].weight) \in 0 .. 2
        BY <4>1, <4>2
      <4> QED
        BY <4>3 DEF Memory!Lighter
    <3>3. row'[i] = Memory!Lighter(row[i])
      BY <1>2, <2>2
    <3> QED
      BY <2>2, <3>1, <3>2, <3>3, MemoryFinite DEF Memory!Kinds
  <2> QED
    BY <2>1, <2>2
<1>4. row' \in [Pair -> Memory!Kinds \cup {None}]
  BY <1>2, <1>3
<1>5. hot' \subseteq Pair /\ vectors' \subseteq Pair
  BY <1>2 DEF MemoryInv, MemoryKinds
<1>6. ASSUME ~m_failed'
      PROVE  /\ ~m_failed
             /\ \A i \in vectors' : i \in vectors /\ (row[i] # None => row'[i] # None)
             /\ \A i \in vectors : i \in vectors' \/ (row[i] # None /\ row[i].deleted # "no")
  <2>1. vectors' = vectors \ expired /\ ~m_failed
    BY <1>2, <1>6
  <2> QED
    BY <1>1, <1>3, <1>5, <2>1 DEF Memory!Rows
<1> QED
  BY <1>2, <1>3, <1>4, <1>5, <1>6, RowsGrowOld

\* A fact not hit for long, a deletion that is old: the row keeps its text.
LEMMA TimePasses ==
  ASSUME MemoryInv, NEW i \in Pair, Memory!Age(i) \/ Memory!Expire(i)
  PROVE  MemoryInv'
<1>1. /\ vectors' = vectors /\ hot' = hot /\ prefs' = prefs /\ m_job' = m_job
      /\ m_crossed' = m_crossed /\ m_failed' = m_failed
      /\ doubled' = doubled /\ longest' = longest /\ i \in Memory!Rows
  BY DEF Memory!Age, Memory!Expire, Memory!Active
<1>2. row[i] \in Memory!Kinds /\ row[i] # None
  BY <1>1 DEF MemoryInv, MemoryKinds, Memory!Rows
<1>3. PICK new \in Memory!Kinds : /\ row' = [row EXCEPT ![i] = new] /\ new.text = row[i].text
                                  /\ new.deleted \in {row[i].deleted, "long ago"}
  <2>1. CASE Memory!Age(i)
    <3> DEFINE new == [row[i] EXCEPT !.age = IF row[i].age = "fresh" THEN "old" ELSE "ancient"]
    <3>1. row' = [row EXCEPT ![i] = new]
      BY <2>1 DEF Memory!Age
    <3>2. new \in Memory!Kinds /\ new.text = row[i].text /\ new.deleted = row[i].deleted
      BY <1>2 DEF Memory!Kinds, Memory!Ages
    <3> QED
      BY <3>1, <3>2
  <2>2. CASE Memory!Expire(i)
    <3> DEFINE new == [row[i] EXCEPT !.deleted = "long ago"]
    <3>1. row' = [row EXCEPT ![i] = new]
      BY <2>2 DEF Memory!Expire
    <3>2. new \in Memory!Kinds /\ new.text = row[i].text /\ new.deleted = "long ago"
      BY <1>2 DEF Memory!Kinds
    <3> QED
      BY <3>1, <3>2
  <2> QED
    BY <2>1, <2>2
<1>4. \A k \in Pair : row'[k] = IF k = i THEN new ELSE row[k]
  BY <1>3 DEF MemoryInv, MemoryKinds
<1>5. row' \in [Pair -> Memory!Kinds \cup {None}]
  BY <1>3 DEF MemoryInv, MemoryKinds
<1>6. hot' \subseteq Pair /\ vectors' \subseteq Pair /\ new # None
  BY <1>1, MemoryFinite DEF MemoryInv, MemoryKinds
<1>7. m_failed' \/ ~m_failed
  BY <1>1
<1> QED
  BY <1>1, <1>2, <1>3, <1>4, <1>5, <1>6, <1>7, RowsGrowOld

\* What begins to consolidate makes room first: what it evicts and what it takes leave
\* the memory within its capacity, or within the length of the reply if it was full.
LEMMA RoomIsMade ==
  ASSUME NEW active \in SUBSET Pair, Memory!Active = active,
         NEW bound \in Nat, Capacity <= bound, Cardinality(active) <= bound,
         NEW batch, NEW n \in Nat, DOMAIN batch = 1 .. n, Memory!Len(batch) = n,
         NEW out \in Memory!Evictions(n)
  PROVE  /\ out \subseteq active
         /\ IsFiniteSet(Memory!Taken(batch)) /\ Cardinality(Memory!Taken(batch)) \in Nat
         /\ Cardinality(active \ out) + Cardinality(Memory!Taken(batch))
              <= IF Cardinality(active) < Capacity THEN bound ELSE Memory!Max2(bound, n)
<1> DEFINE take == Memory!Taken(batch)
<1>1. /\ Capacity \in Nat /\ IsFiniteSet(active)
      /\ Cardinality(active) \in Nat
  BY MemoryFinite
<1>2. Memory!Room(n) \in Nat
  BY <1>1, MemoryCardinality DEF Memory!Room
<1>3. take = 1 .. Memory!Min2(n, Memory!Room(n)) /\ Memory!Min2(n, Memory!Room(n)) \in Nat
  BY <1>2 DEF Memory!Taken, Memory!Min2
<1>4. IsFiniteSet(take) /\ Cardinality(take) = Memory!Min2(n, Memory!Room(n))
  BY <1>3, FS_Interval
<1>5. CASE Cardinality(active) < Capacity
  <2>1. out = {} /\ Memory!Room(n) = Capacity - Cardinality(active)
    BY <1>5, MemoryCardinality DEF Memory!Evictions, Memory!Room
  <2>2. Cardinality(take) <= Capacity - Cardinality(active) /\ Cardinality(take) \in Nat
    BY <1>1, <1>3, <1>4, <2>1 DEF Memory!Min2
  <2>3. active \ out = active
    BY <2>1
  <2> QED
    BY <1>1, <1>4, <1>5, <2>1, <2>2, <2>3
<1>6. CASE ~(Cardinality(active) < Capacity)
  <2>1. /\ out \in SUBSET active
        /\ Cardinality(out) = Memory!Min2(n, Cardinality(active))
    BY <1>6, MemoryCardinality DEF Memory!Evictions
  <2>2. Memory!Room(n) = n
    BY <1>6, MemoryCardinality DEF Memory!Room
  <2>3. Cardinality(take) = n
    BY <1>4, <2>2 DEF Memory!Min2
  <2>4. Cardinality(active \ out) = Cardinality(active) - Cardinality(out)
    <3>1. Cardinality(active \ out) = Cardinality(active) - Cardinality(active \cap out)
      BY <1>1, FS_Difference
    <3>2. active \cap out = out
      BY <2>1
    <3> QED
      BY <3>1, <3>2
  <2>5. Cardinality(active \ out) + n <= Memory!Max2(bound, n)
    BY <1>1, <2>1, <2>4 DEF Memory!Min2, Memory!Max2
  <2> QED
    BY <1>4, <1>6, <2>1, <2>3, <2>5
<1> QED
  BY <1>5, <1>6

\* A consolidation begins: the weakest rows are evicted, the facts not known are taken.
LEMMA Begun ==
  ASSUME MemoryInv, NEW j \in Pair, NEW batch \in Memory!Batches, Memory!Plan(j, batch)
  PROVE  MemoryInv'
<1>0. PICK n \in 0 .. MaxBatch : batch \in [1 .. n -> MemoryFacts]
  BY DEF Memory!Batches
<1>n. n \in Nat /\ n <= MaxBatch /\ DOMAIN batch = 1 .. n /\ Memory!Len(batch) = n
  BY <1>0, MemoryFinite DEF Memory!Len, Len
<1>1. PICK out \in Memory!Evictions(n) :
        /\ row' = [i \in Pair |-> IF i \in out THEN Memory!Removed(i, "evicted") ELSE row[i]]
        /\ m_job' = [m_job EXCEPT ![j] =
                       IF DOMAIN Memory!New(batch, out) = {} THEN None
                       ELSE [step |-> "embed", new |-> Memory!New(batch, out)]]
        /\ doubled' = doubled \cup Memory!Twice(Memory!New(batch, out))
  BY <1>n DEF Memory!Plan
<1>2. /\ m_job[j] = None /\ m_crossed' = (m_crossed \/ \E k \in Pair : m_job[k] # None)
      /\ vectors' = vectors /\ hot' = hot /\ prefs' = prefs /\ m_failed' = m_failed
      /\ longest' = IF Memory!Cardinality(Memory!Active) < Capacity THEN longest
                    ELSE Memory!Max2(longest, n)
  BY <1>n DEF Memory!Plan
<1>4. PICK active \in SUBSET Pair : active = Memory!Active
  BY DEF Memory!Active, Memory!Rows
<1>3. /\ longest \in Nat /\ longest' \in Nat /\ longest <= longest'
      /\ ~(Cardinality(active) < Capacity) => longest' = Memory!Max2(longest, n)
  BY <1>n, <1>2, <1>4, MemoryCardinality DEF MemoryInv, MemoryKinds, Memory!Max2
<1>5. out \subseteq active
  BY <1>1, <1>4 DEF Memory!Evictions
<1>6. PICK new : new = Memory!New(batch, out)
  OBVIOUS
<1>7. /\ DOMAIN new \subseteq Memory!Taken(batch) /\ new \in Memory!News
      /\ \A i \in active \ out : row[i].text \notin Memory!Elements(new)
  <2>1. DOMAIN new = {m \in Memory!Taken(batch) : batch[m] \notin Memory!Known(out)}
    BY <1>6 DEF Memory!New
  <2>2. \A m \in DOMAIN new : new[m] = batch[m] /\ m \in 1 .. n /\ new[m] \notin Memory!Known(out)
    BY <1>6, <1>n, <2>1 DEF Memory!New, Memory!Taken
  <2>3. \A m \in DOMAIN new : new[m] \in MemoryFacts /\ m \in 1 .. MaxBatch
    BY <1>0, <1>n, <2>2, MemoryFinite
  <2>4. new = [m \in DOMAIN new |-> new[m]]
    BY <1>6 DEF Memory!New
  <2>5. new \in [DOMAIN new -> MemoryFacts] /\ DOMAIN new \in SUBSET (1 .. MaxBatch)
    BY <2>3, <2>4
  <2>6. \A i \in active \ out : row[i].text \in Memory!Known(out)
    BY <1>4 DEF Memory!Known
  <2> QED
    BY <2>1, <2>2, <2>5, <2>6 DEF Memory!News, Memory!Elements
<1>8. ASSUME NEW i \in Pair
      PROVE  /\ row'[i] \in Memory!Kinds \cup {None} /\ (row'[i] = None <=> row[i] = None)
             /\ row[i] # None => row'[i].text = row[i].text
             /\ i \in out => row'[i].deleted = "evicted"
             /\ i \notin out => row'[i] = row[i]
  <2>1. CASE i \in out
    <3>1. row[i] \in Memory!Kinds /\ row[i] # None
      BY <1>4, <1>5, <2>1 DEF MemoryInv, MemoryKinds, Memory!Active, Memory!Rows
    <3>2. row'[i] = Memory!Removed(i, "evicted")
      BY <1>1, <2>1
    <3> QED
      BY <2>1, <3>1, <3>2, DeletedKeepsText, MemoryFinite
  <2>2. CASE i \notin out
    BY <1>1, <2>2 DEF MemoryInv, MemoryKinds
  <2> QED
    BY <2>1, <2>2
<1>9. Memory!Rows' = Memory!Rows
  BY <1>8 DEF Memory!Rows
<1>10. Memory!Active' = active \ out
  BY <1>4, <1>8, <1>9 DEF Memory!Active, Memory!Rows
<1>11. \A i \in active \ out : row'[i] = row[i]
  BY <1>8
<1>12. /\ \A k \in Pair : k # j => m_job'[k] = m_job[k]
       /\ m_job'[j] = IF DOMAIN new = {} THEN None ELSE [step |-> "embed", new |-> new]
  BY <1>1, <1>6 DEF MemoryInv, MemoryKinds
<1>13. m_job'[j] \in Planned \cup {None}
  BY <1>7, <1>12 DEF Planned
<1>14. \A k \in Pair : (Committing(k)' <=> Committing(k)) /\ (Committing(k) => k # j)
  BY <1>2, <1>12, <1>13 DEF Committing, Planned
<1>15. MemoryKinds'
  <2>1. row' \in [Pair -> Memory!Kinds \cup {None}]
    BY <1>1, <1>8
  <2>2. m_job' \in [Pair -> Planned \cup Scattered \cup {None}]
    BY <1>1, <1>12, <1>13 DEF MemoryInv, MemoryKinds
  <2> QED
    BY <1>2, <1>3, <2>1, <2>2 DEF MemoryInv, MemoryKinds
<1>16. IdsApart'
  BY <1>9, <1>12, <1>14 DEF MemoryInv, IdsApart
<1>17. InStep'
  <2>1. Memory!Active' \subseteq Memory!Active
    BY <1>4, <1>10
  <2> QED
    BY <1>2, <1>9, <1>12, <1>14, <2>1 DEF MemoryInv, InStep
<1>18. InTurn'
  <2> SUFFICES ASSUME ~m_crossed' PROVE InTurn'
    BY DEF InTurn
  <2>1. ~m_crossed /\ \A k \in Pair : m_job[k] = None
    BY <1>2
  <2>2. \A k \in Pair : m_job'[k] # None => k = j /\ m_job'[k].new = new
    BY <1>12, <2>1
  <2>3. \A i, k \in active \ out : row'[i].text = row'[k].text /\ row'[i].text \notin doubled' => i = k
    BY <1>1, <1>4, <1>11, <2>1 DEF MemoryInv, InTurn
  <2>4. Fresh(new)'
    <3>1. \A i \in active \ out : row'[i].text \notin Memory!Elements(new)
      BY <1>7, <1>11
    <3>2. \A m, k \in DOMAIN new : new[m] = new[k] /\ m # k => new[m] \in doubled'
      BY <1>1, <1>6 DEF Memory!Twice
    <3> QED
      BY <1>10, <3>1, <3>2 DEF Fresh, Memory!Elements
  <2>5. /\ Cardinality(active \ out) <= Bound'
        /\ Cardinality(active \ out) + Cardinality(DOMAIN new) <= Bound'
    <3>1. Cardinality(active) <= Bound /\ Bound \in Nat /\ Capacity <= Bound
      BY <1>4, <2>1, MemoryCardinality, BoundGrows DEF MemoryInv, InTurn
    <3>2. Bound' \in Nat /\ Bound <= Bound'
      BY <1>3, BoundGrows
    <3>3. /\ IsFiniteSet(Memory!Taken(batch)) /\ Cardinality(Memory!Taken(batch)) \in Nat
          /\ Cardinality(active \ out) + Cardinality(Memory!Taken(batch))
               <= IF Cardinality(active) < Capacity THEN Bound ELSE Memory!Max2(Bound, n)
      BY <1>1, <1>4, <1>n, <3>1, RoomIsMade
    <3>4. ~(Cardinality(active) < Capacity) => Memory!Max2(Bound, n) = Bound'
      BY <1>3, <1>n, MemoryFinite DEF Bound, Memory!Max2
    <3>5. Cardinality(DOMAIN new) <= Cardinality(Memory!Taken(batch)) /\ Cardinality(DOMAIN new) \in Nat
      BY <1>7, <3>3, FS_Subset, FS_CardinalityType
    <3>6. Cardinality(active \ out) \in Nat
      BY MemoryFinite
    <3> QED
      BY <3>1, <3>2, <3>3, <3>4, <3>5, <3>6
  <2> QED
    BY <1>10, <2>2, <2>3, <2>4, <2>5 DEF InTurn
<1> QED
  BY <1>15, <1>16, <1>17, <1>18 DEF MemoryInv

\* What does not touch the rows leaves what is fresh.
LEMMA FreshStays ==
  ASSUME row' = row, doubled' = doubled, NEW new, Fresh(new)
  PROVE  Fresh(new)'
<1>1. Memory!Active' = Memory!Active
  BY DEF Memory!Active, Memory!Rows
<1> QED
  BY <1>1 DEF Fresh, Memory!Elements

\* A consolidation that fails to embed, or breaks off before its commit, leaves the rows.
LEMMA GivenUp ==
  ASSUME MemoryInv, NEW j \in Pair, Memory!EmbedFails(j) \/ Memory!BreakOff(j)
  PROVE  MemoryInv'
<1>1. /\ m_job' = [m_job EXCEPT ![j] = None] /\ row' = row /\ vectors' = vectors
      /\ hot' = hot /\ prefs' = prefs /\ m_crossed' = m_crossed
      /\ doubled' = doubled /\ longest' = longest
  BY DEF Memory!EmbedFails, Memory!BreakOff
<1>2. m_failed'
  BY DEF Memory!EmbedFails, Memory!BreakOff
<1>3. Memory!Rows' = Memory!Rows /\ Memory!Active' = Memory!Active
  BY <1>1 DEF Memory!Rows, Memory!Active
<1>4. /\ \A k \in Pair : m_job'[k] # None => k # j /\ m_job'[k] = m_job[k]
      /\ m_job' \in [Pair -> Planned \cup Scattered \cup {None}]
  BY <1>1 DEF MemoryInv, MemoryKinds
<1>5. \A k \in Pair : Committing(k)' => Committing(k) /\ m_job'[k] = m_job[k]
  BY <1>4 DEF Committing
<1>6. MemoryKinds'
  BY <1>1, <1>4 DEF MemoryInv, MemoryKinds
<1>7. IdsApart'
  BY <1>3, <1>5 DEF MemoryInv, IdsApart
<1>8. InStep'
  BY <1>2 DEF InStep
<1>9. InTurn'
  <2> SUFFICES ASSUME ~m_crossed' PROVE InTurn'
    BY DEF InTurn
  <2>1. ~m_crossed
    BY <1>1
  <2>2. Bound' = Bound
    BY <1>1 DEF Bound
  <2>3. ASSUME NEW k \in Pair, m_job'[k] # None PROVE Fresh(m_job[k].new)'
    <3>1. m_job'[k] = m_job[k] /\ Fresh(m_job[k].new)
      BY <1>4, <2>1, <2>3 DEF MemoryInv, InTurn
    <3> QED
      BY <1>1, <3>1, FreshStays
  <2> QED
    BY <1>1, <1>3, <1>4, <2>1, <2>2, <2>3 DEF MemoryInv, InTurn
<1> QED
  BY <1>6, <1>7, <1>8, <1>9 DEF MemoryInv

\* Scattering gives each fact an id no row, vector or other consolidation has.
LEMMA ScatterKeeps ==
  ASSUME MemoryInv, NEW j \in Pair, Memory!Scatter(j)
  PROVE  MemoryInv'
<1>1. PICK ids \in SUBSET Memory!Free :
        /\ Memory!Cardinality(ids) = Memory!Cardinality(DOMAIN m_job[j].new)
        /\ m_job' = [m_job EXCEPT ![j] = [step |-> "commit", new |-> m_job[j].new, ids |-> ids]]
        /\ \/ vectors' = vectors \cup ids /\ m_failed' = m_failed
           \/ vectors' = vectors /\ m_failed'
        /\ hot' = hot \cup ids
  BY DEF Memory!Scatter
<1>2. /\ m_job[j] # None /\ m_job[j].step = "embed"
      /\ prefs' = prefs \cup Memory!Elements(m_job[j].new) /\ row' = row
      /\ m_crossed' = m_crossed /\ doubled' = doubled /\ longest' = longest
  BY DEF Memory!Scatter
<1>3. Memory!Rows' = Memory!Rows /\ Memory!Active' = Memory!Active
  BY <1>2 DEF Memory!Rows, Memory!Active
<1>4. /\ ids \subseteq Pair /\ ids \cap Memory!Rows = {}
      /\ \A k \in Pair : Committing(k) => ids \cap m_job[k].ids = {}
  BY <1>1 DEF Memory!Free, Committing
<1>5. m_job[j] \in Planned
  BY <1>2 DEF MemoryInv, MemoryKinds, Scattered
<1>6. m_job[j].new \in Memory!News /\ Memory!Elements(m_job[j].new) \subseteq MemoryFacts
  BY <1>5, NewsKinds DEF Planned, Memory!Elements
<1>7. PICK mine : mine = [step |-> "commit", new |-> m_job[j].new, ids |-> ids]
  OBVIOUS
<1>8. /\ mine \in Scattered /\ mine # None
      /\ mine.step = "commit" /\ mine.new = m_job[j].new /\ mine.ids = ids
  <2>1. mine \in Scattered
    BY <1>4, <1>6, <1>7 DEF Scattered
  <2> QED
    BY <1>7, <2>1, MemoryFinite
<1>9. /\ m_job'[j] = mine /\ \A k \in Pair : k # j => m_job'[k] = m_job[k]
      /\ m_job' \in [Pair -> Planned \cup Scattered \cup {None}]
  BY <1>1, <1>7, <1>8 DEF MemoryInv, MemoryKinds
<1>10. \A k \in Pair : k # j => (Committing(k)' <=> Committing(k))
  BY <1>9 DEF Committing
<1>11. ~Committing(j)
  BY <1>2 DEF Committing
<1>12. MemoryKinds'
  BY <1>1, <1>2, <1>4, <1>6, <1>9 DEF MemoryInv, MemoryKinds
<1>13. IdsApart'
  <2>1. Cardinality(mine.ids) = Cardinality(DOMAIN mine.new)
    BY <1>1, <1>8, MemoryCardinality
  <2> SUFFICES ASSUME NEW k \in Pair, Committing(k)'
               PROVE  /\ m_job'[k].ids \cap Memory!Rows = {}
                      /\ Cardinality(m_job'[k].ids) = Cardinality(DOMAIN m_job'[k].new)
                      /\ \A l \in Pair : l # k /\ Committing(l)' => m_job'[k].ids \cap m_job'[l].ids = {}
    BY <1>3 DEF IdsApart
  <2>2. CASE k = j
    BY <1>4, <1>8, <1>9, <1>10, <2>1, <2>2
  <2>3. CASE k # j
    <3>1. Committing(k) /\ m_job'[k] = m_job[k]
      BY <1>9, <1>10, <2>3
    <3>2. ASSUME NEW l \in Pair, l # k, Committing(l)' PROVE m_job'[k].ids \cap m_job'[l].ids = {}
      <4>1. CASE l = j
        BY <1>4, <1>8, <1>9, <3>1, <4>1
      <4>2. CASE l # j
        BY <1>9, <1>10, <3>1, <3>2, <4>2 DEF MemoryInv, IdsApart
      <4> QED
        BY <4>1, <4>2
    <3> QED
      BY <3>1, <3>2 DEF MemoryInv, IdsApart
  <2> QED
    BY <2>2, <2>3
<1>14. InStep'
  <2> SUFFICES ASSUME ~m_failed' PROVE InStep'
    BY DEF InStep
  <2>1. vectors' = vectors \cup ids /\ ~m_failed
    BY <1>1
  <2>2. ASSUME NEW i \in vectors'
        PROVE  i \in Memory!Rows' \/ \E k \in Pair : Committing(k)' /\ i \in m_job'[k].ids
    <3>1. Committing(j)'
      BY <1>8, <1>9 DEF Committing
    <3>2. CASE i \in ids
      BY <1>8, <1>9, <3>1, <3>2
    <3>3. CASE i \in vectors
      <4>1. i \in Memory!Rows \/ \E k \in Pair : Committing(k) /\ i \in m_job[k].ids
        BY <2>1, <3>3 DEF MemoryInv, InStep
      <4> QED
        BY <1>3, <1>9, <1>10, <1>11, <4>1
    <3> QED
      BY <2>1, <3>2, <3>3
  <2>3. Memory!Active' \subseteq vectors'
    BY <1>3, <2>1 DEF MemoryInv, InStep
  <2>4. ASSUME NEW k \in Pair, Committing(k)' PROVE m_job'[k].ids \subseteq vectors'
    <3>1. CASE k = j
      BY <1>8, <1>9, <2>1, <3>1
    <3>2. CASE k # j
      BY <1>9, <1>10, <2>1, <2>4, <3>2 DEF MemoryInv, InStep
    <3> QED
      BY <3>1, <3>2
  <2> QED
    BY <2>2, <2>3, <2>4 DEF InStep
<1>15. InTurn'
  <2> SUFFICES ASSUME ~m_crossed' PROVE InTurn'
    BY DEF InTurn
  <2>1. ~m_crossed
    BY <1>2
  <2>2. \A k \in Pair : (m_job'[k] # None => m_job[k] # None) /\ (m_job[k] # None => m_job'[k].new = m_job[k].new)
    BY <1>2, <1>8, <1>9
  <2>3. Bound' = Bound
    BY <1>2 DEF Bound
  <2>4. ASSUME NEW k \in Pair, m_job'[k] # None PROVE Fresh(m_job[k].new)'
    <3>1. m_job'[k].new = m_job[k].new /\ Fresh(m_job[k].new)
      BY <2>1, <2>2, <2>4 DEF MemoryInv, InTurn
    <3> QED
      BY <1>2, <3>1, FreshStays
  <2> QED
    BY <1>2, <1>3, <2>1, <2>2, <2>3, <2>4 DEF MemoryInv, InTurn
<1> QED
  BY <1>12, <1>13, <1>14, <1>15 DEF MemoryInv

\* The commit makes rows of the ids a consolidation has been given, one for each fact.
LEMMA CommitKeeps ==
  ASSUME MemoryInv, NEW j \in Pair, Memory!Commit(j)
  PROVE  MemoryInv'
<1>1. PICK ids, new : ids = m_job[j].ids /\ new = m_job[j].new
  OBVIOUS
<1>2. PICK nth \in [ids -> DOMAIN new] :
        /\ \A i, k \in ids : nth[i] = nth[k] => i = k
        /\ row' = [i \in Pair |-> IF i \in ids
                     THEN [text |-> new[nth[i]], weight |-> 2, age |-> "fresh", deleted |-> "no"]
                     ELSE row[i]]
  BY <1>1 DEF Memory!Commit
<1>3. /\ Committing(j) /\ m_job' = [m_job EXCEPT ![j] = None]
      /\ vectors' = vectors /\ hot' = hot /\ prefs' = prefs
      /\ m_crossed' = m_crossed /\ m_failed' = m_failed
      /\ doubled' = doubled /\ longest' = longest
  BY DEF Memory!Commit, Committing
<1>4. ids \subseteq Pair /\ new \in Memory!News /\ \A i \in ids : new[nth[i]] \in MemoryFacts
  <2>1. ids \subseteq Pair /\ new \in Memory!News
    BY <1>1, <1>3 DEF MemoryInv, MemoryKinds, Committing, Planned, Scattered
  <2> QED
    BY <1>2, <2>1, NewsKinds
<1>5. /\ ids \cap Memory!Rows = {} /\ Cardinality(ids) = Cardinality(DOMAIN new)
      /\ \A k \in Pair : k # j /\ Committing(k) => ids \cap m_job[k].ids = {}
  BY <1>1, <1>3 DEF MemoryInv, IdsApart
<1>6. ASSUME NEW i \in Pair
      PROVE  /\ row'[i] \in Memory!Kinds \cup {None}
             /\ i \in ids => /\ row'[i] # None /\ row'[i].deleted = "no" /\ row'[i].text = new[nth[i]]
             /\ i \notin ids => row'[i] = row[i]
  <2>1. CASE i \in ids
    <3>1. row'[i] = [text |-> new[nth[i]], weight |-> 2, age |-> "fresh", deleted |-> "no"]
      BY <1>2, <2>1
    <3>2. row'[i] \in Memory!Kinds
      BY <1>2, <1>4, <2>1, <3>1 DEF Memory!Kinds, Memory!Ages
    <3> QED
      BY <2>1, <3>1, <3>2, MemoryFinite
  <2>2. CASE i \notin ids
    BY <1>2, <2>2 DEF MemoryInv, MemoryKinds
  <2> QED
    BY <2>1, <2>2
<1>7. Memory!Rows' = Memory!Rows \cup ids
  BY <1>4, <1>6 DEF Memory!Rows
<1>8. Memory!Active' = Memory!Active \cup ids
  BY <1>4, <1>5, <1>6, <1>7 DEF Memory!Active, Memory!Rows
<1>9. /\ \A k \in Pair : m_job'[k] # None => k # j /\ m_job'[k] = m_job[k]
      /\ \A k \in Pair : k # j => m_job'[k] = m_job[k]
      /\ m_job' \in [Pair -> Planned \cup Scattered \cup {None}]
  BY <1>3 DEF MemoryInv, MemoryKinds
<1>10. \A k \in Pair : Committing(k)' => k # j /\ Committing(k) /\ m_job'[k] = m_job[k]
  BY <1>9 DEF Committing
<1>11. MemoryKinds'
  <2>1. row' \in [Pair -> Memory!Kinds \cup {None}]
    BY <1>2, <1>6
  <2> QED
    BY <1>3, <1>9, <2>1 DEF MemoryInv, MemoryKinds
<1>12. IdsApart'
  BY <1>5, <1>7, <1>10 DEF MemoryInv, IdsApart
<1>13. InStep'
  <2> SUFFICES ASSUME ~m_failed' PROVE InStep'
    BY DEF InStep
  <2>1. ~m_failed
    BY <1>3
  <2>2. ASSUME NEW i \in vectors'
        PROVE  i \in Memory!Rows' \/ \E k \in Pair : Committing(k)' /\ i \in m_job'[k].ids
    <3>1. i \in Memory!Rows \/ \E k \in Pair : Committing(k) /\ i \in m_job[k].ids
      BY <1>3, <2>1, <2>2 DEF MemoryInv, InStep
    <3>2. CASE i \in Memory!Rows \cup ids
      BY <1>7, <3>2
    <3>3. CASE i \notin Memory!Rows \cup ids
      <4>1. PICK k \in Pair : Committing(k) /\ i \in m_job[k].ids
        BY <3>1, <3>3
      <4>2. k # j
        BY <1>1, <3>3, <4>1
      <4> QED
        BY <1>9, <4>1, <4>2 DEF Committing
    <3> QED
      BY <3>2, <3>3
  <2>3. Memory!Active' \subseteq vectors'
    BY <1>1, <1>3, <1>8, <2>1 DEF MemoryInv, InStep
  <2>4. \A k \in Pair : Committing(k)' => m_job'[k].ids \subseteq vectors'
    BY <1>3, <1>10, <2>1 DEF MemoryInv, InStep
  <2> QED
    BY <2>2, <2>3, <2>4 DEF InStep
<1>14. InTurn'
  <2> SUFFICES ASSUME ~m_crossed' PROVE InTurn'
    BY DEF InTurn
  <2>1. ~m_crossed /\ m_job[j] # None
    BY <1>3 DEF Committing
  <2>2. PICK active \in SUBSET Pair : active = Memory!Active
    BY DEF Memory!Active, Memory!Rows
  <2>3. /\ \A k \in Pair : m_job[k] # None => k = j
        /\ \A i \in active : row[i].text \notin Memory!Elements(new)
        /\ \A m, n \in DOMAIN new : new[m] = new[n] /\ new[m] \notin doubled => m = n
        /\ \A i, k \in active : row[i].text = row[k].text /\ row[i].text \notin doubled => i = k
        /\ Cardinality(active) + Cardinality(DOMAIN new) <= Bound
    BY <1>1, <2>1, <2>2, MemoryCardinality DEF MemoryInv, InTurn, Fresh
  <2>4. \A k \in Pair : m_job'[k] = None
    BY <1>9, <2>3
  <2>6. \A i, k \in active \cup ids :
          row'[i].text = row'[k].text /\ row'[i].text \notin doubled' => i = k
    <3>1. \A i \in ids : /\ nth[i] \in DOMAIN new /\ row'[i].text = new[nth[i]]
                         /\ row'[i].text \in Memory!Elements(new)
      BY <1>2, <1>4, <1>6 DEF Memory!Elements
    <3>2. active \cap ids = {}
      BY <1>5, <2>2 DEF Memory!Active
    <3>3. \A i \in active : row'[i].text = row[i].text /\ row'[i].text \notin Memory!Elements(new)
      BY <1>6, <2>3, <3>2
    <3>4. \A i, k \in ids : row'[i].text = row'[k].text /\ row'[i].text \notin doubled => i = k
      BY <1>2, <2>3, <3>1
    <3> QED
      BY <1>3, <2>3, <3>1, <3>3, <3>4
  <2>7. Cardinality(active \cup ids) <= Bound'
    <3>1. active \cap ids = {}
      BY <1>5, <2>2 DEF Memory!Active
    <3>2. IsFiniteSet(active) /\ IsFiniteSet(ids) /\ Cardinality(active) \in Nat /\ Cardinality(ids) \in Nat
      BY <1>4, MemoryFinite
    <3>3. Cardinality(active \cap ids) = 0
      BY <3>1, FS_EmptySet
    <3>4. Cardinality(active \cup ids) = Cardinality(active) + Cardinality(ids) - Cardinality(active \cap ids)
      BY <3>2, FS_Union
    <3>5. Bound' = Bound
      BY <1>3 DEF Bound
    <3> QED
      BY <1>5, <2>3, <3>2, <3>3, <3>4, <3>5
  <2> QED
    BY <1>8, <2>2, <2>4, <2>6, <2>7, MemoryCardinality DEF InTurn
<1> QED
  BY <1>11, <1>12, <1>13, <1>14 DEF MemoryInv

\* Every step of the memory keeps it sound.
LEMMA MemoryStep ==
  ASSUME MemoryInv, Memory!Next
  PROVE  MemoryInv'
BY Begun, GivenUp, ScatterKeeps, CommitKeeps, Recalled, Forgotten, Decayed, TimePasses
   DEF Memory!Next

\* A step of another service leaves the memory.
LEMMA MemoryRest ==
  ASSUME MemoryInv, UNCHANGED memory
  PROVE  MemoryInv'
<1>1. /\ row' = row /\ vectors' = vectors /\ hot' = hot /\ prefs' = prefs /\ m_job' = m_job
      /\ m_crossed' = m_crossed /\ m_failed' = m_failed
      /\ doubled' = doubled /\ longest' = longest
  BY DEF memory
<1>2. Memory!Rows' = Memory!Rows /\ Memory!Active' = Memory!Active
  BY <1>1 DEF Memory!Rows, Memory!Active
<1>3. \A j \in Pair : Committing(j)' <=> Committing(j)
  BY <1>1 DEF Committing
<1>4. Bound' = Bound /\ \A j \in Pair : m_job'[j] = m_job[j]
  BY <1>1 DEF Bound
<1>5. ASSUME NEW j \in Pair, Fresh(m_job[j].new) PROVE Fresh(m_job[j].new)'
  BY <1>1, <1>4, <1>5, FreshStays
<1>6. InTurn => InTurn'
  BY <1>1, <1>2, <1>4, <1>5 DEF InTurn
<1> QED
  BY <1>1, <1>2, <1>3, <1>6 DEF MemoryInv, MemoryKinds, IdsApart, InStep

\* What the invariant says is what the memory promises.
LEMMA MemoryKeepsFaith == MemoryInv => Memory!MemorySound
<1> SUFFICES ASSUME MemoryInv PROVE Memory!MemorySound
  OBVIOUS
<1>1. Memory!TypeOK
  <2>1. \A i \in Memory!Rows : row[i] \in Memory!Kinds
    BY DEF MemoryInv, MemoryKinds, Memory!Rows
  <2>2. \A j \in Pair : m_job[j] # None => m_job[j].step \in {"embed", "commit"}
    BY DEF MemoryInv, MemoryKinds, Planned, Scattered
  <2> QED
    BY <2>1, <2>2 DEF Memory!TypeOK, MemoryInv, MemoryKinds
<1>2. Memory!CapacityKept /\ Memory!NoTwins
  BY MemoryCardinality DEF MemoryInv, InTurn, Bound, Memory!CapacityKept, Memory!NoTwins
<1>3. Memory!NoOrphanVectors
  BY DEF MemoryInv, InStep, Committing, Memory!NoOrphanVectors
<1>4. Memory!ActiveIsRecallable
  BY DEF MemoryInv, InStep, Memory!ActiveIsRecallable, Memory!RecalledVectors
<1> QED
  BY <1>1, <1>2, <1>3, <1>4 DEF Memory!MemorySound

\* While consolidations take turns, no fact is remembered twice that no reply named twice, and
\* no more than the capacity or than the longest reply that found the memory full; while no
\* store failed, an active fact has its vector and a vector its row.
THEOREM MemoryStaysSound == ServicesSpec => []MemorySound
<1> DEFINE I == focus = "memory" => MemoryInv
<1>1. ServicesInit => I
  BY MemoryBegins DEF ServicesInit
<1>2. I /\ ServicesStep => I'
  <2> SUFFICES ASSUME I, ServicesStep, focus' = "memory" PROVE MemoryInv'
    OBVIOUS
  <2>1. MemoryInv
    BY DEF ServicesStep, ServicesNext, ServicesVars
  <2>2. Memory!Next \/ UNCHANGED memory
    BY DEF ServicesStep, ServicesNext, ServicesVars, memory
  <2> QED
    BY <2>1, <2>2, MemoryStep, MemoryRest
<1>3. I => MemorySound
  BY MemoryKeepsFaith DEF MemorySound
<1> QED
  BY <1>1, <1>2, <1>3, PTL DEF ServicesSpec, ServicesStep, ServicesVars

-----------------------------------------------------------------------------
(* Conversations.                                                           *)

SaidRow == [turn : Exchanges, conv : Convs, role : {"user", "assistant"}, at : Nat, deleted : BOOLEAN]
Asked == [at : {"waiting", "thinking", "asked", "done"}, conv : Convs \cup {None},
          history : Seq(SaidRow)]

\* What was said was said in the conversation of its turn, one after the other.
TalkKinds ==
  /\ Talks!TypeOK
  /\ now \in Nat /\ v_messages \in Seq(SaidRow) /\ turn \in [Exchanges -> Asked]
  /\ \A t \in Exchanges :
       IF turn[t].at = "waiting" THEN turn[t] = Talks!Waiting
       ELSE turn[t].conv \in Convs /\ conv[turn[t].conv] # None
TimeGoesOn ==
  /\ \A i \in DOMAIN v_messages : v_messages[i].at <= now
  /\ \A i, j \in DOMAIN v_messages : i < j => v_messages[i].at <= v_messages[j].at

\* A turn saves its question, then its answer.
SavedInOrder ==
  /\ \A i \in DOMAIN v_messages : LET t == v_messages[i].turn IN
       /\ turn[t].conv = v_messages[i].conv
       /\ turn[t].at = "done" \/ (turn[t].at = "asked" /\ v_messages[i].role = "user")
  /\ \A i, j \in DOMAIN v_messages : i < j /\ v_messages[i].turn = v_messages[j].turn =>
       v_messages[i].role = "user" /\ v_messages[j].role = "assistant"
  /\ \A t \in Exchanges : turn[t].at = "asked" => \E i \in DOMAIN v_messages : v_messages[i].turn = t

\* In a conversation where nothing overlaps or breaks off, one turn is under way, every other
\* has saved both, and nothing is between them.
OneTurn(c) == \A t, u \in Exchanges : Talks!Busy(t, c) /\ Talks!Busy(u, c) => t = u
BothSaved(c) ==
  \A i \in DOMAIN v_messages :
    v_messages[i].conv = c /\ turn[v_messages[i].turn].at = "done" =>
      \E j \in DOMAIN v_messages : j # i /\ v_messages[j].turn = v_messages[i].turn
NoneBetween(c) ==
  \A i, j \in DOMAIN v_messages :
    i < j /\ v_messages[i].conv = c /\ v_messages[j].conv = c
    /\ v_messages[i].turn # v_messages[j].turn =>
      /\ turn[v_messages[i].turn].at = "done"
      /\ \A k \in DOMAIN v_messages : j < k => v_messages[k].turn # v_messages[i].turn
Even == \A c \in Convs \ uneven : OneTurn(c) /\ BothSaved(c) /\ NoneBetween(c)

\* A conversation that is live shows all of it; once deleted, nothing, and nobody is at it.
ShownWhole ==
  /\ \A i \in DOMAIN v_messages : LET c == v_messages[i].conv IN
       c \notin uneven \cup late /\ conv[c] = "live" => ~v_messages[i].deleted
  /\ \A c \in Convs \ late : conv[c] = "deleted" => Talks!Live(c) = {} /\ ~Talks!Occupied(c)

TalkInv ==
  TalkKinds /\ TimeGoesOn /\ SavedInOrder /\ Even /\ ShownWhole /\ Talks!HistoryIsWhole

\* A set of numbers that is not empty has a least one.
LEMMA Least ==
  ASSUME NEW T \in SUBSET Nat, T # {}
  PROVE  \E n \in T : \A m \in T : n <= m
<1> DEFINE R == OpToRel(<, Nat)
<1>1. \E x \in T : \A y \in T : ~ (<<y, x>> \in R)
  BY NatLessThanWellFounded, WFMin
<1>2. \A x, y \in Nat : y < x => <<y, x>> \in R
  BY DEF OpToRel
<1> HIDE DEF R
<1>3. PICK x \in T : \A y \in T : ~ (<<y, x>> \in R)
  BY <1>1
<1>4. ASSUME NEW y \in T PROVE x <= y
  <2>1. x \in Nat /\ y \in Nat
    OBVIOUS
  <2>2. ~(y < x)
    BY <1>2, <1>3, <2>1
  <2> QED
    BY <2>1, <2>2
<1> QED
  BY <1>4

LEMMA Odds ==
  ASSUME NEW i \in Nat, NEW j \in Nat, i % 2 = 1, j < i
  PROVE  /\ j % 2 = 1 => j + 1 < i
         /\ j % 2 # 1 /\ j > 0 => (j - 1) % 2 = 1 /\ j - 1 > 0
OBVIOUS
LEMMA Strictly == \A a, b \in Nat : a >= b /\ a # b => b < a
OBVIOUS

\* Everything has one other of its kind, what is sorted by time, and nothing of another kind
\* has the time of one or lies between the times of two.
Twos(n, kind, time) ==
  /\ \A i \in 1 .. n : time[i] \in Nat
  /\ \A i \in 1 .. n : \E j \in 1 .. n : j # i /\ kind[j] = kind[i]
  /\ \A i, j, k \in 1 .. n : kind[i] = kind[j] /\ kind[j] = kind[k] => i = j \/ j = k \/ i = k
  /\ \A i, j \in 1 .. n : i < j => time[i] >= time[j]
  /\ \A i, j \in 1 .. n : kind[i] # kind[j] => time[i] # time[j]
  /\ \A i, j, k \in 1 .. n :
       kind[i] = kind[k] /\ time[i] < time[j] /\ time[j] < time[k] => kind[j] = kind[i]

\* Then it lies in pairs.
LEMMA SortedInPairs ==
  ASSUME NEW n \in Nat, NEW kind, NEW time, Twos(n, kind, time)
  PROVE  \A i \in 1 .. n : i % 2 = 1 => i < n /\ kind[i] = kind[i + 1]
<1>0. Twos(n, kind, time)
  OBVIOUS
<1> USE DEF Twos
<1> DEFINE Odd == {i \in 1 .. n : i % 2 = 1 /\ ~(i < n /\ kind[i] = kind[i + 1])}
<1> SUFFICES ASSUME Odd # {} PROVE FALSE
  OBVIOUS
<1>1. PICK i \in Odd : \A j \in Odd : i <= j
  <2>1. Odd \in SUBSET Nat
    OBVIOUS
  <2> QED
    BY <2>1, Least
<1>2. i \in 1 .. n /\ i % 2 = 1 /\ ~(i < n /\ kind[i] = kind[i + 1])
  OBVIOUS
<1>3. \A j \in 1 .. n : j % 2 = 1 /\ j < i => j < n /\ kind[j] = kind[j + 1]
  BY <1>1, <1>2
<1> HIDE DEF Odd
<1>4. PICK j \in 1 .. n : j # i /\ kind[j] = kind[i]
  BY <1>2
<1>9. i \in Nat /\ j \in Nat /\ j > 0
  BY <1>2
<1>5. CASE j < i /\ j % 2 = 1
  <2>1. kind[j] = kind[j + 1] /\ j + 1 \in 1 .. n /\ j + 1 # i
    <3>1. j + 1 < i
      BY <1>9, <1>2, <1>5, Odds
    <3> QED
      BY <1>2, <1>3, <1>5, <3>1
  <2>2. j + 1 # j
    OBVIOUS
  <2> QED
    BY <1>2, <1>4, <2>1, <2>2
<1>6. CASE j < i /\ j % 2 # 1
  <2>1. j - 1 \in 1 .. n /\ (j - 1) % 2 = 1 /\ j - 1 < i /\ j - 1 # i /\ j - 1 # j
    <3>1. (j - 1) % 2 = 1 /\ j - 1 > 0
      BY <1>9, <1>2, <1>6, Odds
    <3> QED
      BY <1>2, <1>6, <3>1
  <2>2. kind[j - 1] = kind[j]
    <3>1. kind[j - 1] = kind[(j - 1) + 1] /\ (j - 1) + 1 = j
      BY <1>3, <2>1
    <3> QED
      BY <3>1
  <2>3. kind[j - 1] = kind[j] /\ kind[j] = kind[i] => j - 1 = j \/ j = i \/ j - 1 = i
    <3> i \in 1 .. n /\ j \in 1 .. n /\ j - 1 \in 1 .. n
      BY <1>2, <2>1
    <3> QED
      OBVIOUS
  <2> QED
    BY <1>4, <2>1, <2>2, <2>3
<1>7. CASE j = i + 1
  BY <1>2, <1>4, <1>7
<1>8. CASE j > i + 1
  <2>1. i + 1 \in 1 .. n /\ i < n /\ i < i + 1
    BY <1>2, <1>8
  <2>2. kind[i + 1] # kind[i]
    BY <1>2, <2>1
  <2>3. time[i] >= time[i + 1] /\ time[i + 1] >= time[j]
    BY <1>2, <1>8, <2>1
  <2>4. time[i] # time[i + 1] /\ time[i + 1] # time[j]
    BY <1>2, <1>4, <2>1, <2>2
  <2>5. time[i] \in Nat /\ time[i + 1] \in Nat /\ time[j] \in Nat
    BY <1>2, <2>1
  <2>6. time[j] < time[i + 1] /\ time[i + 1] < time[i]
    BY <2>3, <2>4, <2>5, Strictly
  <2> QED
    BY <1>2, <1>4, <2>1, <2>2, <2>6
<1> QED
  BY <1>2, <1>4, <1>5, <1>6, <1>7, <1>8

LEMMA Halves ==
  /\ \A n \in Nat : n % 2 # 0 => n % 2 = 1 /\ n > 0
  /\ \A n, i \in Nat : n % 2 = 0 /\ i % 2 = 1 /\ i <= n =>
       i < n /\ (n - i) % 2 = 1 /\ n - i > 0 /\ n - i \in Nat
  /\ \A n \in Nat : n % 2 = 0 /\ n > 0 => (n - 1) % 2 = 1 /\ n - 1 > 0 /\ n - 1 \in Nat
  /\ \A i \in Nat : i % 2 = 1 /\ i > 1 => (i - 2) % 2 = 1 /\ i - 2 > 0 /\ i - 2 \in Nat
OBVIOUS

Lesser(m, n) == IF m < n THEN m ELSE n

\* ... so the first n of them, an even number, are whole pairs from the last to the first, each
\* later than what follows, and everything else is earlier.
FirstPairs(n, N, L, kind, time) ==
  /\ \A i \in 1 .. n : i % 2 = 1 => i < n /\ kind[n + 1 - i] = kind[n - i]
  /\ \A i \in 1 .. n : i % 2 = 1 /\ i > 1 => time[n + 2 - i] < time[n + 1 - i]
  /\ \A k \in 1 .. N : k > n => n = L /\ n > 0 /\ time[k] < time[n]

LEMMA LatestPairs ==
  ASSUME NEW N \in Nat, NEW kind, NEW time, Twos(N, kind, time),
         NEW L \in Nat \ {0}, L % 2 = 0, NEW n, n = Lesser(N, L)
  PROVE  FirstPairs(n, N, L, kind, time)
<1>1. \A i \in 1 .. N : i % 2 = 1 => i < N /\ kind[i] = kind[i + 1]
  BY SortedInPairs
<1>0. n \in Nat /\ n = IF N < L THEN N ELSE L
  BY DEF Lesser
<1>2. n % 2 = 0 /\ n <= N
  <2>1. CASE N < L
    <3>1. N % 2 = 1 /\ N > 0 => N \in 1 .. N
      OBVIOUS
    <3>2. ~(N % 2 = 1 /\ N > 0)
      BY <1>1, <3>1
    <3> QED
      BY <1>0, <2>1, <3>2, Halves
  <2> QED
    BY <1>0, <2>1
<1>3. ASSUME NEW i \in 1 .. n, i % 2 = 1
      PROVE  i < n /\ kind[n + 1 - i] = kind[n - i] /\ n - i \in 1 .. N
  <2>1. i < n /\ (n - i) % 2 = 1 /\ n - i > 0 /\ n - i \in Nat
    <3> i \in Nat /\ i <= n
      OBVIOUS
    <3> QED
      BY <1>0, <1>2, <1>3, Halves
  <2>2. n - i \in 1 .. N /\ (n - i) + 1 = n + 1 - i
    BY <1>0, <1>2, <2>1
  <2>3. kind[n - i] = kind[(n - i) + 1]
    BY <1>1, <2>1, <2>2
  <2> QED
    BY <2>1, <2>2, <2>3
<1>4. ASSUME NEW i \in 1 .. n, i % 2 = 1, i > 1
      PROVE  time[n + 2 - i] < time[n + 1 - i]
  <2> DEFINE a == n - i
             b == n + 1 - i
             d == n + 2 - i
  <2>1. (i - 2) % 2 = 1 /\ i - 2 \in 1 .. n
    <3> i \in Nat
      BY <1>0
    <3>1. (i - 2) % 2 = 1 /\ i - 2 > 0 /\ i - 2 \in Nat
      BY <1>4, Halves
    <3> QED
      BY <1>0, <3>1
  <2>2. a \in 1 .. N /\ b \in 1 .. N /\ d \in 1 .. N /\ a # b /\ b # d /\ a # d /\ b < d
    BY <1>0, <1>2, <1>3, <1>4
  <2>3. kind[a] = kind[b]
    BY <1>3, <1>4
  <2>4. kind[d] # kind[b]
    <3> HIDE DEF a, b, d
    <3> QED
      BY <2>2, <2>3 DEF Twos
  <2>5. time[b] >= time[d] /\ time[b] # time[d] /\ time[b] \in Nat /\ time[d] \in Nat
    <3> HIDE DEF a, b, d
    <3> QED
      BY <2>2, <2>4 DEF Twos
  <2>6. time[d] < time[b]
    <3> HIDE DEF a, b, d
    <3> QED
      BY <2>5, Strictly
  <2> QED
    BY <2>6
<1>5. ASSUME NEW k \in 1 .. N, k > n
      PROVE  n = L /\ n > 0 /\ time[k] < time[n]
  <2>1. n = L /\ n > 0 /\ n \in 1 .. N
    BY <1>0, <1>2, <1>5
  <2>2. (n - 1) % 2 = 1 /\ n - 1 \in 1 .. N /\ n - 1 # n /\ n - 1 # k /\ n # k
    <3>1. (n - 1) % 2 = 1 /\ n - 1 > 0 /\ n - 1 \in Nat
      BY <1>0, <1>2, <2>1, Halves
    <3> QED
      BY <1>0, <1>2, <1>5, <3>1
  <2>3. kind[n - 1] = kind[n]
    <3>1. n - 1 \in 1 .. N /\ (n - 1) % 2 = 1
      BY <2>2
    <3>2. kind[n - 1] = kind[(n - 1) + 1]
      BY <1>1, <3>1
    <3>3. (n - 1) + 1 = n
      BY <2>1
    <3> QED
      BY <3>2, <3>3
  <2>4. kind[k] # kind[n]
    <3>1. kind[n - 1] = kind[n] /\ kind[n] = kind[k] => n - 1 = n \/ n = k \/ n - 1 = k
      <4>1. \A a, b, d \in 1 .. N : kind[a] = kind[b] /\ kind[b] = kind[d] => a = b \/ b = d \/ a = d
        BY DEF Twos
      <4>2. n - 1 \in 1 .. N /\ n \in 1 .. N /\ k \in 1 .. N
        BY <2>1, <2>2
      <4> DEFINE a == n - 1
      <4> HIDE DEF a
      <4>3. a \in 1 .. N
        BY <4>2 DEF a
      <4>4. kind[a] = kind[n] /\ kind[n] = kind[k] => a = n \/ n = k \/ a = k
        BY <4>1, <4>2, <4>3, Zenon
      <4> QED
        BY <4>4 DEF a
    <3> QED
      BY <2>2, <2>3, <3>1
  <2>5. time[n] >= time[k] /\ time[n] # time[k] /\ time[n] \in Nat /\ time[k] \in Nat
    BY <1>0, <1>5, <2>1, <2>4 DEF Twos
  <2> QED
    BY <2>1, <2>5, Strictly
<1> QED
  BY <1>3, <1>4, <1>5 DEF FirstPairs

\* A sequence of a finite set has each of its members, once.
LEMMA EachOnce ==
  ASSUME NEW T, IsFiniteSet(T), NEW s \in SetToSeqs(T)
  PROVE  /\ s \in Seq(T) /\ Len(s) \in Nat /\ s \in [1 .. Len(s) -> T]
         /\ \A i, j \in 1 .. Len(s) : s[i] = s[j] => i = j
         /\ \A x \in T : \E k \in 1 .. Len(s) : s[k] = x
<1>1. IsFiniteSet(T) /\ Cardinality(T) \in Nat
  BY FS_CardinalityType
<1> DEFINE n == Cardinality(T)
<1>2. s \in [1 .. n -> T] /\ \A i, j \in 1 .. n : i # j => s[i] # s[j]
  BY DEF SetToSeqs
<1>3. Cardinality(1 .. n) = n
  <2>1. n \in Int /\ 1 \in Int
    BY <1>1
  <2>2. Cardinality(1 .. n) = IF 1 > n THEN 0 ELSE n - 1 + 1
    BY <2>1, FS_Interval
  <2> QED
    BY <1>1, <2>2
<1> HIDE DEF n
<1>4. s \in Injection(1 .. n, T)
  BY <1>2, Fun_IsInj
<1>5. s \in Surjection(1 .. n, T)
  BY <1>1, <1>3, <1>4, FS_Injection DEF n
<1>6. \A x \in T : \E k \in 1 .. n : s[k] = x
  BY <1>5 DEF Surjection
<1>7. n \in Nat
  BY <1>1 DEF n
<1>8. s \in Seq(T) /\ Len(s) = n
  BY <1>2, <1>7
<1> QED
  BY <1>2, <1>6, <1>7, <1>8

\* The rows of a conversation, latest first; a history, their first rows turned around.
LEMMA RowsListed ==
  ASSUME TalkKinds, NEW c \in Convs, NEW s \in Talks!Latest(Talks!Live(c))
  PROVE  /\ s \in Seq(Talks!Live(c)) /\ Len(s) \in Nat
         /\ \A k \in 1 .. Len(s) : s[k] \in Talks!Live(c)
         /\ \A i, j \in 1 .. Len(s) : s[i] = s[j] => i = j
         /\ \A x \in Talks!Live(c) : \E k \in 1 .. Len(s) : s[k] = x
         /\ \A i, j \in 1 .. Len(s) : i < j => v_messages[s[i]].at >= v_messages[s[j]].at
<1> DEFINE T == Talks!Live(c)
<1>1. IsFiniteSet(T)
  <2>1. Len(v_messages) \in Int /\ 1 \in Int
    BY DEF TalkKinds
  <2>2. IsFiniteSet(1 .. Len(v_messages))
    BY <2>1, FS_Interval
  <2>3. T \in SUBSET (1 .. Len(v_messages))
    BY DEF Talks!Live
  <2> QED
    BY <2>2, <2>3, FS_Subset
<1>2. s \in SetToSeqs(T) /\ \A i, j \in 1 .. Len(s) : i < j => v_messages[s[i]].at >= v_messages[s[j]].at
  <2>1. Talks!Cardinality(T) = Cardinality(T)
    BY DEF Talks!Cardinality, Cardinality
  <2> QED
    BY <2>1 DEF Talks!Latest, Talks!SetToSeqs, SetToSeqs
<1> HIDE DEF T
<1>3. /\ s \in Seq(T) /\ Len(s) \in Nat /\ s \in [1 .. Len(s) -> T]
      /\ \A i, j \in 1 .. Len(s) : s[i] = s[j] => i = j
      /\ \A x \in T : \E k \in 1 .. Len(s) : s[k] = x
  BY <1>1, <1>2, EachOnce
<1>4. \A k \in 1 .. Len(s) : s[k] \in T
  BY <1>3
<1> QED
  BY <1>2, <1>3, <1>4 DEF T

LEMMA LiveRows ==
  ASSUME TalkKinds, NEW c, NEW i \in Talks!Live(c)
  PROVE  /\ i \in DOMAIN v_messages /\ i \in Nat /\ i \in 1 .. Len(v_messages)
         /\ v_messages[i] \in SaidRow /\ v_messages[i].conv = c /\ ~v_messages[i].deleted
<1>1. i \in 1 .. Len(v_messages) /\ v_messages[i].conv = c /\ ~v_messages[i].deleted
  BY DEF Talks!Live
<1>2. v_messages \in Seq(SaidRow)
  BY DEF TalkKinds
<1> QED
  BY <1>1, <1>2

\* Where nothing overlaps or breaks off and nobody is under way, the rows are twos.
LEMMA RowsAreTwos ==
  ASSUME TalkInv, NEW c \in Convs \ (uneven \cup late), conv[c] = "live",
         ~Talks!Occupied(c), ~Talks!Shared(v_messages),
         NEW s \in Talks!Latest(Talks!Live(c))
  PROVE  Twos(Len(s), [k \in 1 .. Len(s) |-> v_messages[s[k]].turn],
              [k \in 1 .. Len(s) |-> v_messages[s[k]].at])
<1> DEFINE N == Len(s)
           kind == [k \in 1 .. N |-> v_messages[s[k]].turn]
           time == [k \in 1 .. N |-> v_messages[s[k]].at]
<1>1. TalkKinds /\ TimeGoesOn /\ SavedInOrder /\ Even /\ ShownWhole
  BY DEF TalkInv
<1>2. /\ N \in Nat /\ \A k \in 1 .. N : s[k] \in Talks!Live(c)
      /\ \A i, j \in 1 .. N : s[i] = s[j] => i = j
      /\ \A x \in Talks!Live(c) : \E k \in 1 .. N : s[k] = x
      /\ \A i, j \in 1 .. N : i < j => v_messages[s[i]].at >= v_messages[s[j]].at
  BY <1>1, RowsListed
<1> HIDE DEF N
<1>3. \A k \in 1 .. N : /\ s[k] \in DOMAIN v_messages /\ s[k] \in Nat
                        /\ v_messages[s[k]] \in SaidRow /\ v_messages[s[k]].conv = c
                        /\ v_messages[s[k]].at \in Nat /\ v_messages[s[k]].turn \in Exchanges
  <2> TAKE k \in 1 .. N
  <2>1. s[k] \in Talks!Live(c)
    BY <1>2
  <2>2. s[k] \in DOMAIN v_messages /\ s[k] \in Nat /\ v_messages[s[k]] \in SaidRow
        /\ v_messages[s[k]].conv = c
    BY <1>1, <2>1, LiveRows
  <2> QED
    BY <2>2 DEF SaidRow
<1>4. \A k \in 1 .. N : kind[k] = v_messages[s[k]].turn /\ time[k] = v_messages[s[k]].at
  OBVIOUS
<1> HIDE DEF kind, time
<1>5. \A i \in 1 .. N : turn[kind[i]].at = "done" /\ turn[kind[i]].conv = c
  <2> TAKE i \in 1 .. N
  <2>1. /\ turn[kind[i]].conv = c /\ kind[i] \in Exchanges
        /\ turn[kind[i]].at = "done" \/ turn[kind[i]].at = "asked"
    BY <1>1, <1>3, <1>4 DEF SavedInOrder
  <2> QED
    BY <2>1 DEF Talks!Occupied, Talks!Busy
<1>6. \A i \in 1 .. N : \E j \in 1 .. N : j # i /\ kind[j] = kind[i]
  <2> TAKE i \in 1 .. N
  <2>1. PICK r \in DOMAIN v_messages : r # s[i] /\ v_messages[r].turn = kind[i]
    <3>1. BothSaved(c)
      BY <1>1 DEF Even
    <3>2. s[i] \in DOMAIN v_messages /\ v_messages[s[i]].conv = c
          /\ turn[v_messages[s[i]].turn].at = "done" /\ v_messages[s[i]].turn = kind[i]
      BY <1>3, <1>4, <1>5
    <3> QED
      BY <3>1, <3>2 DEF BothSaved
  <2>2. v_messages[r].conv = c
    BY <1>1, <1>5, <2>1 DEF SavedInOrder
  <2>3. ~v_messages[r].deleted
    BY <1>1, <2>1, <2>2 DEF ShownWhole
  <2>4. r \in Talks!Live(c)
    <3>1. r \in 1 .. Len(v_messages)
      BY <1>1, <2>1 DEF TalkKinds
    <3> QED
      BY <2>2, <2>3, <3>1 DEF Talks!Live
  <2>5. PICK j \in 1 .. N : s[j] = r
    BY <1>2, <2>4
  <2> QED
    BY <1>4, <2>1, <2>5
<1>7. \A i, j, k \in 1 .. N : kind[i] = kind[j] /\ kind[j] = kind[k] => i = j \/ j = k \/ i = k
  <2>1. \A p, q \in DOMAIN v_messages : p < q /\ v_messages[p].turn = v_messages[q].turn =>
          v_messages[p].role = "user" /\ v_messages[q].role = "assistant"
    BY <1>1 DEF SavedInOrder
  <2>2. \A p, q, r \in DOMAIN v_messages :
          p < q /\ q < r /\ v_messages[p].turn = v_messages[q].turn =>
            v_messages[q].turn # v_messages[r].turn
    BY <2>1
  <2> SUFFICES ASSUME NEW i \in 1 .. N, NEW j \in 1 .. N, NEW k \in 1 .. N,
                      kind[i] = kind[j], kind[j] = kind[k], i # j, j # k, i # k
               PROVE  FALSE
    OBVIOUS
  <2>3. s[i] # s[j] /\ s[j] # s[k] /\ s[i] # s[k]
    BY <1>2
  <2> DEFINE p == s[i]
             q == s[j]
             r == s[k]
  <2>4. /\ p \in DOMAIN v_messages /\ q \in DOMAIN v_messages /\ r \in DOMAIN v_messages
        /\ p \in Nat /\ q \in Nat /\ r \in Nat
        /\ v_messages[p].turn = v_messages[q].turn /\ v_messages[q].turn = v_messages[r].turn
    BY <1>3, <1>4
  <2> HIDE DEF p, q, r
  <2>5. p # q /\ q # r /\ p # r
    BY <2>3 DEF p, q, r
  <2> QED
    BY <2>2, <2>4, <2>5
<1>8. \A i, j \in 1 .. N : i < j => time[i] >= time[j]
  BY <1>2, <1>4
<1>9. \A i, j \in 1 .. N : kind[i] # kind[j] => time[i] # time[j]
  <2>1. DOMAIN v_messages = 1 .. Len(v_messages)
    BY <1>1 DEF TalkKinds
  <2> QED
    BY <1>3, <1>4, <2>1 DEF Talks!Shared
<1>10. \A i, j, k \in 1 .. N :
         kind[i] = kind[k] /\ time[i] < time[j] /\ time[j] < time[k] => kind[j] = kind[i]
  <2>1. NoneBetween(c)
    BY <1>1 DEF Even
  <2> SUFFICES ASSUME NEW i \in 1 .. N, NEW j \in 1 .. N, NEW k \in 1 .. N,
                      kind[i] = kind[k], time[i] < time[j], time[j] < time[k], kind[j] # kind[i]
               PROVE  FALSE
    OBVIOUS
  <2> DEFINE p == s[i]
             q == s[j]
             r == s[k]
  <2>2. /\ p \in DOMAIN v_messages /\ q \in DOMAIN v_messages /\ r \in DOMAIN v_messages
        /\ p \in Nat /\ q \in Nat /\ r \in Nat
        /\ v_messages[p].at < v_messages[q].at /\ v_messages[q].at < v_messages[r].at
        /\ v_messages[p].turn = v_messages[r].turn /\ v_messages[p].turn # v_messages[q].turn
        /\ v_messages[p].conv = c /\ v_messages[q].conv = c
        /\ v_messages[p].at \in Nat /\ v_messages[q].at \in Nat /\ v_messages[r].at \in Nat
    BY <1>3, <1>4
  <2> HIDE DEF p, q, r
  <2>3. \A x, y \in DOMAIN v_messages : x < y => v_messages[x].at <= v_messages[y].at
    BY <1>1 DEF TimeGoesOn
  <2>4. p < q /\ q < r
    <3>1. ~(q < p) /\ ~(r < q)
      BY <2>2, <2>3
    <3>2. p # q /\ q # r
      BY <2>2
    <3> QED
      BY <2>2, <3>1, <3>2
  <2> QED
    BY <2>1, <2>2, <2>4 DEF NoneBetween
<1>11. \A i \in 1 .. N : time[i] \in Nat
  BY <1>3, <1>4
<1> QED
  BY <1>6, <1>7, <1>8, <1>9, <1>10, <1>11 DEF Twos, kind, time, N

\* A history has room for what it holds, and what it holds was said: the first n of the
\* rows, turned around.
Turned(h, s, n, c) ==
  /\ n \in Nat /\ n <= Limit /\ n <= Len(s) /\ Len(h) = n
  /\ \A i \in 1 .. n : h[i] = s[n + 1 - i] /\ n + 1 - i \in 1 .. n /\ n + 1 - i \in 1 .. Len(s)
  /\ \A i \in 1 .. n : h[i] \in Talks!Live(c)

LEMMA HistoryRows ==
  ASSUME TalkKinds, NEW c \in Convs, NEW s \in Talks!Latest(Talks!Live(c)),
         NEW n, n = Lesser(Len(s), Limit), NEW h, h = Reverse(SubSeq(s, 1, n))
  PROVE  Turned(h, s, n, c)
<1>0. Limit \in Nat
  BY ServicesAssumption DEF Talks!ConversationsAssumption
<1>1. s \in Seq(Talks!Live(c)) /\ Len(s) \in Nat /\ \A k \in 1 .. Len(s) : s[k] \in Talks!Live(c)
  BY RowsListed
<1>2. n \in Nat /\ n <= Limit /\ n <= Len(s)
  BY <1>0, <1>1 DEF Lesser
<1> DEFINE b == SubSeq(s, 1, n)
<1>3. Len(b) = n /\ \A i \in 1 .. n : b[i] = s[i]
  BY <1>1, <1>2
<1>4. h = Reverse(b)
  OBVIOUS
<1> HIDE DEF b
<1>5. h = [i \in 1 .. n |-> b[(n - i) + 1]]
  BY <1>3, <1>4 DEF Reverse
<1>6. Len(h) = n
  BY <1>2, <1>5
<1>7. \A i \in 1 .. n : h[i] = s[n + 1 - i] /\ n + 1 - i \in 1 .. n /\ n + 1 - i \in 1 .. Len(s)
  <2> TAKE i \in 1 .. n
  <2>1. (n - i) + 1 = n + 1 - i /\ n + 1 - i \in 1 .. n /\ n + 1 - i \in 1 .. Len(s)
    BY <1>1, <1>2
  <2> QED
    BY <1>3, <1>5, <2>1
<1> QED
  BY <1>1, <1>2, <1>6, <1>7 DEF Turned

LEMMA HistoryFits ==
  ASSUME TalkKinds, NEW c \in Convs, NEW h \in Talks!Histories(c),
         NEW g, g = [i \in 1 .. Len(h) |-> v_messages[h[i]]]
  PROVE  g \in Seq(SaidRow) /\ Len(g) <= Limit
<1>1. PICK s \in Talks!Latest(Talks!Live(c)) :
        h = Reverse(SubSeq(s, 1, Lesser(Len(s), Limit)))
  BY DEF Talks!Histories, Talks!Reverse, Reverse, Lesser
<1> DEFINE n == Lesser(Len(s), Limit)
<1>2. /\ n \in Nat /\ n <= Limit /\ Len(h) = n
      /\ \A i \in 1 .. n : h[i] \in Talks!Live(c)
  <2>1. Turned(h, s, n, c)
    BY <1>1, HistoryRows
  <2> QED
    BY <2>1 DEF Turned
<1> HIDE DEF n
<1>3. \A i \in 1 .. n : v_messages[h[i]] \in SaidRow
  BY <1>2, LiveRows
<1>4. g = [i \in 1 .. n |-> v_messages[h[i]]]
  BY <1>2
<1> QED
  BY <1>2, <1>3, <1>4

\* What a history promises of one turn.
WholePairs(h) ==
  \A i \in 1 .. Len(h) : i % 2 = 1 =>
    /\ i < Len(h) /\ h[i].turn = h[i+1].turn /\ h[i].role # h[i+1].role
    /\ i > 1 => h[i-1].at < h[i].at
Newest(h, c) ==
  \A i \in Talks!Live(c) :
    Contains(h, v_messages[i]) \/ (Len(h) = Limit /\ v_messages[i].at < h[1].at)

LEMMA HistoryIsLatest ==
  ASSUME TalkInv, NEW c \in Convs \ (uneven \cup late), conv[c] = "live",
         ~Talks!Occupied(c), ~Talks!Shared(v_messages),
         NEW h \in Talks!Histories(c),
         NEW g, g = [i \in 1 .. Len(h) |-> v_messages[h[i]]]
  PROVE  WholePairs(g) /\ Newest(g, c)
<1>0. TalkKinds /\ SavedInOrder /\ TimeGoesOn /\ c \in Convs
  BY DEF TalkInv
<1>1. PICK s \in Talks!Latest(Talks!Live(c)) :
        h = Reverse(SubSeq(s, 1, Lesser(Len(s), Limit)))
  BY DEF Talks!Histories, Talks!Reverse, Reverse, Lesser
<1> DEFINE N == Len(s)
           n == Lesser(N, Limit)
           kind == [k \in 1 .. N |-> v_messages[s[k]].turn]
           time == [k \in 1 .. N |-> v_messages[s[k]].at]
<1>2. /\ n \in Nat /\ n <= Limit /\ n <= N /\ Len(h) = n
      /\ \A i \in 1 .. n : h[i] = s[n + 1 - i] /\ n + 1 - i \in 1 .. n /\ n + 1 - i \in 1 .. N
      /\ \A i \in 1 .. n : h[i] \in Talks!Live(c)
  <2>1. Turned(h, s, n, c)
    BY <1>0, <1>1, HistoryRows
  <2> HIDE DEF n
  <2> QED
    BY <2>1 DEF Turned
<1>3. /\ N \in Nat /\ \A k \in 1 .. N : s[k] \in Talks!Live(c)
      /\ \A i, j \in 1 .. N : s[i] = s[j] => i = j
      /\ \A x \in Talks!Live(c) : \E k \in 1 .. N : s[k] = x
  BY <1>0, <1>1, RowsListed
<1>4. Twos(N, kind, time)
  BY RowsAreTwos
<1>5. Limit \in Nat \ {0} /\ Limit % 2 = 0
  BY ServicesAssumption DEF Talks!ConversationsAssumption
<1>6. n = Lesser(N, Limit)
  OBVIOUS
<1>7. \A k \in 1 .. N : kind[k] = v_messages[s[k]].turn /\ time[k] = v_messages[s[k]].at
  OBVIOUS
<1> HIDE DEF N, n, kind, time
<1>8. FirstPairs(n, N, Limit, kind, time)
  <2> N \in Nat
    BY <1>3
  <2> QED
    BY <1>4, <1>5, <1>6, LatestPairs
<1>9. g = [i \in 1 .. n |-> v_messages[h[i]]] /\ Len(g) = n
  BY <1>2
<1>10. \A i \in 1 .. n : g[i].turn = kind[n + 1 - i] /\ g[i].at = time[n + 1 - i]
                         /\ n + 1 - i \in 1 .. N /\ g[i] = v_messages[s[n + 1 - i]]
  BY <1>2, <1>7, <1>9
<1>11. ASSUME NEW i \in 1 .. n, i % 2 = 1
       PROVE  /\ i < n /\ g[i].turn = g[i+1].turn /\ g[i].role # g[i+1].role
              /\ i > 1 => g[i-1].at < g[i].at
  <2>1. i < n /\ kind[n + 1 - i] = kind[n - i] /\ i + 1 \in 1 .. n /\ n + 1 - (i + 1) = n - i
    BY <1>2, <1>8, <1>11 DEF FirstPairs
  <2>2. g[i].turn = g[i+1].turn
    BY <1>10, <2>1
  <2>3. g[i].role # g[i+1].role
    <3> DEFINE p == s[n + 1 - i]
               q == s[n - i]
    <3>1. n + 1 - i \in 1 .. N /\ n - i \in 1 .. N /\ n + 1 - i # n - i
      BY <1>2, <1>10, <2>1
    <3>2. p # q /\ p \in Talks!Live(c) /\ q \in Talks!Live(c)
      BY <1>3, <3>1
    <3>3. g[i] = v_messages[p] /\ g[i + 1] = v_messages[q]
      BY <1>10, <2>1
    <3> HIDE DEF p, q
    <3>4. p \in DOMAIN v_messages /\ q \in DOMAIN v_messages /\ p \in Nat /\ q \in Nat
      BY <1>0, <3>2, LiveRows
    <3>5. p < q \/ q < p
      BY <3>2, <3>4
    <3>6. \A x, y \in DOMAIN v_messages : x < y /\ v_messages[x].turn = v_messages[y].turn =>
            v_messages[x].role = "user" /\ v_messages[y].role = "assistant"
      BY <1>0 DEF SavedInOrder
    <3> QED
      BY <2>2, <3>3, <3>4, <3>5, <3>6
  <2>4. i > 1 => g[i-1].at < g[i].at
    <3> HAVE i > 1
    <3>1. time[n + 2 - i] < time[n + 1 - i] /\ i - 1 \in 1 .. n /\ n + 1 - (i - 1) = n + 2 - i
      BY <1>2, <1>8, <1>11 DEF FirstPairs
    <3> QED
      BY <1>10, <3>1
  <2> QED
    BY <2>1, <2>2, <2>3, <2>4
<1>12. WholePairs(g)
  BY <1>9, <1>11 DEF WholePairs
<1>13. ASSUME NEW i \in Talks!Live(c)
       PROVE  Contains(g, v_messages[i]) \/ (Len(g) = Limit /\ v_messages[i].at < g[1].at)
  <2>1. PICK k \in 1 .. N : s[k] = i
    BY <1>3
  <2>2. CASE k <= n
    <3>1. n + 1 - k \in 1 .. n /\ n + 1 - (n + 1 - k) = k
      BY <1>2, <2>2
    <3>2. g[n + 1 - k] = v_messages[i]
      BY <1>10, <2>1, <3>1
    <3> QED
      BY <1>9, <3>1, <3>2 DEF Contains
  <2>3. CASE k > n
    <3>1. n = Limit /\ n > 0 /\ time[k] < time[n]
      BY <1>8, <2>3 DEF FirstPairs
    <3>2. 1 \in 1 .. n /\ n + 1 - 1 = n
      BY <1>2, <3>1
    <3>3. g[1].at = time[n] /\ v_messages[i].at = time[k]
      BY <1>7, <1>10, <2>1, <3>2
    <3> QED
      BY <1>9, <3>1, <3>3
  <2> QED
    BY <1>2, <1>3, <2>2, <2>3
<1> QED
  BY <1>12, <1>13 DEF Newest

LEMMA TalkNames == None \notin Convs /\ None # "live" /\ None # "deleted" /\ Limit \in Nat
BY ServicesAssumption DEF Talks!ConversationsAssumption

LEMMA TalkTypes ==
  ASSUME TalkKinds
  PROVE  /\ conv \in [Convs -> {None, "live", "deleted"}]
         /\ \A i \in DOMAIN v_messages : conv[v_messages[i].conv] # None
         /\ \A t \in Exchanges : Len(turn[t].history) <= Limit
         /\ now \in Nat /\ v_messages \in Seq(SaidRow) /\ turn \in [Exchanges -> Asked]
         /\ Len(v_messages) \in Nat /\ DOMAIN v_messages = 1 .. Len(v_messages)
         /\ \A i \in DOMAIN v_messages :
              /\ v_messages[i] \in SaidRow /\ i \in Nat /\ v_messages[i].at \in Nat
              /\ v_messages[i].turn \in Exchanges /\ v_messages[i].conv \in Convs
              /\ v_messages[i].deleted \in BOOLEAN
         /\ \A t \in Exchanges :
              /\ turn[t] \in Asked
              /\ turn[t].at # "waiting" => turn[t].conv \in Convs /\ conv[turn[t].conv] # None
<1>1. v_messages \in Seq(SaidRow) /\ turn \in [Exchanges -> Asked] /\ now \in Nat /\ Talks!TypeOK
  BY DEF TalkKinds
<1>2. Len(v_messages) \in Nat /\ DOMAIN v_messages = 1 .. Len(v_messages)
  BY <1>1
<1>3. \A i \in DOMAIN v_messages : v_messages[i] \in SaidRow /\ i \in Nat
  BY <1>1
<1>4. \A m \in SaidRow : m.at \in Nat /\ m.turn \in Exchanges /\ m.conv \in Convs /\ m.deleted \in BOOLEAN
  BY DEF SaidRow
<1>5. \A t \in Exchanges :
        /\ turn[t] \in Asked
        /\ turn[t].at # "waiting" => turn[t].conv \in Convs /\ conv[turn[t].conv] # None
  BY <1>1 DEF TalkKinds
<1>6. /\ conv \in [Convs -> {None, "live", "deleted"}]
      /\ \A i \in DOMAIN v_messages : conv[v_messages[i].conv] # None
      /\ \A t \in Exchanges : Len(turn[t].history) <= Limit
  BY <1>1, <1>2 DEF Talks!TypeOK
<1> QED
  BY <1>1, <1>2, <1>3, <1>4, <1>5, <1>6

\* What a save does: one more message of a turn under way, which goes on.
SavedAs(t, r) ==
  \/ Talks!SaveQuestion(t) /\ r = "user"
  \/ Talks!SaveAnswer(t) /\ r = "assistant"

LEMMA Appended ==
  ASSUME NEW S, NEW w \in Seq(S), NEW m \in S
  PROVE  /\ Append(w, m) \in Seq(S) /\ DOMAIN Append(w, m) = DOMAIN w \cup {Len(w) + 1}
         /\ Len(w) + 1 \in Nat /\ Len(w) + 1 \notin DOMAIN w
         /\ \A i \in DOMAIN w : i \in Nat /\ i < Len(w) + 1 /\ Append(w, m)[i] = w[i]
         /\ Append(w, m)[Len(w) + 1] = m
<1>1. Len(w) \in Nat /\ DOMAIN w = 1 .. Len(w) /\ Len(Append(w, m)) = Len(w) + 1
  OBVIOUS
<1>2. DOMAIN Append(w, m) = 1 .. Len(w) + 1
  BY <1>1
<1> QED
  BY <1>1, <1>2

LEMMA SaveFacts ==
  ASSUME TalkKinds, NEW t \in Exchanges, NEW r, SavedAs(t, r)
  PROVE  LET k == Len(v_messages) + 1 IN
         /\ turn[t].at = (IF r = "user" THEN "thinking" ELSE "asked") /\ r \in {"user", "assistant"}
         /\ turn[t].conv \in Convs /\ conv[turn[t].conv] # None
         /\ v_messages' \in Seq(SaidRow) /\ DOMAIN v_messages' = DOMAIN v_messages \cup {k}
         /\ k \in Nat /\ k \notin DOMAIN v_messages
         /\ \A i \in DOMAIN v_messages : i \in Nat /\ i < k /\ v_messages'[i] = v_messages[i]
         /\ v_messages'[k].turn = t /\ v_messages'[k].conv = turn[t].conv
         /\ v_messages'[k].role = r /\ v_messages'[k].at = now /\ ~v_messages'[k].deleted
         /\ turn' \in [Exchanges -> Asked]
         /\ \A u \in Exchanges : turn'[u].conv = turn[u].conv /\ turn'[u].history = turn[u].history
         /\ \A u \in Exchanges : u # t => turn'[u] = turn[u]
         /\ turn'[t].at = (IF r = "user" THEN "asked" ELSE "done")
         /\ now' = now /\ conv' = conv /\ late' = late /\ uneven' = uneven
<1> DEFINE m == Talks!Message(t, r)
<1>1. v_messages \in Seq(SaidRow) /\ turn \in [Exchanges -> Asked] /\ now \in Nat
  BY TalkTypes
<1>2. /\ r \in {"user", "assistant"}
      /\ turn[t].at = (IF r = "user" THEN "thinking" ELSE "asked")
      /\ v_messages' = Append(v_messages, m)
      /\ turn' = [turn EXCEPT ![t].at = IF r = "user" THEN "asked" ELSE "done"]
      /\ now' = now /\ conv' = conv /\ late' = late /\ uneven' = uneven
  BY DEF SavedAs, Talks!SaveQuestion, Talks!SaveAnswer
<1>3. turn[t].conv \in Convs /\ conv[turn[t].conv] # None
  BY <1>2, TalkTypes
<1>4. /\ m \in SaidRow
      /\ m.turn = t /\ m.conv = turn[t].conv /\ m.role = r /\ m.at = now /\ ~m.deleted
  BY <1>1, <1>2, <1>3 DEF Talks!Message, SaidRow
<1> HIDE DEF m
<1>5. /\ turn' \in [Exchanges -> Asked]
      /\ \A u \in Exchanges : turn'[u].conv = turn[u].conv /\ turn'[u].history = turn[u].history
      /\ \A u \in Exchanges : u # t => turn'[u] = turn[u]
      /\ turn'[t].at = (IF r = "user" THEN "asked" ELSE "done")
  BY <1>1, <1>2 DEF Asked
<1>6. /\ v_messages' \in Seq(SaidRow) /\ DOMAIN v_messages' = DOMAIN v_messages \cup {Len(v_messages) + 1}
      /\ Len(v_messages) + 1 \in Nat /\ Len(v_messages) + 1 \notin DOMAIN v_messages
      /\ \A i \in DOMAIN v_messages :
           i \in Nat /\ i < Len(v_messages) + 1 /\ v_messages'[i] = v_messages[i]
      /\ v_messages'[Len(v_messages) + 1] = m
  BY <1>1, <1>2, <1>4, Appended
<1> QED
  BY <1>2, <1>3, <1>4, <1>5, <1>6

LEMMA MarkFacts ==
  ASSUME TalkKinds, NEW marked, Talks!Mark(marked)
  PROVE  /\ v_messages' \in Seq(SaidRow) /\ DOMAIN v_messages' = DOMAIN v_messages
         /\ Len(v_messages') = Len(v_messages)
         /\ \A i \in DOMAIN v_messages :
              /\ v_messages'[i].turn = v_messages[i].turn /\ v_messages'[i].conv = v_messages[i].conv
              /\ v_messages'[i].role = v_messages[i].role /\ v_messages'[i].at = v_messages[i].at
              /\ v_messages'[i].deleted <=> v_messages[i].deleted \/ i \in marked
              /\ i \notin marked => v_messages'[i] = v_messages[i]
<1>1. /\ v_messages \in Seq(SaidRow) /\ Len(v_messages) \in Nat
      /\ DOMAIN v_messages = 1 .. Len(v_messages)
      /\ \A i \in DOMAIN v_messages : v_messages[i] \in SaidRow
  BY TalkTypes
<1>2. v_messages' = [i \in 1 .. Len(v_messages) |->
                       IF i \in marked THEN [v_messages[i] EXCEPT !.deleted = TRUE] ELSE v_messages[i]]
  BY DEF Talks!Mark
<1>3. \A m \in SaidRow : LET d == [m EXCEPT !.deleted = TRUE] IN
        d \in SaidRow /\ d.turn = m.turn /\ d.conv = m.conv /\ d.role = m.role /\ d.at = m.at /\ d.deleted
  BY DEF SaidRow
<1>4. \A i \in 1 .. Len(v_messages) : v_messages'[i] \in SaidRow
  BY <1>1, <1>2, <1>3
<1>5. v_messages' \in Seq(SaidRow) /\ DOMAIN v_messages' = 1 .. Len(v_messages)
      /\ Len(v_messages') = Len(v_messages)
  BY <1>1, <1>2, <1>4
<1>6. ASSUME NEW i \in DOMAIN v_messages
      PROVE  /\ v_messages'[i].turn = v_messages[i].turn /\ v_messages'[i].conv = v_messages[i].conv
             /\ v_messages'[i].role = v_messages[i].role /\ v_messages'[i].at = v_messages[i].at
             /\ v_messages'[i].deleted <=> v_messages[i].deleted \/ i \in marked
             /\ i \notin marked => v_messages'[i] = v_messages[i]
  <2>1. CASE i \in marked
    <3>1. v_messages'[i] = [v_messages[i] EXCEPT !.deleted = TRUE]
      BY <1>1, <1>2, <2>1
    <3> QED
      BY <1>1, <1>3, <2>1, <3>1
  <2>2. CASE i \notin marked
    BY <1>1, <1>2, <2>2
  <2> QED
    BY <2>1, <2>2
<1> QED
  BY <1>1, <1>5, <1>6

\* A history promises this to its turn, apart from the others.
HistoryOf(t) ==
  turn[t].conv \notin uneven \cup late /\ ~Talks!Shared(v_messages) =>
    /\ WholePairs(turn[t].history)
    /\ turn[t].at = "thinking" => Newest(turn[t].history, turn[t].conv)
LEMMA HistoryPerTurn ==
  /\ Talks!HistoryIsWhole <=> \A t \in Exchanges : HistoryOf(t)
  /\ Talks!HistoryIsWhole' <=> \A t \in Exchanges : HistoryOf(t)'
<1>1. Talks!HistoryIsWhole <=> \A t \in Exchanges : HistoryOf(t)
  BY DEF Talks!HistoryIsWhole, HistoryOf, WholePairs, Newest, Talks!Contains, Contains
<1>2. Talks!HistoryIsWhole' <=> \A t \in Exchanges : HistoryOf(t)'
  BY DEF Talks!HistoryIsWhole, HistoryOf, WholePairs, Newest, Talks!Contains, Contains
<1> QED
  BY <1>1, <1>2

\* Where the rows of a conversation stay as they are, so does what is live in it, and what the
\* history of a turn that thinks in it promises.
RowsStay(c) ==
  /\ \A i \in DOMAIN v_messages' \ DOMAIN v_messages : v_messages'[i].conv # c
  /\ \A i \in DOMAIN v_messages : i \in DOMAIN v_messages' /\ v_messages'[i].conv = v_messages[i].conv
  /\ \A i \in DOMAIN v_messages : v_messages[i].conv = c => v_messages'[i] = v_messages[i]

LEMMA SeqDomain == ASSUME NEW S, NEW w \in Seq(S) PROVE DOMAIN w = 1 .. Len(w) /\ Len(w) \in Nat
OBVIOUS

LEMMA SameRows ==
  ASSUME NEW c, v_messages \in Seq(SaidRow), v_messages' \in Seq(SaidRow), RowsStay(c)
  PROVE  /\ {i \in 1 .. Len(v_messages') : v_messages'[i].conv = c /\ ~v_messages'[i].deleted}
              = Talks!Live(c)
         /\ Talks!Live(c)' = Talks!Live(c)
         /\ \A i \in Talks!Live(c) : v_messages'[i] = v_messages[i]
<1>1. DOMAIN v_messages = 1 .. Len(v_messages) /\ DOMAIN v_messages' = 1 .. Len(v_messages')
  BY SeqDomain
<1>2. {i \in 1 .. Len(v_messages') : v_messages'[i].conv = c /\ ~v_messages'[i].deleted} = Talks!Live(c)
  BY <1>1 DEF RowsStay, Talks!Live
<1> QED
  BY <1>1, <1>2 DEF RowsStay, Talks!Live

LEMMA NewestKept ==
  ASSUME NEW u \in Exchanges, turn'[u] = turn[u], v_messages \in Seq(SaidRow), v_messages' \in Seq(SaidRow),
         RowsStay(turn[u].conv), Newest(turn[u].history, turn[u].conv)
  PROVE  Newest(turn[u].history, turn[u].conv)'
<1> DEFINE c == turn[u].conv
           g == turn[u].history
<1>1. /\ {i \in 1 .. Len(v_messages') : v_messages'[i].conv = c /\ ~v_messages'[i].deleted}
           = Talks!Live(c)
      /\ \A i \in Talks!Live(c) : v_messages'[i] = v_messages[i]
  BY SameRows
<1>2. turn'[u].conv = c /\ turn'[u].history = g
  OBVIOUS
<1>3. \A i \in Talks!Live(c) :
        Contains(g, v_messages[i]) \/ (Len(g) = Limit /\ v_messages[i].at < g[1].at)
  BY DEF Newest
<1> HIDE DEF c, g
<1>4. Newest(turn[u].history, turn[u].conv)' <=>
        \A i \in {i \in 1 .. Len(v_messages') : v_messages'[i].conv = c /\ ~v_messages'[i].deleted} :
          Contains(g, v_messages'[i]) \/ (Len(g) = Limit /\ v_messages'[i].at < g[1].at)
  BY <1>2 DEF Newest, Talks!Live, Contains
<1> QED
  BY <1>1, <1>3, <1>4

LEMMA PairsKept ==
  ASSUME NEW u \in Exchanges, turn'[u].history = turn[u].history, WholePairs(turn[u].history)
  PROVE  WholePairs(turn[u].history)'
BY DEF WholePairs

\* Saving a question or an answer.
LEMMA SaveKinds ==
  ASSUME TalkInv, NEW t \in Exchanges, NEW r, SavedAs(t, r)
  PROVE  (TalkKinds /\ TimeGoesOn)'
<1>1. TalkKinds /\ TimeGoesOn
  BY DEF TalkInv
<1> DEFINE k == Len(v_messages) + 1
<1>2. /\ turn[t].at # "waiting" /\ turn[t].conv \in Convs /\ conv[turn[t].conv] # None
      /\ v_messages' \in Seq(SaidRow) /\ DOMAIN v_messages' = DOMAIN v_messages \cup {k}
      /\ k \in Nat /\ k \notin DOMAIN v_messages
      /\ \A i \in DOMAIN v_messages : i \in Nat /\ i < k /\ v_messages'[i] = v_messages[i]
      /\ v_messages'[k].conv = turn[t].conv /\ v_messages'[k].at = now
      /\ turn' \in [Exchanges -> Asked]
      /\ \A u \in Exchanges : turn'[u].conv = turn[u].conv /\ turn'[u].history = turn[u].history
      /\ \A u \in Exchanges : u # t => turn'[u] = turn[u]
      /\ turn'[t].at # "waiting"
      /\ now' = now /\ conv' = conv
  BY <1>1, SaveFacts
<1> HIDE DEF k
<1>3. Talks!TypeOK'
  <2>1. DOMAIN v_messages' = 1 .. Len(v_messages')
    BY <1>2, SeqDomain
  <2>2. \A i \in DOMAIN v_messages' : conv'[v_messages'[i].conv] # None
    BY <1>1, <1>2, TalkTypes
  <2>3. \A u \in Exchanges : Len(turn'[u].history) <= Limit
    BY <1>1, <1>2, TalkTypes
  <2>4. conv' \in [Convs -> {None, "live", "deleted"}]
    BY <1>1, <1>2, TalkTypes
  <2> QED
    BY <2>1, <2>2, <2>3, <2>4 DEF Talks!TypeOK
<1>4. \A u \in Exchanges :
        IF turn'[u].at = "waiting" THEN turn'[u] = Talks!Waiting
        ELSE turn'[u].conv \in Convs /\ conv'[turn'[u].conv] # None
  <2> TAKE u \in Exchanges
  <2>1. CASE u = t
    BY <1>2, <2>1
  <2>2. CASE u # t
    BY <1>1, <1>2, <2>2 DEF TalkKinds
  <2> QED
    BY <2>1, <2>2
<1>5. TalkKinds'
  <2>1. Talks!Waiting' = Talks!Waiting
    BY DEF Talks!Waiting
  <2>2. now' \in Nat
    BY <1>1, <1>2, TalkTypes
  <2> QED
    BY <1>2, <1>3, <1>4, <2>1, <2>2 DEF TalkKinds
<1>6. TimeGoesOn'
  <2>1. now \in Nat /\ \A i \in DOMAIN v_messages : v_messages[i].at \in Nat
    BY <1>1, TalkTypes
  <2>2. \A i \in DOMAIN v_messages' : v_messages'[i].at <= now'
    BY <1>1, <1>2, <2>1 DEF TimeGoesOn
  <2>3. ASSUME NEW i \in DOMAIN v_messages', NEW j \in DOMAIN v_messages', i < j
        PROVE  v_messages'[i].at <= v_messages'[j].at
    <3>1. CASE j = k
      BY <1>2, <2>2, <3>1
    <3>2. CASE j # k
      <4>1. j \in DOMAIN v_messages /\ i # k
        BY <1>2, <2>3, <3>2
      <4> QED
        BY <1>1, <1>2, <2>3, <4>1 DEF TimeGoesOn
    <3> QED
      BY <3>1, <3>2
  <2> QED
    BY <2>2, <2>3 DEF TimeGoesOn
<1> QED
  BY <1>5, <1>6

LEMMA SaveKeepsOrder ==
  ASSUME TalkInv, NEW t \in Exchanges, NEW r, SavedAs(t, r)
  PROVE  SavedInOrder'
<1>1. TalkKinds /\ SavedInOrder
  BY DEF TalkInv
<1> DEFINE k == Len(v_messages) + 1
<1>2. /\ turn[t].at = (IF r = "user" THEN "thinking" ELSE "asked") /\ r \in {"user", "assistant"}
      /\ DOMAIN v_messages' = DOMAIN v_messages \cup {k}
      /\ k \in Nat /\ k \notin DOMAIN v_messages
      /\ \A i \in DOMAIN v_messages : i \in Nat /\ i < k /\ v_messages'[i] = v_messages[i]
      /\ v_messages'[k].turn = t /\ v_messages'[k].conv = turn[t].conv /\ v_messages'[k].role = r
      /\ \A u \in Exchanges : turn'[u].conv = turn[u].conv
      /\ \A u \in Exchanges : u # t => turn'[u] = turn[u]
      /\ turn'[t].at = (IF r = "user" THEN "asked" ELSE "done")
  BY <1>1, SaveFacts
<1>3. \A i \in DOMAIN v_messages : v_messages[i].turn \in Exchanges
  BY <1>1, TalkTypes
<1> HIDE DEF k
<1>4. \A i \in DOMAIN v_messages : v_messages[i].turn = t =>
        r = "assistant" /\ v_messages[i].role = "user"
  BY <1>1, <1>2 DEF SavedInOrder
<1>5. ASSUME NEW i \in DOMAIN v_messages'
      PROVE  LET u == v_messages'[i].turn IN
             /\ turn'[u].conv = v_messages'[i].conv
             /\ turn'[u].at = "done" \/ (turn'[u].at = "asked" /\ v_messages'[i].role = "user")
  <2>1. CASE i = k
    BY <1>2, <2>1
  <2>2. CASE i # k /\ v_messages[i].turn = t
    <3>1. i \in DOMAIN v_messages
      BY <1>2, <2>2
    <3> QED
      BY <1>1, <1>2, <1>4, <2>2, <3>1 DEF SavedInOrder
  <2>3. CASE i # k /\ v_messages[i].turn # t
    <3>1. i \in DOMAIN v_messages
      BY <1>2, <2>3
    <3> QED
      BY <1>1, <1>2, <1>3, <2>3, <3>1 DEF SavedInOrder
  <2> QED
    BY <2>1, <2>2, <2>3
<1>6. ASSUME NEW i \in DOMAIN v_messages', NEW j \in DOMAIN v_messages',
             i < j, v_messages'[i].turn = v_messages'[j].turn
      PROVE  v_messages'[i].role = "user" /\ v_messages'[j].role = "assistant"
  <2>1. CASE j = k
    <3>1. i \in DOMAIN v_messages
      BY <1>2, <1>6, <2>1
    <3> QED
      BY <1>2, <1>4, <1>6, <2>1, <3>1
  <2>2. CASE j # k
    <3>1. j \in DOMAIN v_messages
      BY <1>2, <2>2
    <3>2. i \in DOMAIN v_messages
      BY <1>2, <1>6, <3>1
    <3> QED
      BY <1>1, <1>2, <1>6, <3>1, <3>2 DEF SavedInOrder
  <2> QED
    BY <2>1, <2>2
<1>7. ASSUME NEW u \in Exchanges, turn'[u].at = "asked"
      PROVE  \E i \in DOMAIN v_messages' : v_messages'[i].turn = u
  <2>1. CASE u = t
    BY <1>2, <2>1
  <2>2. CASE u # t
    BY <1>1, <1>2, <1>7, <2>2 DEF SavedInOrder
  <2> QED
    BY <2>1, <2>2
<1> QED
  BY <1>5, <1>6, <1>7 DEF SavedInOrder

LEMMA SaveKeepsEven ==
  ASSUME TalkInv, NEW t \in Exchanges, NEW r, SavedAs(t, r)
  PROVE  Even'
<1>1. TalkKinds /\ SavedInOrder /\ Even
  BY DEF TalkInv
<1> DEFINE k == Len(v_messages) + 1
<1>2. /\ turn[t].at = (IF r = "user" THEN "thinking" ELSE "asked")
      /\ DOMAIN v_messages' = DOMAIN v_messages \cup {k}
      /\ k \in Nat /\ k \notin DOMAIN v_messages
      /\ \A i \in DOMAIN v_messages : i \in Nat /\ i < k /\ v_messages'[i] = v_messages[i]
      /\ v_messages'[k].turn = t /\ v_messages'[k].conv = turn[t].conv /\ v_messages'[k].role = r
      /\ \A u \in Exchanges : turn'[u].conv = turn[u].conv
      /\ \A u \in Exchanges : u # t => turn'[u] = turn[u]
      /\ turn'[t].at = (IF r = "user" THEN "asked" ELSE "done")
      /\ uneven' = uneven
  BY <1>1, SaveFacts
<1>3. \A i \in DOMAIN v_messages : v_messages[i].turn \in Exchanges
  BY <1>1, TalkTypes
<1> HIDE DEF k
<1>4. \A u \in Exchanges : turn[u].at = "done" => u # t /\ turn'[u] = turn[u]
  BY <1>2
<1>5. \A d : \A u \in Exchanges : Talks!Busy(u, d)' => Talks!Busy(u, d)
  BY <1>2 DEF Talks!Busy
<1>6. ASSUME NEW d \in Convs \ uneven' PROVE (OneTurn(d) /\ BothSaved(d) /\ NoneBetween(d))'
  <2>1. OneTurn(d) /\ BothSaved(d) /\ NoneBetween(d)
    BY <1>1, <1>2 DEF Even
  <2>2. OneTurn(d)'
    BY <1>5, <2>1 DEF OneTurn
  <2>3. ASSUME NEW i \in DOMAIN v_messages', v_messages'[i].conv = d,
               turn'[v_messages'[i].turn].at = "done"
        PROVE  \E j \in DOMAIN v_messages' : j # i /\ v_messages'[j].turn = v_messages'[i].turn
    <3>1. CASE i = k
      <4>1. turn[t].at = "asked"
        BY <1>2, <2>3, <3>1
      <4>2. PICK j \in DOMAIN v_messages : v_messages[j].turn = t
        BY <1>1, <4>1 DEF SavedInOrder
      <4> QED
        BY <1>2, <3>1, <4>2
    <3>2. CASE i # k /\ v_messages[i].turn = t
      BY <1>2, <3>2
    <3>3. CASE i # k /\ v_messages[i].turn # t
      <4>1. i \in DOMAIN v_messages /\ v_messages'[i] = v_messages[i]
        BY <1>2, <3>3
      <4>2. turn[v_messages[i].turn].at = "done" /\ v_messages[i].conv = d
        BY <1>2, <1>3, <2>3, <3>3, <4>1
      <4>3. PICK j \in DOMAIN v_messages : j # i /\ v_messages[j].turn = v_messages[i].turn
        BY <2>1, <4>1, <4>2 DEF BothSaved
      <4> QED
        BY <1>2, <4>1, <4>3
    <3> QED
      BY <3>1, <3>2, <3>3
  <2>4. ASSUME NEW i \in DOMAIN v_messages', NEW j \in DOMAIN v_messages', i < j,
               v_messages'[i].conv = d, v_messages'[j].conv = d,
               v_messages'[i].turn # v_messages'[j].turn
        PROVE  /\ turn'[v_messages'[i].turn].at = "done"
               /\ \A l \in DOMAIN v_messages' : j < l => v_messages'[l].turn # v_messages'[i].turn
    <3>1. i \in DOMAIN v_messages /\ v_messages'[i] = v_messages[i]
      BY <1>2, <2>4
    <3> DEFINE u == v_messages[i].turn
    <3>2. turn[u].at = "done"
      <4>1. CASE j = k
        <5>1. turn[u].conv = d /\ (turn[u].at = "done" \/ turn[u].at = "asked") /\ u \in Exchanges
          BY <1>1, <1>3, <2>4, <3>1 DEF SavedInOrder
        <5>2. Talks!Busy(t, d) /\ u # t
          BY <1>2, <2>4, <3>1, <4>1 DEF Talks!Busy
        <5>3. ~Talks!Busy(u, d)
          BY <2>1, <5>1, <5>2 DEF OneTurn
        <5> QED
          BY <5>1, <5>3 DEF Talks!Busy
      <4>2. CASE j # k
        <5>1. j \in DOMAIN v_messages /\ v_messages'[j] = v_messages[j]
          BY <1>2, <4>2
        <5> QED
          BY <2>1, <2>4, <3>1, <5>1 DEF NoneBetween
      <4> QED
        BY <4>1, <4>2
    <3>3. u \in Exchanges /\ u # t /\ turn'[u].at = "done"
      BY <1>3, <1>4, <3>1, <3>2
    <3>4. ASSUME NEW l \in DOMAIN v_messages', j < l PROVE v_messages'[l].turn # u
      <4>1. CASE l = k
        BY <1>2, <3>3, <4>1
      <4>2. CASE l # k
        <5>1. l \in DOMAIN v_messages /\ v_messages'[l] = v_messages[l]
          BY <1>2, <4>2
        <5>2. j \in DOMAIN v_messages /\ v_messages'[j] = v_messages[j]
          BY <1>2, <3>4, <5>1
        <5> QED
          BY <2>1, <2>4, <3>1, <3>4, <5>1, <5>2 DEF NoneBetween
      <4> QED
        BY <4>1, <4>2
    <3> QED
      BY <3>1, <3>3, <3>4
  <2> QED
    BY <2>2, <2>3, <2>4 DEF BothSaved, NoneBetween
<1> QED
  BY <1>6 DEF Even

LEMMA SaveKeepsShown ==
  ASSUME TalkInv, NEW t \in Exchanges, NEW r, SavedAs(t, r)
  PROVE  (ShownWhole /\ Talks!HistoryIsWhole)'
<1>1. TalkKinds /\ ShownWhole /\ Even /\ Talks!HistoryIsWhole
  BY DEF TalkInv
<1> DEFINE k == Len(v_messages) + 1
           c == turn[t].conv
<1>2. /\ turn[t].at = (IF r = "user" THEN "thinking" ELSE "asked") /\ c \in Convs
      /\ v_messages' \in Seq(SaidRow) /\ DOMAIN v_messages' = DOMAIN v_messages \cup {k}
      /\ k \in Nat /\ k \notin DOMAIN v_messages
      /\ \A i \in DOMAIN v_messages : i \in Nat /\ i < k /\ v_messages'[i] = v_messages[i]
      /\ v_messages'[k].turn = t /\ v_messages'[k].conv = c /\ ~v_messages'[k].deleted
      /\ \A u \in Exchanges : turn'[u].conv = turn[u].conv /\ turn'[u].history = turn[u].history
      /\ \A u \in Exchanges : u # t => turn'[u] = turn[u]
      /\ turn'[t].at = (IF r = "user" THEN "asked" ELSE "done")
      /\ conv' = conv /\ late' = late /\ uneven' = uneven
  BY <1>1, SaveFacts
<1>3. /\ v_messages \in Seq(SaidRow)
      /\ DOMAIN v_messages = 1 .. Len(v_messages) /\ DOMAIN v_messages' = 1 .. Len(v_messages')
  BY <1>1, <1>2, TalkTypes, SeqDomain
<1> HIDE DEF k
<1>4. Talks!Busy(t, c)
  BY <1>2 DEF Talks!Busy
<1> HIDE DEF c
<1>5. \A d : \A u \in Exchanges : Talks!Busy(u, d)' => Talks!Busy(u, d)
  BY <1>2 DEF Talks!Busy
<1>6. \A d : d # c => RowsStay(d)
  BY <1>2 DEF RowsStay
<1>7. ShownWhole'
  <2>1. \A i \in DOMAIN v_messages' : LET d == v_messages'[i].conv IN
          d \notin uneven' \cup late' /\ conv'[d] = "live" => ~v_messages'[i].deleted
    BY <1>1, <1>2 DEF ShownWhole
  <2>2. ASSUME NEW d \in Convs \ late', conv'[d] = "deleted"
        PROVE  Talks!Live(d)' = {} /\ ~Talks!Occupied(d)'
    <3>1. Talks!Live(d) = {} /\ ~Talks!Occupied(d)
      BY <1>1, <1>2, <2>2 DEF ShownWhole
    <3>2. d # c
      BY <1>4, <3>1 DEF Talks!Occupied
    <3>3. Talks!Live(d)' = Talks!Live(d)
      BY <1>2, <1>3, <1>6, <3>2, SameRows
    <3> QED
      BY <1>5, <3>1, <3>3 DEF Talks!Occupied
  <2> QED
    BY <2>1, <2>2 DEF ShownWhole
<1>8. Talks!Shared(v_messages) => Talks!Shared(v_messages')
  BY <1>2, <1>3 DEF Talks!Shared
<1>9. ASSUME NEW u \in Exchanges, HistoryOf(u) PROVE HistoryOf(u)'
  <2> SUFFICES ASSUME turn'[u].conv \notin uneven' \cup late', ~Talks!Shared(v_messages')
               PROVE  /\ WholePairs(turn[u].history)'
                      /\ turn'[u].at = "thinking" => Newest(turn[u].history, turn[u].conv)'
    BY DEF HistoryOf, Talks!Shared
  <2>1. /\ WholePairs(turn[u].history)
        /\ turn[u].at = "thinking" => Newest(turn[u].history, turn[u].conv)
    BY <1>2, <1>8, <1>9 DEF HistoryOf
  <2>2. WholePairs(turn[u].history)'
    BY <1>2, <2>1, PairsKept
  <2>3. ASSUME turn'[u].at = "thinking" PROVE Newest(turn[u].history, turn[u].conv)'
    <3>1. u # t /\ turn'[u] = turn[u] /\ turn[u].at = "thinking"
      BY <1>2, <2>3
    <3>2. turn[u].conv # c
      <4>1. Talks!Busy(u, turn[u].conv)
        BY <3>1 DEF Talks!Busy
      <4>2. c \notin uneven => OneTurn(c)
        BY <1>1, <1>2 DEF Even
      <4> QED
        BY <1>2, <1>4, <3>1, <4>1, <4>2 DEF OneTurn
    <3> QED
      BY <1>2, <1>3, <1>6, <2>1, <3>1, <3>2, NewestKept
  <2> QED
    BY <2>2, <2>3
<1>10. Talks!HistoryIsWhole'
  BY <1>1, <1>9, HistoryPerTurn
<1> QED
  BY <1>7, <1>10

\* Where the messages stay as they are and a conversation only comes to be, order and evenness
\* stay for the turns that stay.
LEMMA BeginFacts ==
  ASSUME TalkInv, NEW t \in Exchanges, NEW c \in Convs, Talks!Begin(t, c) \/ Talks!BeginNew(t, c)
  PROVE  /\ turn[t].at = "waiting" /\ turn[t] = Talks!Waiting
         /\ v_messages' = v_messages /\ now' = now
         /\ conv' \in [Convs -> {None, "live", "deleted"}] /\ conv'[c] # None
         /\ \A d \in Convs : d # c => conv'[d] = conv[d]
         /\ conv[c] # None => conv'[c] = conv[c]
         /\ uneven' = IF Talks!Occupied(c) THEN uneven \cup {c} ELSE uneven
         /\ late' = IF conv[c] = "deleted" THEN late \cup {c} ELSE late
         /\ turn' \in [Exchanges -> Asked] /\ turn'[t].at = "thinking" /\ turn'[t].conv = c
         /\ Len(turn'[t].history) <= Limit
         /\ \A u \in Exchanges : u # t => turn'[u] = turn[u]
         /\ \A i \in DOMAIN v_messages : v_messages[i].turn # t
<1>1. TalkKinds /\ SavedInOrder
  BY DEF TalkInv
<1>2. turn[t].at = "waiting" /\ turn[t] = Talks!Waiting
  BY <1>1 DEF Talks!Begin, Talks!BeginNew, TalkKinds
<1>3. v_messages' = v_messages /\ now' = now
  BY DEF Talks!Begin, Talks!BeginNew
<1>4. \A i \in DOMAIN v_messages : v_messages[i].turn # t
  BY <1>1, <1>2 DEF SavedInOrder
<1>5. conv \in [Convs -> {None, "live", "deleted"}] /\ turn \in [Exchanges -> Asked]
  BY <1>1, TalkTypes
<1>6. CASE Talks!Begin(t, c)
  <2>1. /\ conv' = conv /\ conv[c] # None
        /\ uneven' = IF Talks!Occupied(c) THEN uneven \cup {c} ELSE uneven
        /\ late' = IF conv[c] = "deleted" THEN late \cup {c} ELSE late
    BY <1>6 DEF Talks!Begin
  <2>2. PICK h \in Talks!Histories(c) :
          turn' = [turn EXCEPT ![t] = [at |-> "thinking", conv |-> c,
                                       history |-> [i \in 1 .. Len(h) |-> v_messages[h[i]]]]]
    BY <1>6 DEF Talks!Begin
  <2> DEFINE g == [i \in 1 .. Len(h) |-> v_messages[h[i]]]
  <2>3. g \in Seq(SaidRow) /\ Len(g) <= Limit
    BY <1>1, HistoryFits
  <2> HIDE DEF g
  <2>4. turn' = [turn EXCEPT ![t] = [at |-> "thinking", conv |-> c, history |-> g]]
    BY <2>2 DEF g
  <2>5. [at |-> "thinking", conv |-> c, history |-> g] \in Asked
    BY <2>3 DEF Asked
  <2>6. /\ turn' \in [Exchanges -> Asked]
        /\ turn'[t].at = "thinking" /\ turn'[t].conv = c /\ turn'[t].history = g
        /\ \A u \in Exchanges : u # t => turn'[u] = turn[u]
    BY <1>5, <2>4, <2>5
  <2> QED
    BY <1>2, <1>3, <1>4, <1>5, <2>1, <2>3, <2>6
<1>7. CASE Talks!BeginNew(t, c)
  <2>1. /\ conv[c] = None /\ conv' = [conv EXCEPT ![c] = "live"]
        /\ turn' = [turn EXCEPT ![t].at = "thinking", ![t].conv = c]
        /\ late' = late /\ uneven' = uneven
    BY <1>7 DEF Talks!BeginNew
  <2>2. ~Talks!Occupied(c)
    <3>1. \A u \in Exchanges : turn[u].at # "waiting" => turn[u].conv # c
      BY <1>1, <2>1, TalkTypes
    <3> QED
      BY <3>1 DEF Talks!Occupied, Talks!Busy
  <2>3. turn[t].history = <<>>
    BY <1>2 DEF Talks!Waiting
  <2>4. /\ turn' \in [Exchanges -> Asked]
        /\ turn'[t].at = "thinking" /\ turn'[t].conv = c /\ turn'[t].history = <<>>
        /\ \A u \in Exchanges : u # t => turn'[u] = turn[u]
    BY <1>5, <2>1, <2>3 DEF Asked
  <2>5. Len(<<>>) <= Limit
    BY TalkNames
  <2>6. conv[c] # "deleted" /\ conv' \in [Convs -> {None, "live", "deleted"}] /\ conv'[c] # None
        /\ \A d \in Convs : d # c => conv'[d] = conv[d]
    BY <1>5, <2>1, TalkNames
  <2> QED
    BY <1>2, <1>3, <1>4, <2>1, <2>2, <2>4, <2>5, <2>6
<1> QED
  BY <1>6, <1>7

LEMMA BeginKeepsOrder ==
  ASSUME TalkInv, NEW t \in Exchanges, NEW c \in Convs, Talks!Begin(t, c) \/ Talks!BeginNew(t, c)
  PROVE  (TalkKinds /\ TimeGoesOn /\ SavedInOrder /\ Even)'
<1>1. TalkKinds /\ TimeGoesOn /\ SavedInOrder /\ Even
  BY DEF TalkInv
<1>2. /\ v_messages' = v_messages /\ now' = now
      /\ conv' \in [Convs -> {None, "live", "deleted"}] /\ conv'[c] # None
      /\ \A d \in Convs : d # c => conv'[d] = conv[d]
      /\ uneven' = IF Talks!Occupied(c) THEN uneven \cup {c} ELSE uneven
      /\ turn' \in [Exchanges -> Asked] /\ turn'[t].at = "thinking" /\ turn'[t].conv = c
      /\ Len(turn'[t].history) <= Limit
      /\ \A u \in Exchanges : u # t => turn'[u] = turn[u]
      /\ \A i \in DOMAIN v_messages : v_messages[i].turn # t
  BY BeginFacts
<1>3. \A d \in Convs : conv[d] # None => conv'[d] # None
  BY <1>2
<1>4. TalkKinds'
  <2>1. \A i \in DOMAIN v_messages : conv'[v_messages[i].conv] # None
    BY <1>1, <1>3, TalkTypes
  <2>2. \A u \in Exchanges : Len(turn'[u].history) <= Limit
    BY <1>1, <1>2, TalkTypes
  <2>3. DOMAIN v_messages = 1 .. Len(v_messages) /\ now \in Nat /\ v_messages \in Seq(SaidRow)
    BY <1>1, TalkTypes
  <2>4. Talks!TypeOK'
    BY <1>2, <2>1, <2>2, <2>3 DEF Talks!TypeOK
  <2>5. \A u \in Exchanges :
          IF turn'[u].at = "waiting" THEN turn'[u] = Talks!Waiting
          ELSE turn'[u].conv \in Convs /\ conv'[turn'[u].conv] # None
    <3> TAKE u \in Exchanges
    <3>1. CASE u = t
      BY <1>2, <3>1
    <3>2. CASE u # t
      BY <1>1, <1>2, <1>3, <3>2 DEF TalkKinds
    <3> QED
      BY <3>1, <3>2
  <2>6. Talks!Waiting' = Talks!Waiting
    BY DEF Talks!Waiting
  <2> QED
    BY <1>2, <2>3, <2>4, <2>5, <2>6 DEF TalkKinds
<1>5. TimeGoesOn'
  BY <1>1, <1>2 DEF TimeGoesOn
<1>6. SavedInOrder'
  <2>1. \A i \in DOMAIN v_messages : v_messages[i].turn \in Exchanges
    BY <1>1, TalkTypes
  <2>2. \A i \in DOMAIN v_messages : turn'[v_messages[i].turn] = turn[v_messages[i].turn]
    BY <1>2, <2>1
  <2>3. \A u \in Exchanges : turn'[u].at = "asked" => turn[u].at = "asked"
    BY <1>2
  <2> QED
    BY <1>1, <1>2, <2>2, <2>3 DEF SavedInOrder
<1>7. ASSUME NEW d \in Convs \ uneven' PROVE (OneTurn(d) /\ BothSaved(d) /\ NoneBetween(d))'
  <2>1. d \notin uneven /\ (d = c => ~Talks!Occupied(c))
    BY <1>2
  <2>2. OneTurn(d) /\ BothSaved(d) /\ NoneBetween(d)
    BY <1>1, <2>1 DEF Even
  <2>3. \A u \in Exchanges : Talks!Busy(u, d)' => Talks!Busy(u, d) \/ (u = t /\ d = c)
    BY <1>2 DEF Talks!Busy
  <2>4. OneTurn(d)'
    BY <2>1, <2>2, <2>3 DEF OneTurn, Talks!Occupied
  <2>5. \A i \in DOMAIN v_messages : turn'[v_messages[i].turn] = turn[v_messages[i].turn]
    BY <1>1, <1>2, TalkTypes
  <2>6. BothSaved(d)'
    BY <1>2, <2>2, <2>5 DEF BothSaved
  <2>7. NoneBetween(d)'
    BY <1>2, <2>2, <2>5 DEF NoneBetween
  <2> QED
    BY <2>4, <2>6, <2>7
<1> QED
  BY <1>4, <1>5, <1>6, <1>7 DEF Even

LEMMA BeginKeepsShown ==
  ASSUME TalkInv, NEW t \in Exchanges, NEW c \in Convs, Talks!Begin(t, c) \/ Talks!BeginNew(t, c)
  PROVE  ShownWhole'
<1>1. TalkKinds /\ ShownWhole
  BY DEF TalkInv
<1>2. /\ v_messages' = v_messages
      /\ \A d \in Convs : d # c => conv'[d] = conv[d]
      /\ conv[c] # None => conv'[c] = conv[c]
      /\ uneven' = IF Talks!Occupied(c) THEN uneven \cup {c} ELSE uneven
      /\ late' = IF conv[c] = "deleted" THEN late \cup {c} ELSE late
      /\ turn'[t].conv = c
      /\ \A u \in Exchanges : u # t => turn'[u] = turn[u]
      /\ conv[c] = None => conv'[c] = "live"
  <2>1. conv[c] = None => conv'[c] = "live"
    <3>1. conv \in [Convs -> {None, "live", "deleted"}]
      BY <1>1, TalkTypes
    <3> QED
      BY <3>1 DEF Talks!Begin, Talks!BeginNew
  <2> QED
    BY <2>1, BeginFacts
<1>3. \A i \in DOMAIN v_messages : v_messages[i].conv \in Convs /\ conv[v_messages[i].conv] # None
  BY <1>1, TalkTypes
<1>4. \A i \in DOMAIN v_messages' : LET d == v_messages'[i].conv IN
        d \notin uneven' \cup late' /\ conv'[d] = "live" => ~v_messages'[i].deleted
  BY <1>1, <1>2, <1>3 DEF ShownWhole
<1>5. ASSUME NEW d \in Convs \ late', conv'[d] = "deleted"
      PROVE  Talks!Live(d)' = {} /\ ~Talks!Occupied(d)'
  <2>1. d # c
    BY <1>2, <1>5
  <2>2. conv[d] = "deleted" /\ d \notin late
    BY <1>2, <1>5, <2>1
  <2>3. Talks!Live(d) = {} /\ ~Talks!Occupied(d)
    BY <1>1, <2>2 DEF ShownWhole
  <2> QED
    BY <1>2, <2>1, <2>3 DEF Talks!Live, Talks!Occupied, Talks!Busy
<1> QED
  BY <1>4, <1>5 DEF ShownWhole

LEMMA BeginKeepsHistory ==
  ASSUME TalkInv, NEW t \in Exchanges, NEW c \in Convs, Talks!Begin(t, c) \/ Talks!BeginNew(t, c)
  PROVE  Talks!HistoryIsWhole'
<1>1. TalkKinds /\ Talks!HistoryIsWhole
  BY DEF TalkInv
<1>2. /\ v_messages' = v_messages /\ turn[t] = Talks!Waiting
      /\ uneven' = IF Talks!Occupied(c) THEN uneven \cup {c} ELSE uneven
      /\ late' = IF conv[c] = "deleted" THEN late \cup {c} ELSE late
      /\ turn'[t].conv = c
      /\ \A u \in Exchanges : u # t => turn'[u] = turn[u]
  BY BeginFacts
<1>3. ASSUME NEW u \in Exchanges, u # t, HistoryOf(u) PROVE HistoryOf(u)'
  <2>1. uneven \cup late \subseteq uneven' \cup late'
    BY <1>2
  <2>2. turn'[u] = turn[u]
    BY <1>2, <1>3
  <2> QED
    BY <1>2, <1>3, <2>1, <2>2
       DEF HistoryOf, WholePairs, Newest, Talks!Live, Talks!Shared, Contains
<1>4. HistoryOf(t)'
  <2> SUFFICES ASSUME c \notin uneven' \cup late', ~Talks!Shared(v_messages)
               PROVE  (WholePairs(turn[t].history) /\ Newest(turn[t].history, turn[t].conv))'
    BY <1>2 DEF HistoryOf, Talks!Shared
  <2>1. conv \in [Convs -> {None, "live", "deleted"}]
    BY <1>1, TalkTypes
  <2>2. CASE Talks!Begin(t, c)
    <3>1. c \in Convs \ (uneven \cup late) /\ conv[c] = "live" /\ ~Talks!Occupied(c)
      BY <1>2, <2>1, <2>2 DEF Talks!Begin
    <3>2. PICK h \in Talks!Histories(c) :
            turn' = [turn EXCEPT ![t] = [at |-> "thinking", conv |-> c,
                                         history |-> [i \in 1 .. Len(h) |-> v_messages[h[i]]]]]
      BY <2>2 DEF Talks!Begin
    <3> DEFINE g == [i \in 1 .. Len(h) |-> v_messages[h[i]]]
    <3>3. WholePairs(g) /\ Newest(g, c)
      BY <3>1, HistoryIsLatest
    <3> HIDE DEF g
    <3>4. turn' = [turn EXCEPT ![t] = [at |-> "thinking", conv |-> c, history |-> g]]
      BY <3>2 DEF g
    <3>5. turn'[t].history = g
      <4>1. turn \in [Exchanges -> Asked]
        BY <1>1, TalkTypes
      <4> QED
        BY <3>4, <4>1
    <3>6. WholePairs(turn[t].history)'
      BY <3>3, <3>5 DEF WholePairs
    <3>7. Newest(turn[t].history, turn[t].conv)'
      BY <1>2, <3>3, <3>5 DEF Newest, Talks!Live, Contains
    <3> QED
      BY <3>6, <3>7
  <2>3. CASE Talks!BeginNew(t, c)
    <3>1. turn'[t].history = <<>>
      <4>1. turn \in [Exchanges -> Asked]
        BY <1>1, TalkTypes
      <4> QED
        BY <1>2, <2>3, <4>1 DEF Talks!BeginNew, Talks!Waiting, Asked
    <3>2. WholePairs(turn[t].history)'
      BY <3>1 DEF WholePairs
    <3>3. \A i \in DOMAIN v_messages : v_messages[i].conv # c
      BY <1>1, <2>3, TalkTypes DEF Talks!BeginNew
    <3>4. DOMAIN v_messages = 1 .. Len(v_messages)
      BY <1>1, TalkTypes
    <3>5. Newest(turn[t].history, turn[t].conv)'
      BY <1>2, <3>3, <3>4 DEF Newest, Talks!Live
    <3> QED
      BY <3>2, <3>5
  <2> QED
    BY <2>2, <2>3
<1> QED
  BY <1>1, <1>3, <1>4, HistoryPerTurn

\* Breaking off.
LEMMA BreakOffKeeps ==
  ASSUME TalkInv, NEW t \in Exchanges, Talks!BreakOff(t)
  PROVE  TalkInv'
<1>1. TalkKinds /\ TimeGoesOn /\ SavedInOrder /\ Even /\ ShownWhole /\ Talks!HistoryIsWhole
  BY DEF TalkInv
<1> DEFINE c == turn[t].conv
<1>2. /\ v_messages' = v_messages /\ now' = now /\ conv' = conv /\ late' = late
      /\ uneven' = uneven \cup {c} /\ turn' = [turn EXCEPT ![t].at = "done"]
      /\ turn[t].at \in {"thinking", "asked"}
  BY DEF Talks!BreakOff
<1>3. turn \in [Exchanges -> Asked] /\ now \in Nat /\ v_messages \in Seq(SaidRow)
      /\ DOMAIN v_messages = 1 .. Len(v_messages)
      /\ \A i \in DOMAIN v_messages : v_messages[i].turn \in Exchanges
  BY <1>1, TalkTypes
<1>4. /\ turn' \in [Exchanges -> Asked] /\ turn'[t].at = "done"
      /\ \A u \in Exchanges : turn'[u].conv = turn[u].conv /\ turn'[u].history = turn[u].history
      /\ \A u \in Exchanges : u # t => turn'[u] = turn[u]
  BY <1>2, <1>3 DEF Asked
<1>5. c \in Convs /\ conv[c] # None
  BY <1>1, <1>2, TalkTypes
<1>6. \A u \in Exchanges : turn'[u].at # "done" => u # t /\ turn'[u] = turn[u]
  BY <1>4
<1> HIDE DEF c
<1>7. TalkKinds'
  <2>1. Talks!TypeOK'
    BY <1>1, <1>2, <1>4 DEF TalkKinds, Talks!TypeOK
  <2>2. \A u \in Exchanges :
          IF turn'[u].at = "waiting" THEN turn'[u] = Talks!Waiting
          ELSE turn'[u].conv \in Convs /\ conv'[turn'[u].conv] # None
    <3> TAKE u \in Exchanges
    <3>1. CASE u = t
      BY <1>2, <1>4, <1>5, <3>1 DEF c
    <3>2. CASE u # t
      BY <1>1, <1>2, <1>4, <3>2 DEF TalkKinds
    <3> QED
      BY <3>1, <3>2
  <2>3. Talks!Waiting' = Talks!Waiting
    BY DEF Talks!Waiting
  <2> QED
    BY <1>2, <1>3, <1>4, <2>1, <2>2, <2>3 DEF TalkKinds
<1>8. TimeGoesOn'
  BY <1>1, <1>2 DEF TimeGoesOn
<1>9. SavedInOrder'
  <2>1. \A i \in DOMAIN v_messages : LET u == v_messages[i].turn IN
          /\ turn'[u].conv = v_messages[i].conv
          /\ turn'[u].at = "done" \/ (turn'[u].at = "asked" /\ v_messages[i].role = "user")
    BY <1>1, <1>3, <1>4, <1>6 DEF SavedInOrder
  <2>2. \A u \in Exchanges : turn'[u].at = "asked" => \E i \in DOMAIN v_messages : v_messages[i].turn = u
    BY <1>1, <1>6 DEF SavedInOrder
  <2> QED
    BY <1>1, <1>2, <2>1, <2>2 DEF SavedInOrder
<1>10. \A d : \A u \in Exchanges : Talks!Busy(u, d)' => Talks!Busy(u, d)
  BY <1>4, <1>6 DEF Talks!Busy
<1>11. ASSUME NEW d \in Convs \ uneven' PROVE (OneTurn(d) /\ BothSaved(d) /\ NoneBetween(d))'
  <2>1. OneTurn(d) /\ BothSaved(d) /\ NoneBetween(d) /\ d # c
    BY <1>1, <1>2 DEF Even
  <2>2. OneTurn(d)'
    BY <1>10, <2>1 DEF OneTurn
  <2>3. \A i \in DOMAIN v_messages : v_messages[i].conv = d =>
          turn'[v_messages[i].turn] = turn[v_messages[i].turn]
    BY <1>1, <1>3, <1>4, <2>1 DEF SavedInOrder, c
  <2>4. BothSaved(d)'
    <3>1. ASSUME NEW i \in DOMAIN v_messages, v_messages[i].conv = d,
                 turn'[v_messages[i].turn].at = "done"
          PROVE  \E j \in DOMAIN v_messages : j # i /\ v_messages[j].turn = v_messages[i].turn
      <4>1. turn[v_messages[i].turn].at = "done"
        BY <2>3, <3>1
      <4> QED
        BY <2>1, <3>1, <4>1 DEF BothSaved
    <3> QED
      BY <1>2, <3>1 DEF BothSaved
  <2>5. NoneBetween(d)'
    BY <1>2, <2>1, <2>3 DEF NoneBetween
  <2> QED
    BY <2>2, <2>4, <2>5
<1>12. Even'
  BY <1>11 DEF Even
<1>13. ShownWhole'
  <2>1. \A d \in Convs \ late' : conv'[d] = "deleted" => Talks!Live(d)' = {} /\ ~Talks!Occupied(d)'
    BY <1>1, <1>2, <1>10 DEF ShownWhole, Talks!Live, Talks!Occupied
  <2> QED
    BY <1>1, <1>2, <2>1 DEF ShownWhole
<1>14. ASSUME NEW u \in Exchanges, HistoryOf(u) PROVE HistoryOf(u)'
  <2>1. CASE u = t
    BY <1>2, <1>4, <2>1 DEF HistoryOf, c
  <2>2. CASE u # t
    <3>1. turn'[u] = turn[u] /\ uneven \cup late \subseteq uneven' \cup late'
      BY <1>2, <1>4, <2>2
    <3> QED
      BY <1>2, <1>14, <3>1
         DEF HistoryOf, WholePairs, Newest, Talks!Live, Talks!Shared, Contains
  <2> QED
    BY <2>1, <2>2
<1>15. Talks!HistoryIsWhole'
  BY <1>1, <1>14, HistoryPerTurn
<1> QED
  BY <1>7, <1>8, <1>9, <1>12, <1>13, <1>15 DEF TalkInv

LEMMA TickKeepsTalk ==
  ASSUME TalkInv, Talks!Tick
  PROVE  TalkInv'
<1>1. TalkKinds /\ TimeGoesOn /\ SavedInOrder /\ Even /\ ShownWhole /\ Talks!HistoryIsWhole
  BY DEF TalkInv
<1>2. /\ now' = now + 1 /\ v_messages' = v_messages /\ conv' = conv /\ late' = late
      /\ uneven' = uneven /\ turn' = turn
  BY DEF Talks!Tick
<1>3. now \in Nat /\ \A i \in DOMAIN v_messages : v_messages[i].at \in Nat
  BY <1>1, TalkTypes
<1>4. TalkKinds'
  BY <1>1, <1>2, <1>3 DEF TalkKinds, Talks!TypeOK, Talks!Waiting
<1>5. TimeGoesOn'
  <2>1. \A i \in DOMAIN v_messages : v_messages[i].at <= now + 1
    BY <1>1, <1>3 DEF TimeGoesOn
  <2> QED
    BY <1>1, <1>2, <2>1 DEF TimeGoesOn
<1>6. SavedInOrder' /\ Even'
  BY <1>1, <1>2 DEF SavedInOrder, Even, OneTurn, BothSaved, NoneBetween, Talks!Busy
<1>7. ShownWhole'
  BY <1>1, <1>2 DEF ShownWhole, Talks!Live, Talks!Occupied, Talks!Busy
<1>8. Talks!HistoryIsWhole'
  BY <1>1, <1>2 DEF Talks!HistoryIsWhole, Talks!Live, Talks!Shared
<1> QED
  BY <1>4, <1>5, <1>6, <1>7, <1>8 DEF TalkInv

\* Deleting marks rows and leaves the turns as they are.
LEMMA MarkKeepsOrder ==
  ASSUME TalkInv, NEW marked, Talks!Mark(marked), turn' = turn, now' = now,
         conv' \in [Convs -> {None, "live", "deleted"}],
         \A c \in Convs : conv[c] # None => conv'[c] # None,
         uneven \subseteq uneven'
  PROVE  (TalkKinds /\ TimeGoesOn /\ SavedInOrder /\ Even)'
<1>1. TalkKinds /\ TimeGoesOn /\ SavedInOrder /\ Even
  BY DEF TalkInv
<1>2. /\ v_messages' \in Seq(SaidRow) /\ DOMAIN v_messages' = DOMAIN v_messages
      /\ Len(v_messages') = Len(v_messages)
      /\ \A i \in DOMAIN v_messages :
           /\ v_messages'[i].turn = v_messages[i].turn /\ v_messages'[i].conv = v_messages[i].conv
           /\ v_messages'[i].role = v_messages[i].role /\ v_messages'[i].at = v_messages[i].at
  BY <1>1, MarkFacts
<1>3. /\ now \in Nat /\ turn \in [Exchanges -> Asked] /\ DOMAIN v_messages = 1 .. Len(v_messages)
      /\ \A i \in DOMAIN v_messages : conv[v_messages[i].conv] # None /\ v_messages[i].conv \in Convs
  BY <1>1, TalkTypes
<1>4. TalkKinds'
  <2>1. Talks!TypeOK'
    BY <1>1, <1>2, <1>3 DEF TalkKinds, Talks!TypeOK
  <2>2. Talks!Waiting' = Talks!Waiting
    BY DEF Talks!Waiting
  <2> QED
    BY <1>1, <1>2, <1>3, <2>1, <2>2 DEF TalkKinds
<1>5. TimeGoesOn'
  BY <1>1, <1>2 DEF TimeGoesOn
<1>6. SavedInOrder'
  BY <1>1, <1>2 DEF SavedInOrder
<1>7. ASSUME NEW d \in Convs \ uneven' PROVE (OneTurn(d) /\ BothSaved(d) /\ NoneBetween(d))'
  <2>1. OneTurn(d) /\ BothSaved(d) /\ NoneBetween(d)
    BY <1>1 DEF Even
  <2>2. OneTurn(d)'
    BY <2>1 DEF OneTurn, Talks!Busy
  <2>3. ASSUME NEW i \in DOMAIN v_messages, v_messages'[i].conv = d,
               turn'[v_messages'[i].turn].at = "done"
        PROVE  \E j \in DOMAIN v_messages : j # i /\ v_messages'[j].turn = v_messages'[i].turn
    <3>1. v_messages[i].conv = d /\ turn[v_messages[i].turn].at = "done"
      BY <1>2, <2>3
    <3>2. PICK j \in DOMAIN v_messages : j # i /\ v_messages[j].turn = v_messages[i].turn
      BY <2>1, <3>1 DEF BothSaved
    <3> QED
      BY <1>2, <3>2
  <2>4. NoneBetween(d)'
    BY <1>2, <2>1 DEF NoneBetween
  <2>5. BothSaved(d)'
    BY <1>2, <2>3 DEF BothSaved
  <2> QED
    BY <2>2, <2>4, <2>5
<1> QED
  BY <1>4, <1>5, <1>6, <1>7 DEF Even

LEMMA MarkKeepsHistory ==
  ASSUME TalkInv, NEW marked, Talks!Mark(marked), turn' = turn,
         uneven \subseteq uneven', late \subseteq late',
         \A u \in Exchanges :
           turn[u].at = "thinking" /\ turn[u].conv \notin uneven' \cup late' =>
             \A i \in DOMAIN v_messages : v_messages[i].conv = turn[u].conv => i \notin marked
  PROVE  Talks!HistoryIsWhole'
<1>1. TalkKinds /\ Talks!HistoryIsWhole
  BY DEF TalkInv
<1>2. /\ v_messages' \in Seq(SaidRow) /\ DOMAIN v_messages' = DOMAIN v_messages
      /\ Len(v_messages') = Len(v_messages)
      /\ \A i \in DOMAIN v_messages :
           /\ v_messages'[i].turn = v_messages[i].turn /\ v_messages'[i].conv = v_messages[i].conv
           /\ v_messages'[i].at = v_messages[i].at
           /\ i \notin marked => v_messages'[i] = v_messages[i]
  BY <1>1, MarkFacts
<1>3. v_messages \in Seq(SaidRow) /\ DOMAIN v_messages = 1 .. Len(v_messages)
  BY <1>1, TalkTypes
<1>4. Talks!Shared(v_messages) => Talks!Shared(v_messages')
  BY <1>2, <1>3 DEF Talks!Shared
<1>5. ASSUME NEW u \in Exchanges, HistoryOf(u) PROVE HistoryOf(u)'
  <2> SUFFICES ASSUME turn[u].conv \notin uneven' \cup late', ~Talks!Shared(v_messages')
               PROVE  /\ WholePairs(turn[u].history)'
                      /\ turn[u].at = "thinking" => Newest(turn[u].history, turn[u].conv)'
    BY DEF HistoryOf, Talks!Shared
  <2>1. /\ WholePairs(turn[u].history)
        /\ turn[u].at = "thinking" => Newest(turn[u].history, turn[u].conv)
    BY <1>4, <1>5 DEF HistoryOf
  <2>2. WholePairs(turn[u].history)'
    BY <2>1, PairsKept
  <2>3. ASSUME turn[u].at = "thinking" PROVE Newest(turn[u].history, turn[u].conv)'
    <3>1. RowsStay(turn[u].conv)
      BY <1>2, <2>3 DEF RowsStay
    <3> QED
      BY <1>2, <1>3, <2>1, <2>3, <3>1, NewestKept
  <2> QED
    BY <2>2, <2>3
<1> QED
  BY <1>1, <1>5, HistoryPerTurn

LEMMA DeleteConversationsKeeps ==
  ASSUME TalkInv, NEW cs \in SUBSET Convs, Talks!DeleteConversations(cs)
  PROVE  TalkInv'
<1>1. TalkKinds /\ ShownWhole
  BY DEF TalkInv
<1> DEFINE owned == {c \in cs : conv[c] = "live"}
           marked == UNION {Talks!Live(c) : c \in owned}
<1>2. /\ conv' = [c \in Convs |-> IF c \in owned THEN "deleted" ELSE conv[c]]
      /\ Talks!Mark(marked)
      /\ late' = late \cup {c \in owned : Talks!Occupied(c)}
      /\ now' = now /\ turn' = turn /\ uneven' = uneven
  BY DEF Talks!DeleteConversations
<1>3. /\ conv \in [Convs -> {None, "live", "deleted"}] /\ DOMAIN v_messages = 1 .. Len(v_messages)
      /\ \A i \in DOMAIN v_messages : v_messages[i].conv \in Convs /\ conv[v_messages[i].conv] # None
  BY <1>1, TalkTypes
<1>4. \A i \in DOMAIN v_messages :
        i \in marked <=> v_messages[i].conv \in owned /\ ~v_messages[i].deleted
  <2>1. \A i : i \in marked <=> \E c \in owned : i \in Talks!Live(c)
    OBVIOUS
  <2>2. \A c, i : i \in Talks!Live(c) <=>
          i \in 1 .. Len(v_messages) /\ v_messages[i].conv = c /\ ~v_messages[i].deleted
    BY DEF Talks!Live
  <2> QED
    BY <1>3, <2>1, <2>2
<1>5. owned \subseteq Convs /\ \A c \in Convs : c \in owned => conv[c] = "live"
  OBVIOUS
<1> HIDE DEF owned, marked
<1>6. /\ v_messages' \in Seq(SaidRow) /\ DOMAIN v_messages' = DOMAIN v_messages
      /\ Len(v_messages') = Len(v_messages)
      /\ \A i \in DOMAIN v_messages :
           /\ v_messages'[i].conv = v_messages[i].conv
           /\ v_messages'[i].deleted <=> v_messages[i].deleted \/ i \in marked
  BY <1>1, <1>2, MarkFacts
<1>7. /\ conv' \in [Convs -> {None, "live", "deleted"}]
      /\ \A c \in Convs : conv'[c] = IF c \in owned THEN "deleted" ELSE conv[c]
      /\ \A c \in Convs : conv[c] # None => conv'[c] # None
  BY <1>2, <1>3, TalkNames
<1>8. (TalkKinds /\ TimeGoesOn /\ SavedInOrder /\ Even)'
  BY <1>2, <1>7, MarkKeepsOrder
<1>9. ShownWhole'
  <2>1. \A i \in DOMAIN v_messages' : LET c == v_messages'[i].conv IN
          c \notin uneven' \cup late' /\ conv'[c] = "live" => ~v_messages'[i].deleted
    BY <1>1, <1>2, <1>3, <1>4, <1>6, <1>7 DEF ShownWhole
  <2>2. ASSUME NEW c \in Convs \ late', conv'[c] = "deleted"
        PROVE  Talks!Live(c)' = {} /\ ~Talks!Occupied(c)'
    <3>1. Talks!Occupied(c)' <=> Talks!Occupied(c)
      BY <1>2 DEF Talks!Occupied, Talks!Busy
    <3>2. CASE c \in owned
      <4>1. ~Talks!Occupied(c)
        BY <1>2, <2>2, <3>2
      <4>2. Talks!Live(c)' = {}
        BY <1>3, <1>4, <1>6, <3>2 DEF Talks!Live
      <4> QED
        BY <3>1, <4>1, <4>2
    <3>3. CASE c \notin owned
      <4>1. Talks!Live(c) = {} /\ ~Talks!Occupied(c)
        BY <1>1, <1>2, <1>7, <2>2, <3>3 DEF ShownWhole
      <4>2. Talks!Live(c)' = {}
        BY <1>3, <1>6, <4>1 DEF Talks!Live
      <4> QED
        BY <3>1, <4>1, <4>2
    <3> QED
      BY <3>2, <3>3
  <2> QED
    BY <2>1, <2>2 DEF ShownWhole
<1>10. ASSUME NEW u \in Exchanges, turn[u].at = "thinking", turn[u].conv \notin uneven' \cup late',
              NEW i \in DOMAIN v_messages, v_messages[i].conv = turn[u].conv
       PROVE  i \notin marked
  <2>1. Talks!Occupied(turn[u].conv)
    BY <1>10 DEF Talks!Occupied, Talks!Busy
  <2>2. turn[u].conv \notin owned
    BY <1>2, <1>10, <2>1
  <2> QED
    BY <1>4, <1>10, <2>2
<1>11. Talks!HistoryIsWhole'
  BY <1>2, <1>10, MarkKeepsHistory
<1> QED
  BY <1>8, <1>9, <1>11 DEF TalkInv

LEMMA DeleteMessageKeeps ==
  ASSUME TalkInv, NEW k \in 1 .. Len(v_messages), Talks!DeleteMessage(k)
  PROVE  TalkInv'
<1>1. TalkKinds /\ ShownWhole
  BY DEF TalkInv
<1>2. /\ Talks!Mark({k}) /\ uneven' = uneven \cup {v_messages[k].conv}
      /\ now' = now /\ conv' = conv /\ turn' = turn /\ late' = late
  BY DEF Talks!DeleteMessage
<1>3. conv \in [Convs -> {None, "live", "deleted"}] /\ DOMAIN v_messages = 1 .. Len(v_messages)
  BY <1>1, TalkTypes
<1>4. /\ DOMAIN v_messages' = DOMAIN v_messages /\ Len(v_messages') = Len(v_messages)
      /\ \A i \in DOMAIN v_messages :
           /\ v_messages'[i].conv = v_messages[i].conv
           /\ v_messages'[i].deleted <=> v_messages[i].deleted \/ i \in {k}
  BY <1>1, <1>2, MarkFacts
<1>5. (TalkKinds /\ TimeGoesOn /\ SavedInOrder /\ Even)'
  BY <1>2, <1>3, MarkKeepsOrder
<1>6. ShownWhole'
  <2>1. \A i \in DOMAIN v_messages' : LET c == v_messages'[i].conv IN
          c \notin uneven' \cup late' /\ conv'[c] = "live" => ~v_messages'[i].deleted
    BY <1>1, <1>2, <1>4 DEF ShownWhole
  <2>2. ASSUME NEW c \in Convs \ late', conv'[c] = "deleted"
        PROVE  Talks!Live(c)' = {} /\ ~Talks!Occupied(c)'
    <3>1. Talks!Live(c) = {} /\ ~Talks!Occupied(c)
      BY <1>1, <1>2, <2>2 DEF ShownWhole
    <3>2. Talks!Live(c)' = {}
      BY <1>3, <1>4, <3>1 DEF Talks!Live
    <3>3. Talks!Occupied(c)' <=> Talks!Occupied(c)
      BY <1>2 DEF Talks!Occupied, Talks!Busy
    <3> QED
      BY <3>1, <3>2, <3>3
  <2> QED
    BY <2>1, <2>2 DEF ShownWhole
<1>7. Talks!HistoryIsWhole'
  <2>1. \A u \in Exchanges :
          turn[u].at = "thinking" /\ turn[u].conv \notin uneven' \cup late' =>
            \A i \in DOMAIN v_messages : v_messages[i].conv = turn[u].conv => i \notin {k}
    BY <1>2
  <2> QED
    BY <1>2, <2>1, MarkKeepsHistory
<1> QED
  BY <1>5, <1>6, <1>7 DEF TalkInv

LEMMA TalkInvStarts == Talks!Init => TalkInv
<1> SUFFICES ASSUME Talks!Init PROVE TalkInv
  OBVIOUS
<1>1. /\ now = 0 /\ v_messages = <<>> /\ late = {} /\ uneven = {}
      /\ conv = [c \in Convs |-> None] /\ turn = [t \in Exchanges |-> Talks!Waiting]
  BY DEF Talks!Init
<1>2. Talks!Waiting \in Asked /\ Talks!Waiting.at = "waiting" /\ Len(Talks!Waiting.history) = 0
      /\ Talks!Waiting.history = <<>>
  BY DEF Talks!Waiting, Asked
<1>3. v_messages \in Seq(SaidRow) /\ DOMAIN v_messages = {} /\ Len(v_messages) = 0
  BY <1>1
<1>4. TalkKinds
  <2>1. Talks!TypeOK
    BY <1>1, <1>2, <1>3, TalkNames DEF Talks!TypeOK
  <2> QED
    BY <1>1, <1>2, <1>3, <2>1 DEF TalkKinds
<1>5. TimeGoesOn
  BY <1>3 DEF TimeGoesOn
<1>6. SavedInOrder
  BY <1>1, <1>2, <1>3 DEF SavedInOrder
<1>7. Even
  BY <1>1, <1>2, <1>3 DEF Even, OneTurn, BothSaved, NoneBetween, Talks!Busy
<1>8. ShownWhole
  BY <1>1, <1>3, TalkNames DEF ShownWhole
<1>9. Talks!HistoryIsWhole
  BY <1>1, <1>2, HistoryPerTurn DEF HistoryOf, WholePairs
<1> QED
  BY <1>4, <1>5, <1>6, <1>7, <1>8, <1>9 DEF TalkInv

LEMMA TalkInvStays ==
  ASSUME TalkInv, ServicesStep, focus = "conversations"
  PROVE  TalkInv'
<1>1. CASE Talks!Next
  <2>1. CASE Talks!Tick
    BY <2>1, TickKeepsTalk
  <2>2. ASSUME NEW t \in Exchanges, NEW c \in Convs, Talks!Begin(t, c) \/ Talks!BeginNew(t, c)
        PROVE  TalkInv'
    BY <2>2, BeginKeepsOrder, BeginKeepsShown, BeginKeepsHistory DEF TalkInv
  <2>3. ASSUME NEW t \in Exchanges, NEW r, SavedAs(t, r) PROVE TalkInv'
    BY <2>3, SaveKinds, SaveKeepsOrder, SaveKeepsEven, SaveKeepsShown DEF TalkInv
  <2>4. ASSUME NEW t \in Exchanges, Talks!SaveQuestion(t) \/ Talks!SaveAnswer(t) PROVE TalkInv'
    BY <2>3, <2>4 DEF SavedAs
  <2> QED
    BY <1>1, <2>1, <2>2, <2>4, BreakOffKeeps, DeleteConversationsKeeps, DeleteMessageKeeps
       DEF Talks!Next
<1>2. CASE UNCHANGED conversations
  <2>1. /\ now' = now /\ conv' = conv /\ v_messages' = v_messages /\ turn' = turn
        /\ late' = late /\ uneven' = uneven
    BY <1>2 DEF conversations
  <2>2. TalkKinds' /\ TimeGoesOn'
    BY <2>1 DEF TalkInv, TalkKinds, TimeGoesOn, Talks!TypeOK, Talks!Waiting
  <2>3. SavedInOrder' /\ Even'
    BY <2>1 DEF TalkInv, SavedInOrder, Even, OneTurn, BothSaved, NoneBetween, Talks!Busy
  <2>4. ShownWhole'
    BY <2>1 DEF TalkInv, ShownWhole, Talks!Live, Talks!Occupied, Talks!Busy
  <2>5. Talks!HistoryIsWhole'
    BY <2>1 DEF TalkInv, Talks!HistoryIsWhole, Talks!Live, Talks!Shared
  <2> QED
    BY <2>2, <2>3, <2>4, <2>5 DEF TalkInv
<1> QED
  BY <1>1, <1>2 DEF ServicesStep, ServicesNext, ServicesVars

\* A conversation that is deleted stays empty, and the history a turn reads consists of whole
\* exchanges, the latest ones while it thinks (get_messages, delete_conversation).
THEOREM ConversationsStaySound == ServicesSpec => []ConversationsSound
<1> DEFINE Inv == focus = "conversations" => TalkInv
<1>1. ServicesInit => Inv
  BY TalkInvStarts DEF ServicesInit
<1>2. Inv /\ [ServicesNext]_ServicesVars => Inv'
  <2> SUFFICES ASSUME Inv, ServicesStep, focus' = "conversations" PROVE TalkInv'
    BY DEF ServicesStep
  <2>1. focus = "conversations"
    BY DEF ServicesStep, ServicesNext, ServicesVars
  <2> QED
    BY <2>1, TalkInvStays
<1>3. Inv => ConversationsSound
  BY DEF TalkInv, TalkKinds, ShownWhole, ConversationsSound, Talks!ConversationsSound,
         Talks!DeletedStaysEmpty
<1> QED
  BY <1>1, <1>2, <1>3, PTL DEF ServicesSpec
=============================================================================
