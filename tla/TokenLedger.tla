----------------------------- MODULE TokenLedger -----------------------------
(***************************************************************************)
(* What the calls of the models cost (services/cost_tracker_service.py):   *)
(* every answer adds a row to the log of operations and then, in one       *)
(* transaction of Redis, its tokens to the counters of its user and of the *)
(* tenant; the report is read from the rows, the quota from the counters.  *)
(* The counter called monthly carries no month: it expires when it was not *)
(* used for a while, and grows as long as it is used.  Redis may also evict*)
(* it (the deployments give Redis little memory and allkeys-lru), and who  *)
(* cannot read it is let through.                                          *)
(***************************************************************************)
EXTENDS Integers, FiniteSets

CONSTANTS
  Users,       \* users of one tenant
  Calls,       \* answers under way at once
  None,        \* no answer under way
  Sizes,       \* tokens an answer may take
  Quota,       \* of a user, and of the tenant below
  TenantQuota,
  MonthLength, \* days of the longest month
  MaxDays,     \* bound: days in all
  MaxAnswers,  \* bound: answers in all
  MaxEvictions \* bound: evictions in all

Tenant == "tenant"
Counters == Users \cup {Tenant}
Row == [id : Nat, user : Users, size : Sizes, day : Nat]
Check == [user : Users, over : BOOLEAN, due : BOOLEAN]

UsageAssumption ==
  /\ IsFiniteSet(Users) /\ Tenant \notin Users /\ Sizes \subseteq Nat /\ None \notin Row \cup Check
  /\ {Quota, TenantQuota, MaxDays, MaxAnswers, MaxEvictions} \subseteq Nat
  /\ MonthLength \in Nat \ {0}

\* mutant
TTLShort == MonthLength - 1

TTL == MonthLength

VARIABLES
  today,    \* days since the start
  rows,     \* the log: [id, user, size, day]
  count,    \* [Counters -> tokens counted, 0 when there is no counter]
  used,     \* [Counters -> the last day the counter was renewed]
  call,     \* [Calls -> the answer under way or None]
  answers,  \* answers so far
  missed,   \* rows whose tokens their user's counter did not take, or lost
  evictions,\* so far
  forgotten,\* tokens the tenant's counter lost when it was evicted
  check,    \* the look at a quota under way: what it saw and, for the properties,
            \* whether its user had used it up when it began
  slipped   \* users let through although it was due and Redis answered

vars == <<today, rows, count, used, call, answers, missed, evictions, forgotten, check, slipped>>

TypeOK ==
  /\ today \in 0 .. MaxDays /\ answers \in 0 .. MaxAnswers
  /\ \A x \in rows : x.user \in Users /\ x.size \in Sizes /\ x.day \in 0 .. today
  /\ count \in [Counters -> Nat] /\ used \in [Counters -> 0 .. MaxDays]
  /\ missed \subseteq rows /\ evictions \in 0 .. MaxEvictions /\ forgotten \in Nat
  /\ check \in Check \cup {None} /\ slipped \subseteq Users

Init ==
  /\ today = 0 /\ rows = {} /\ count = [k \in Counters |-> 0]
  /\ used = [k \in Counters |-> 0] /\ call = [c \in Calls |-> None]
  /\ answers = 0 /\ missed = {} /\ evictions = 0 /\ forgotten = 0
  /\ check = None /\ slipped = {}

-----------------------------------------------------------------------------
\* An answer is given; its row is written in a session of its own, or is not.
Log(c, u, n) ==
  /\ call[c] = None /\ answers < MaxAnswers /\ answers' = answers + 1
  /\ call' = [call EXCEPT ![c] = [id |-> answers, user |-> u, size |-> n, day |-> today]]
  /\ \/ rows' = rows \cup {call'[c]}
     \/ UNCHANGED rows
  /\ UNCHANGED <<today, count, used, missed, evictions, forgotten, check, slipped>>

\* One transaction adds the tokens to both counters and renews their lives.
Count(c) ==
  /\ call[c] # None /\ call' = [call EXCEPT ![c] = None]
  /\ LET both == {call[c].user, Tenant} IN
       /\ count' = [k \in Counters |-> IF k \in both THEN count[k] + call[c].size ELSE count[k]]
       /\ used' = [k \in Counters |-> IF k \in both THEN today ELSE used[k]]
  /\ UNCHANGED <<today, rows, answers, missed, evictions, forgotten, check, slipped>>

\* Redis fails, or the request ends before it is asked: the row stays alone.
Miss(c) ==
  /\ call[c] # None /\ call' = [call EXCEPT ![c] = None]
  /\ missed' = missed \cup ({call[c]} \cap rows)
  /\ UNCHANGED <<today, rows, count, used, answers, evictions, forgotten, check, slipped>>

\* The rows of this month (get_cost_report), what they add up to, and the answers that
\* are yet to be counted.
ThisMonth == {x \in rows : x.day \div MonthLength = today \div MonthLength}
Units(f) == UNION {{x} \X (1 .. f[x]) : x \in DOMAIN f}
Sum(f) == Cardinality(Units(f))
Total(S) == Sum([x \in S |-> x.size])
Pending == {call[c] : c \in {k \in Calls : call[k] # None}}
Counted(u) == Total({x \in ThisMonth \ (missed \cup Pending) : x.user = u})

\* check_quota reads the user's counter and, later, the tenant's.
LookUp(u) ==
  /\ check = None
  /\ check' = [user |-> u, over |-> count[u] >= Quota, due |-> Counted(u) >= Quota]
  /\ UNCHANGED <<today, rows, count, used, call, answers, missed, evictions, forgotten, slipped>>

\* It refuses when either has reached its limit; when Redis fails at either, it allows.
Tell ==
  /\ check # None /\ check' = None
  /\ \/ slipped' = IF check.due /\ ~check.over /\ count[Tenant] < TenantQuota
                     THEN slipped \cup {check.user} ELSE slipped
     \/ UNCHANGED slipped
  /\ UNCHANGED <<today, rows, count, used, call, answers, missed, evictions, forgotten>>

\* A day passes; a counter that was not used for its lifetime is gone.
Pass ==
  /\ today < MaxDays
  /\ today' = today + 1
  /\ count' = [k \in Counters |-> IF today + 1 >= used[k] + TTL THEN 0 ELSE count[k]]
  /\ UNCHANGED <<rows, used, call, answers, missed, evictions, forgotten, check, slipped>>

\* Redis is full and drops a counter, whatever is left of its life (allkeys-lru).
Evict(k) ==
  /\ evictions < MaxEvictions /\ evictions' = evictions + 1
  /\ count[k] > 0 /\ count' = [count EXCEPT ![k] = 0]
  /\ IF k = Tenant
     THEN forgotten' = forgotten + count[k] /\ UNCHANGED missed
     ELSE missed' = missed \cup {x \in rows \ Pending : x.user = k} /\ UNCHANGED forgotten
  /\ UNCHANGED <<today, rows, used, call, answers, check, slipped>>

Next ==
  \/ \E c \in Calls : Count(c) \/ Miss(c) \/ \E u \in Users, n \in Sizes : Log(c, u, n)
  \/ Pass \/ Tell \/ \E u \in Users : LookUp(u)
  \/ \E k \in Counters : Evict(k)

Spec == Init /\ [][Next]_vars

-----------------------------------------------------------------------------
\* A counter never shows less than the report of the month does, of the answers that
\* were counted since it was last evicted: a lifetime as long as a month outlives the
\* month's first day.
CountersCoverMonth == \A u \in Users : count[u] >= Counted(u)

\* The tenant's counter covers those of its users, but for what an eviction took from
\* it: they are counted together, and the one that is used more lives longer.
TenantCoversUsers == count[Tenant] + forgotten >= Sum([u \in Users |-> count[u]])

\* Who had used up a month's tokens when check_quota began, by what was counted, is
\* refused, whatever is counted or lost while it looks, unless Redis does not answer it.
OverQuotaIsRefused == slipped = {}

\* What is counted bears on the quota, however calls overlap, Redis fails or evicts and
\* days pass.
UsageSound == TypeOK /\ CountersCoverMonth /\ TenantCoversUsers /\ OverQuotaIsRefused
=============================================================================
