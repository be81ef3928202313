---------------------------- MODULE Conversations ----------------------------
(***************************************************************************)
(* A user's conversations.  A turn reads the last messages as its history, *)
(* thinks, then saves the question and the answer in two commits.          *)
(* Deleting only marks rows; created_at has whole seconds.                 *)
(***************************************************************************)
EXTENDS Naturals, SequencesExt

CONSTANTS
  Turns,       \* questions asked
  Convs,       \* conversations, created as they are needed
  Limit,       \* messages of history a turn reads
  MaxTime, MaxDeletes,  \* bounds of an instance: seconds, deletions
  None

\* A turn reads whole exchanges (_HISTORY_LIMIT).
ConversationsAssumption ==
  /\ Limit \in Nat \ {0} /\ Limit % 2 = 0
  /\ None \notin Convs \cup {"live", "deleted"}

VARIABLES
  now,
  conv,      \* conversation -> None, "live" or "deleted"
  messages,  \* all messages in the order they were committed
  turn,      \* turn -> its progress
  deletes,
  late,      \* history: conversations a turn was under way in when deleted, or began in after
  uneven     \* history: conversations where turns overlapped, broke off or lost single messages

vars == <<now, conv, messages, turn, deletes, late, uneven>>

Waiting == [at |-> "waiting", conv |-> None, history |-> <<>>]

Init ==
  /\ now = 0 /\ messages = <<>> /\ deletes = 0 /\ late = {} /\ uneven = {}
  /\ conv = [c \in Convs |-> None]
  /\ turn = [t \in Turns |-> Waiting]

Tick ==
  /\ now < MaxTime /\ now' = now + 1
  /\ UNCHANGED <<conv, messages, turn, deletes, late, uneven>>

Busy(t, c) == turn[t].conv = c /\ turn[t].at \in {"thinking", "asked"}
Occupied(c) == \E t \in Turns : Busy(t, c)

(* get_messages: live rows, latest first, LIMIT, reversed.  Rows of one     *)
(* second come in any order, so the last ones of a history are a choice.    *)
Live(c) == {i \in 1 .. Len(messages) : messages[i].conv = c /\ ~messages[i].deleted}

Latest(rows) == {s \in SetToSeqs(rows) :
                   \A i, j \in 1 .. Len(s) : i < j => messages[s[i]].at >= messages[s[j]].at}

Histories(c) ==
  {Reverse(SubSeq(s, 1, IF Len(s) < Limit THEN Len(s) ELSE Limit)) : s \in Latest(Live(c))}

(* The id in the request is taken as it is, a deleted one's too. *)
Begin(t, c) ==
  /\ turn[t].at = "waiting" /\ conv[c] # None
  /\ \E h \in Histories(c) :
       turn' = [turn EXCEPT ![t] = [at |-> "thinking", conv |-> c, history |-> [i \in 1 .. Len(h) |-> messages[h[i]]]]]
  /\ late' = IF conv[c] = "deleted" THEN late \cup {c} ELSE late
  /\ uneven' = IF Occupied(c) THEN uneven \cup {c} ELSE uneven
  /\ UNCHANGED <<now, conv, messages, deletes>>

(* Without an id a conversation is created first. *)
BeginNew(t, c) ==
  /\ turn[t].at = "waiting" /\ conv[c] = None
  /\ conv' = [conv EXCEPT ![c] = "live"]
  /\ turn' = [turn EXCEPT ![t].at = "thinking", ![t].conv = c]
  /\ UNCHANGED <<now, messages, deletes, late, uneven>>

Message(t, role) ==
  [turn |-> t, conv |-> turn[t].conv, role |-> role, at |-> now, deleted |-> FALSE]

SaveQuestion(t) ==
  /\ turn[t].at = "thinking"
  /\ messages' = Append(messages, Message(t, "user"))
  /\ turn' = [turn EXCEPT ![t].at = "asked"]
  /\ UNCHANGED <<now, conv, deletes, late, uneven>>

SaveAnswer(t) ==
  /\ turn[t].at = "asked"
  /\ messages' = Append(messages, Message(t, "assistant"))
  /\ turn' = [turn EXCEPT ![t].at = "done"]
  /\ UNCHANGED <<now, conv, deletes, late, uneven>>

(* An error, a reader of the stream who leaves, or an answer of the cache  *)
(* outside the stream, which is not saved.                                  *)
BreakOff(t) ==
  /\ turn[t].at \in {"thinking", "asked"}
  /\ turn' = [turn EXCEPT ![t].at = "done"]
  /\ uneven' = uneven \cup {turn[t].conv}
  /\ UNCHANGED <<now, conv, messages, deletes, late>>

Mark(rows) ==
  messages' = [i \in 1 .. Len(messages) |->
                 IF i \in rows THEN [messages[i] EXCEPT !.deleted = TRUE] ELSE messages[i]]

\* mutant
DeleteConversationsOnly(cs) ==
  LET owned == {c \in cs : conv[c] = "live"} IN
  /\ deletes < MaxDeletes /\ deletes' = deletes + 1 /\ owned # {}
  /\ conv' = [c \in Convs |-> IF c \in owned THEN "deleted" ELSE conv[c]]
  /\ late' = late \cup {c \in owned : Occupied(c)}
  /\ UNCHANGED <<now, messages, turn, uneven>>

(* delete_conversation and batch_delete_conversations, one transaction; one *)
(* that is deleted already is left alone.                                   *)
DeleteConversations(cs) ==
  LET owned == {c \in cs : conv[c] = "live"} IN
  /\ deletes < MaxDeletes /\ deletes' = deletes + 1 /\ owned # {}
  /\ conv' = [c \in Convs |-> IF c \in owned THEN "deleted" ELSE conv[c]]
  /\ Mark(UNION {Live(c) : c \in owned})
  /\ late' = late \cup {c \in owned : Occupied(c)}
  /\ UNCHANGED <<now, turn, uneven>>

DeleteMessage(i) ==
  /\ deletes < MaxDeletes /\ deletes' = deletes + 1
  /\ ~messages[i].deleted /\ Mark({i})
  /\ uneven' = uneven \cup {messages[i].conv}
  /\ UNCHANGED <<now, conv, turn, late>>

Next ==
  \/ Tick
  \/ \E t \in Turns :
       \/ \E c \in Convs : Begin(t, c) \/ BeginNew(t, c)
       \/ SaveQuestion(t) \/ SaveAnswer(t) \/ BreakOff(t)
  \/ \E cs \in SUBSET Convs : DeleteConversations(cs)
  \/ \E i \in 1 .. Len(messages) : DeleteMessage(i)

Spec == Init /\ [][Next]_vars

-----------------------------------------------------------------------------
(* Conversations are live or deleted, messages belong to existing ones. *)
TypeOK ==
  /\ conv \in [Convs -> {None, "live", "deleted"}]
  /\ \A i \in 1 .. Len(messages) : conv[messages[i].conv] # None
  /\ \A t \in Turns : Len(turn[t].history) <= Limit

(* What was deleted stays out of sight: a deleted conversation shows no     *)
(* message, unless a turn was under way when it was deleted or one was      *)
(* asked in it afterwards.                                                  *)
DeletedStaysEmpty == \A c \in Convs \ late : conv[c] = "deleted" => Live(c) = {}

(* A history consists of whole exchanges in the order they took place, and  *)
(* while its turn thinks they are the latest ones, as long as no two        *)
(* exchanges share a second, turns of a conversation do not overlap or      *)
(* break off, no single messages were deleted, and none was under way when  *)
(* the conversation was deleted (get_messages).                             *)
Shared(h) == \E i, j \in 1 .. Len(h) : h[i].turn # h[j].turn /\ h[i].at = h[j].at
HistoryIsWhole ==
  \A t \in Turns :
    LET h == turn[t].history IN
    turn[t].conv \notin uneven \cup late /\ ~Shared(messages) =>
      /\ \A i \in 1 .. Len(h) : i % 2 = 1 =>
           /\ i < Len(h) /\ h[i].turn = h[i+1].turn /\ h[i].role # h[i+1].role
           /\ i > 1 => h[i-1].at < h[i].at
      /\ turn[t].at = "thinking" => \A i \in Live(turn[t].conv) :
           Contains(h, messages[i]) \/ (Len(h) = Limit /\ messages[i].at < h[1].at)

\* A deleted conversation stays empty, a history shows the latest turns whole.
ConversationsSound == TypeOK /\ DeletedStaysEmpty /\ HistoryIsWhole
=============================================================================
