------------------------------- MODULE ChatLog -------------------------------
(***************************************************************************)
(* The messages of one conversation, in order of their sequence numbers    *)
(* (backend/app/models/chat.py).  A turn is a user message; its answer     *)
(* names it.  Only the status of an answer matters here, not its text.     *)
(***************************************************************************)
EXTENDS Naturals, Sequences

CONSTANTS Request,   \* request identifiers chosen by the clients of a job
          MaxTurns   \* bound: user messages ever admitted

ASSUME MaxTurnsAssumption == MaxTurns \in Nat \ {0}

Turn == 1 .. MaxTurns

(* An answer written by its generator, by a failed generator, or by whoever *)
(* found the lease expired                                                  *)
Final == {"completed", "error", "interrupted"}

Message == [role : {"user"}, turn : Turn, request : Request]
             \cup [role : {"assistant"}, turn : Turn, status : Final, receipt : BOOLEAN]

Question(t, r) == [role |-> "user", turn |-> t, request |-> r]
Answer(t, status, receipt) ==
    [role |-> "assistant", turn |-> t, status |-> status, receipt |-> receipt]

(* The sequence number of a new message is one more than the last *)
Add(log, m) == Append(log, m)

Latest(log) == log[Len(log)]

(* _reject_parallel_turn: the latest message is a question *)
Pending(log) == log # <<>> /\ Latest(log).role = "user"

Asks(log, t) == \E i \in DOMAIN log : log[i].role = "user" /\ log[i].turn = t
AsksAs(log, t, r) == \E i \in DOMAIN log : log[i] = Question(t, r)
AsksFor(log, r) == \E i \in DOMAIN log : log[i].role = "user" /\ log[i].request = r

(* _find_assistant_for_user_turn: by the turn the answer names *)
Answers(log, t) == {i \in DOMAIN log : log[i].role = "assistant" /\ log[i].turn = t}

Completed(m) == m.role = "assistant" /\ m.status = "completed"

(* The position of the last completed answer, or 0 *)
LastCompleted(log) ==
    IF \E i \in DOMAIN log : Completed(log[i])
    THEN CHOOSE i \in DOMAIN log :
            Completed(log[i]) /\ \A j \in DOMAIN log : Completed(log[j]) => j <= i
    ELSE 0

\* Mutant: the whole conversation, whatever the cut-off.
History_Whole(log, cutoff) ==
    {i \in DOMAIN log :
        \E j \in DOMAIN log :
              /\ i <= j
              /\ Completed(log[j])
              /\ \A k \in i .. (j - 1) : log[k].role = "user"}

(* _completed_messages up to a sequence number: the completed answers, and  *)
(* the questions that stand since the answer before them                    *)
History(log, cutoff) ==
    {i \in DOMAIN log :
        /\ i <= cutoff
        /\ \E j \in DOMAIN log :
              /\ i <= j /\ j <= cutoff
              /\ Completed(log[j])
              /\ \A k \in i .. (j - 1) : log[k].role = "user"}
==============================================================================
