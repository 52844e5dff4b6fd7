------------------------------- MODULE ChatTurn -------------------------------
(***************************************************************************)
(* The chat turns of one job (backend/app/api/chat.py,                     *)
(* services/chat_comparisons.py, services/mnemos_evidence_receipts.py).    *)
(*                                                                         *)
(* A POST looks its request up, prepares a prompt (awaiting retrieval),    *)
(* admits the question under the database write lock, generates (awaiting  *)
(* the model) and persists the answer.  Other POSTs, the expiry of the     *)
(* question's lease, the deletion of its conversation and the end of the   *)
(* API process can come at every await.  Everything between two awaits is  *)
(* one step: the API is one event loop.                                    *)
(*                                                                         *)
(* A conversation started without an identifier is named by the request    *)
(* that started it (uuid5 of job and request), so a root conversation is a *)
(* member of Request here.  A branch is a MNEMOS conversation that         *)
(* continues a prefix of its root.                                         *)
(***************************************************************************)
EXTENDS ChatLog, FiniteSets

CONSTANTS Branch,  \* identifiers for branch conversations; one is used once
          Call,    \* POSTs being handled, over both transports
          None

ASSUME DistinctAssumption ==
    /\ Request \cap Branch = {}
    /\ None \notin Request \cup Branch \cup Turn
    /\ None \notin [root : Request, cutoff : Nat]

Conv == Request \cup Branch

VARIABLES open,      \* conversations that exist
          log,       \* their messages
          origin,    \* of a branch: its root and cut-off, None if never made
          receipts,  \* turns whose answer has an evidence receipt file
          expired,   \* turns whose lease has run out
          nextTurn,  \* the next user message
          call,      \* the POSTs under way
          told,      \* history: what callers were given as the final answer
          inherited, \* history: the prefix a branch had when it was made
          orphaned   \* history: receipts whose answer could not be confirmed

store == <<open, log, origin>>
vars == <<store, receipts, expired, nextTurn, call, told, inherited, orphaned>>

Idle == [pc |-> "idle", request |-> None, conv |-> None, turn |-> None]

Init ==
    /\ open = {}
    /\ log = [k \in Conv |-> <<>>]
    /\ origin = [b \in Branch |-> None]
    /\ receipts = {}
    /\ expired = {}
    /\ nextTurn = 1
    /\ call = [c \in Call |-> Idle]
    /\ told = {}
    /\ inherited = [b \in Branch |-> {}]
    /\ orphaned = {}

-----------------------------------------------------------------------------
(* Turns in the store *)

Holds(k, t) == k \in open /\ Asks(log[k], t)
Exists(t) == \E k \in open : Asks(log[k], t)
Answered(t) == \E k \in open : Answers(log[k], t) # {}

(* _find_existing_user_turn, over the conversations of the job *)
Known(r) == \E k \in open : AsksFor(log[k], r)

StatusOf(t) ==
    {s \in Final : \E k \in open : \E i \in Answers(log[k], t) : log[k][i].status = s}

(* _persist_assistant_turn: the answer joins the conversation of its turn *)
Store(t, status, receipt) ==
    log' = [k \in Conv |-> IF Holds(k, t) THEN Add(log[k], Answer(t, status, receipt)) ELSE log[k]]

Tell(t, statuses) == told' = told \cup {[turn |-> t, status |-> s] : s \in statuses}

\* Mutant: a lease counts until it has run out, and not from then on.
Recover_Flipped(t) == t \notin expired /\ Store(t, "interrupted", FALSE)

(* _recover_expired_turn *)
Recover(t) == t \in expired /\ Store(t, "interrupted", FALSE)

(* _response_for_existing_turn: the stored answer, after ending a turn whose *)
(* lease has run out; "pending" tells nothing final                          *)
Respond(t) ==
    \/ /\ Answered(t)
       /\ Tell(t, StatusOf(t))
       /\ UNCHANGED log
    \/ /\ ~Answered(t)
       /\ Recover(t)
       /\ Tell(t, {"interrupted"})
    \/ /\ ~Answered(t)
       /\ t \notin expired
       /\ UNCHANGED <<log, told>>

Leave(c) == call' = [call EXCEPT ![c] = Idle]

-----------------------------------------------------------------------------
(* A POST *)

(* A request that was admitted before is answered from the store. *)
Poll(t) ==
    /\ Exists(t)
    /\ Respond(t)
    /\ UNCHANGED <<open, origin, receipts, expired, nextTurn, call, inherited, orphaned>>

(* A new request; _reject_parallel_turn ends an expired turn, and refuses to *)
(* go on beside a live one.                                                  *)
Begin(c) ==
    /\ call[c].pc = "idle"
    /\ \E r \in Request, k \in open \cup {None} :
          /\ ~Known(r)
          /\ \/ k = None /\ UNCHANGED log
             \/ k # None /\ ~Pending(log[k]) /\ UNCHANGED log
             \/ k # None /\ Pending(log[k]) /\ Recover(Latest(log[k]).turn)
          /\ call' = [call EXCEPT ![c] = [pc |-> "preparing", request |-> r, conv |-> k,
                                          turn |-> None]]
    /\ UNCHANGED <<open, origin, receipts, expired, nextTurn, told, inherited, orphaned>>

(* MNEMOS is unavailable, or the branch has gone *)
PreparationFails(c) ==
    /\ call[c].pc = "preparing"
    /\ Leave(c)
    /\ UNCHANGED <<store, receipts, expired, nextTurn, told, inherited, orphaned>>

(* Without a conversation the turn opens the one named by its request *)
Target(c) == IF call[c].conv = None THEN call[c].request ELSE call[c].conv

\* Mutant: the request is not looked up again after the preparation.
Admit_Unchecked(c) ==
    /\ call[c].pc = "preparing"
    /\ call[c].conv # None => call[c].conv \in open
    /\ Target(c) \in open => ~Pending(log[Target(c)])
    /\ nextTurn <= MaxTurns
    /\ open' = open \cup {Target(c)}
    /\ log' = [log EXCEPT ![Target(c)] = Add(@, Question(nextTurn, call[c].request))]
    /\ nextTurn' = nextTurn + 1
    /\ call' = [call EXCEPT ![c].pc = "generating", ![c].turn = nextTurn]
    /\ UNCHANGED <<origin, receipts, expired, told, inherited, orphaned>>

(* _admit_user_turn: what was looked up before the await is looked up again *)
Admit(c) ==
    /\ call[c].pc = "preparing"
    /\ ~Known(call[c].request)
    /\ call[c].conv # None => call[c].conv \in open
    /\ Target(c) \in open => ~Pending(log[Target(c)])
    /\ nextTurn <= MaxTurns
    /\ open' = open \cup {Target(c)}
    /\ log' = [log EXCEPT ![Target(c)] = Add(@, Question(nextTurn, call[c].request))]
    /\ nextTurn' = nextTurn + 1
    /\ call' = [call EXCEPT ![c].pc = "generating", ![c].turn = nextTurn]
    /\ UNCHANGED <<origin, receipts, expired, told, inherited, orphaned>>

(* Where the caller may find the turn of its request: a body without a      *)
(* conversation asks for a baseline one                                     *)
Meant(c) == IF call[c].conv = None THEN Request ELSE {call[c].conv}

(* The request was admitted meanwhile, by another call with the same body *)
AdmitKnown(c) ==
    /\ call[c].pc = "preparing"
    /\ \E k \in open \cap Meant(c), t \in Turn :
          /\ AsksAs(log[k], t, call[c].request)
          /\ Respond(t)
    /\ Leave(c)
    /\ UNCHANGED <<open, origin, receipts, expired, nextTurn, inherited, orphaned>>

(* the request was admitted to another conversation, this one has gone, or  *)
(* another turn is pending in it: that one is not recovered here            *)
AdmitRefused(c) ==
    /\ call[c].pc = "preparing"
    /\ \/ \E k \in open \ Meant(c) : AsksFor(log[k], call[c].request)
       \/ ~Known(call[c].request) /\ call[c].conv # None /\ call[c].conv \notin open
       \/ ~Known(call[c].request) /\ Target(c) \in open /\ Pending(log[Target(c)])
    /\ Leave(c)
    /\ UNCHANGED <<store, receipts, expired, nextTurn, told, inherited, orphaned>>

(* The lease is fixed at admission; the model may take longer. *)
Expire(t) ==
    /\ Exists(t) /\ ~Answered(t)
    /\ t \notin expired
    /\ expired' = expired \cup {t}
    /\ UNCHANGED <<store, receipts, nextTurn, call, told, inherited, orphaned>>

(* Only a completed MNEMOS answer gets a receipt, when it can be written *)
MayHaveReceipt(t, status) ==
    {FALSE} \cup {TRUE : b \in {b \in Branch : status = "completed" /\ Holds(b, t)}}

\* Mutant: the receipt is published before the stored answer is looked for,
\* and the caller is given what was generated.
Persist_Late(c) ==
    /\ call[c].pc = "generating"
    /\ Exists(call[c].turn)
    /\ LET t == call[c].turn IN
       \E status \in {"completed", "error"} : \E receipt \in MayHaveReceipt(t, status) :
          /\ IF Answered(t) THEN UNCHANGED log ELSE Store(t, status, receipt)
          /\ receipts' = IF receipt THEN receipts \cup {t} ELSE receipts
          /\ Tell(t, {status})
    /\ Leave(c)
    /\ UNCHANGED <<open, origin, expired, nextTurn, inherited, orphaned>>

\* Mutant: the conversation is there, so the turn is taken to be.
Persist_Anywhere(c) ==
    /\ call[c].pc = "generating"
    /\ call[c].conv # None => call[c].conv \in open
    /\ LET t == call[c].turn IN
       /\ ~Answered(t)
       /\ log' = [k \in Conv |-> IF k = Target(c) THEN Add(log[k], Answer(t, "completed", FALSE))
                                 ELSE log[k]]
       /\ Tell(t, {"completed"})
    /\ Leave(c)
    /\ UNCHANGED <<open, origin, receipts, expired, nextTurn, inherited, orphaned>>

(* The answer is stored unless the turn has one; the caller is given what   *)
(* the store holds.  The receipt is published before the commit.            *)
Persist(c) ==
    /\ call[c].pc = "generating"
    /\ Exists(call[c].turn)
    /\ LET t == call[c].turn IN
       \/ /\ Answered(t)
          /\ Tell(t, StatusOf(t))
          /\ UNCHANGED <<log, receipts>>
       \/ /\ ~Answered(t)
          /\ \E status \in {"completed", "error"} : \E receipt \in MayHaveReceipt(t, status) :
                /\ Store(t, status, receipt)
                /\ receipts' = IF receipt THEN receipts \cup {t} ELSE receipts
                /\ Tell(t, {status})
    /\ Leave(c)
    /\ UNCHANGED <<open, origin, expired, nextTurn, inherited, orphaned>>

(* _terminalize_failed_turn, which follows a failure without an await: an   *)
(* answer found in the store is the one to give, otherwise an error is      *)
(* stored; both attempts at that may fail, and the turn may have gone.      *)
Terminalize(t) ==
    \/ /\ Answered(t)
       /\ Tell(t, StatusOf(t))
       /\ UNCHANGED log
    \/ /\ Exists(t) /\ ~Answered(t)
       /\ Store(t, "error", FALSE)
       /\ Tell(t, {"error"})
    \/ /\ ~Answered(t)
       /\ UNCHANGED <<log, told>>

(* The model or the finalisation fails, the turn has gone, or the handler is *)
(* canceled.                                                                 *)
GenerationFails(c) ==
    /\ call[c].pc = "generating"
    /\ Terminalize(call[c].turn)
    /\ Leave(c)
    /\ UNCHANGED <<open, origin, receipts, expired, nextTurn, inherited, orphaned>>

\* Mutant: the receipt is withdrawn whenever the commit raised.
CommitFails_Withdraws(c) ==
    /\ call[c].pc = "generating"
    /\ Exists(call[c].turn) /\ ~Answered(call[c].turn)
    /\ LET t == call[c].turn IN
       \E status \in {"completed", "error"} : \E receipt \in MayHaveReceipt(t, status) :
          \/ Store(t, status, receipt) /\ Tell(t, {status})
          \/ Terminalize(t)
    /\ Leave(c)
    /\ UNCHANGED <<open, origin, receipts, expired, nextTurn, inherited, orphaned>>

(* The commit raised, whatever it did; if it stored the answer, that is     *)
(* found.  The receipt is withdrawn only if a read proves that the answer   *)
(* is not there; the read, and the withdrawal, may fail as well.            *)
CommitFails(c) ==
    /\ call[c].pc = "generating"
    /\ Exists(call[c].turn) /\ ~Answered(call[c].turn)
    /\ LET t == call[c].turn IN
       \E status \in {"completed", "error"} : \E receipt \in MayHaveReceipt(t, status) :
          \/ /\ Store(t, status, receipt) /\ Tell(t, {status})
             /\ receipts' = IF receipt THEN receipts \cup {t} ELSE receipts
             /\ UNCHANGED orphaned
          \/ /\ Terminalize(t)
             /\ \E left \in SUBSET {u \in {t} : receipt} :
                   receipts' = receipts \cup left /\ orphaned' = orphaned \cup left
    /\ Leave(c)
    /\ UNCHANGED <<open, origin, expired, nextTurn, inherited>>

(* The API process ends: its handlers and producers are gone, one of them   *)
(* perhaps between the receipt and the commit.                              *)
Crash ==
    /\ \E c \in Call : call[c].pc # "idle"
    /\ \/ UNCHANGED <<receipts, orphaned>>
       \/ \E c \in Call :
             /\ call[c].pc = "generating"
             /\ ~Answered(call[c].turn)
             /\ TRUE \in MayHaveReceipt(call[c].turn, "completed")
             /\ receipts' = receipts \cup {call[c].turn}
             /\ orphaned' = orphaned \cup {call[c].turn}
    /\ call' = [c \in Call |-> Idle]
    /\ UNCHANGED <<store, expired, nextTurn, told, inherited>>

-----------------------------------------------------------------------------
(* Comparisons *)

NewBranch(b, root, cutoff) ==
    /\ origin[b] = None
    /\ open' = open \cup {b}
    /\ origin' = [origin EXCEPT ![b] = [root |-> root, cutoff |-> cutoff]]
    /\ inherited' = [inherited EXCEPT ![b] = {log[root][i] : i \in History(log[root], cutoff)}]
    /\ UNCHANGED <<log, receipts, expired, nextTurn, call, told, orphaned>>

BranchesOf(root) == {b \in Branch \cap open : origin[b].root = root}

\* Mutant: any conversation can be a root.
OpenComparison_Nested(root, b) ==
    /\ root \in open
    /\ BranchesOf(root) = {}
    /\ NewBranch(b, root, LastCompleted(log[root]))

(* create_mnemos_snapshot, of a root: what is completed now; once for each *)
OpenComparison(root, b) ==
    /\ root \in open \cap Request
    /\ BranchesOf(root) = {}
    /\ NewBranch(b, root, LastCompleted(log[root]))

(* create_mnemos_copy_branch: up to a question that has a completed answer *)
CopyBranch(root, b) ==
    /\ root \in open \cap Request
    /\ BranchesOf(root) # {}
    /\ \E i \in DOMAIN log[root] :
          /\ log[root][i].role = "user"
          /\ i + 1 \in DOMAIN log[root] /\ Completed(log[root][i + 1])
          /\ NewBranch(b, root, i - 1)

(* delete_conversation, of a root with its branches; never of a branch *)
Delete(root) ==
    /\ root \in open \cap Request
    /\ LET gone == {root} \cup BranchesOf(root) IN
       /\ open' = open \ gone
       /\ log' = [k \in Conv |-> IF k \in gone THEN <<>> ELSE log[k]]
    /\ UNCHANGED <<origin, receipts, expired, nextTurn, call, told, inherited, orphaned>>

Next ==
    \/ \E c \in Call :
          \/ Begin(c) \/ PreparationFails(c) \/ Admit(c) \/ AdmitKnown(c) \/ AdmitRefused(c)
          \/ Persist(c) \/ GenerationFails(c) \/ CommitFails(c)
    \/ \E t \in Turn : Poll(t) \/ Expire(t)
    \/ Crash
    \/ \E k \in Conv : Delete(k) \/ \E b \in Branch : OpenComparison(k, b) \/ CopyBranch(k, b)

(* The clock runs, and a client asks again for as long as it is told that   *)
(* its turn is pending (ChatPanel.tsx).  Handlers may never end.            *)
Fairness == \A t \in Turn : WF_vars(Expire(t)) /\ WF_vars(Poll(t))

Spec == Init /\ [][Next]_vars /\ Fairness

-----------------------------------------------------------------------------
(* What a chat promises *)

(* Every variable holds values of its type: a branch names its root, a      *)
(* handler under way its request, and only an admitted turn expires.        *)
TypeOK ==
    /\ open \subseteq Conv
    /\ \A k \in Conv : \A i \in DOMAIN log[k] : log[k][i] \in Message
    /\ origin \in [Branch -> [root : Request, cutoff : 0 .. 2 * MaxTurns] \cup {None}]
    /\ receipts \subseteq Turn /\ expired \subseteq Turn /\ orphaned \subseteq receipts
    /\ nextTurn \in 1 .. MaxTurns + 1
    /\ call \in [Call -> [pc : {"idle", "preparing", "generating"},
                          request : Request \cup {None}, conv : Conv \cup {None},
                          turn : Turn \cup {None}]]
    /\ told \subseteq [turn : Turn, status : Final]
    /\ \A t \in expired \cup receipts : t < nextTurn

(* The model is prompted with a dialogue: whatever calls, leases, deletions *)
(* and failures come between, a conversation that exists alternates a       *)
(* question and the one answer to it, and only its last question may wait.  *)
Alternating ==
    \A k \in Conv : \A i \in DOMAIN log[k] :
        IF i % 2 = 1
        THEN log[k][i].role = "user"
        ELSE log[k][i].role = "assistant" /\ log[k][i].turn = log[k][i - 1].turn

(* A client that sends its request again, over either transport and while   *)
(* the first is still being prepared, gets one turn: no request is asked    *)
(* twice in the conversations of a job.                                     *)
OneTurnPerRequest ==
    \A k, l \in open : \A i \in DOMAIN log[k], j \in DOMAIN log[l] :
        /\ log[k][i].role = "user" /\ log[l][j].role = "user"
        /\ log[k][i].request = log[l][j].request
        => k = l /\ i = j

(* "A late worker cannot overwrite the saved terminal error"                *)
(* (_recover_expired_turn): whoever is told how a turn ended, its own       *)
(* generator after the lease has run out included, is told the same, and    *)
(* that is what the store keeps for it.                                     *)
AgreedAnswer ==
    /\ \A a, b \in told : a.turn = b.turn => a.status = b.status
    /\ \A a \in told : Exists(a.turn) => StatusOf(a.turn) = {a.status}

(* An answer that names a receipt has the file, whatever the commit that    *)
(* published it raised.                                                     *)
ReceiptsBacked ==
    \A k \in open : \A i \in DOMAIN log[k] :
        log[k][i].role = "assistant" /\ log[k][i].receipt => log[k][i].turn \in receipts

(* A receipt is evidence of the answer that stands: unless it was left by a *)
(* crash or by a commit nobody could read back, its turn has a completed    *)
(* answer that names it, never an error or an interruption.                 *)
ReceiptsTrue ==
    \A k \in open : \A i \in DOMAIN log[k] :
        log[k][i].role = "assistant" /\ log[k][i].turn \in receipts \ orphaned
            => log[k][i].status = "completed" /\ log[k][i].receipt

(* "The immutable root prefix" (prompt_history_for_branch): what a branch   *)
(* takes from its root does not change while the root goes on, is cut       *)
(* short by failures, or is deleted and asked again under the same name.    *)
BranchHistoryFixed ==
    \A b \in Branch \cap open :
        /\ origin[b].root \in open
        /\ {log[origin[b].root][i] : i \in History(log[origin[b].root], origin[b].cutoff)}
             = inherited[b]

(* No turn is pending for ever: with its handler gone or stuck, the lease   *)
(* runs out and the next poll ends it, unless its conversation is deleted.  *)
TurnsEnd == \A t \in Turn : Exists(t) ~> (Answered(t) \/ ~Exists(t))
==============================================================================
