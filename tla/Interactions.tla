---------------------------- MODULE Interactions ----------------------------
(***************************************************************************)
(* Request and reply between agents, over the mailbox the inbox implements *)
(* (Inbox!MailboxKept). An agent's CLI calls a tool through its stdio shim; the daemon    *)
(* resolves the shim's token to the calling agent (Manager::handle_mcp)    *)
(* and runs the tool on a thread of its own (conn.rs, McpRequest):         *)
(*                                                                         *)
(*   request   opens a row of taime_interactions, then enqueues the        *)
(*             question, marked with the row's id, for the responder;      *)
(*   reply     reads the row, answers it in a second statement, then       *)
(*             enqueues the answer for the requester;                      *)
(*   others    (send_message, broadcast, handoff; the app's SendMessage)   *)
(*             end in plain messages.                                      *)
(*                                                                         *)
(* An interaction is named by the request call that opened it. Nothing     *)
(* holds a lock across a call's statements, and one agent may have several *)
(* shims (a CLI started inside its terminal inherits the token), so calls  *)
(* of one agent overlap too. The daily pruning drops rows thirty days old, *)
(* answered or not.                                                        *)
(***************************************************************************)
EXTENDS Mailbox

CONSTANTS
  MaxCalls,    \* bound of the model: request and reply calls ever made
  MaxFaults    \* bound of the model: statements that fail, and rows that grow old

ASSUME InteractionsAssumption ==
  /\ MaxCalls \in Nat /\ MaxFaults \in Nat
  /\ MaxRows \in Nat /\ MaxCalls <= MaxRows

VARIABLES
  interactions, \* taime_interactions: call -> [requester, responder, status, reply]
  calls,        \* the tool calls made, with the statement each is about to run
  about,        \* per inbox row: what it carries (kind, interaction, call)
  tokens,       \* agents whose token resolves
  unsent,       \* calls a failing statement ended
  pruned,       \* history: interactions whose row was dropped
  late          \* history: replies accepted after another had written the row

callVars == <<interactions, calls, about, tokens, unsent, pruned, late>>
interactionVars == <<mailVars, callVars>>

Calls == DOMAIN calls
Open == DOMAIN interactions
Plain == [kind |-> "plain", of |-> 0, by |-> 0]

InteractionsInit ==
  /\ MailboxInit
  /\ interactions = [c \in {} |-> 0]
  /\ calls = <<>> /\ about = <<>>
  /\ tokens = Members
  /\ unsent = {} /\ pruned = {} /\ late = {}

At(c, kind, step) == c \in Calls /\ calls[c].kind = kind /\ calls[c].step = step
Goes(c, step) == calls' = [calls EXCEPT ![c].step = step]

\* The agent has read this interaction's id: it was asked, or it is the
\* requester and its call returned it, or it was answered.
Knows(r, i) ==
  \/ \E m \in Given(r) : about[m].of = i
  \/ calls[i].from = r /\ calls[i].step = "done" /\ i \notin unsent

\* The replies that have written the row of an interaction.
Wrote(i) == {c \in Calls : calls[c].kind = "reply" /\ calls[c].of = i /\ calls[c].step \in {"send", "done"}}

-----------------------------------------------------------------------------
(* Calls.                                                                  *)

\* send_message, handoff, one recipient of a broadcast, the app's SendMessage.
Tell(r) ==
  /\ Cardinality({m \in Rows : about[m].kind = "plain"}) < MaxRows - MaxCalls
  /\ Post(r)
  /\ about' = Append(about, Plain)
  /\ UNCHANGED <<interactions, calls, tokens, unsent, pruned, late>>

MayFault == Cardinality(unsent) + Cardinality(pruned) + repeats < MaxFaults

\* A statement on taime_interactions fails, and its error ends the call: nothing
\* after it runs.
StatementFails(c, kind, step) ==
  /\ At(c, kind, step) /\ MayFault
  /\ Goes(c, "failed")
  /\ unsent' = unsent \union {c}
  /\ UNCHANGED <<mailVars, interactions, about, tokens, pruned, late>>

\* enqueue_message as the last statement of a call: its error ends the call.
Send(c, to, kind, of) ==
  \/ /\ Post(to)
     /\ about' = Append(about, [kind |-> kind, of |-> of, by |-> c])
     /\ UNCHANGED <<interactions, tokens, unsent, pruned, late>>
  \/ /\ MayFault
     /\ unsent' = unsent \union {c}
     /\ UNCHANGED <<mailVars, interactions, about, tokens, pruned, late>>

BeginRequest(from, to) ==
  /\ Len(calls) < MaxCalls
  /\ from \in tokens /\ from \in here /\ to # from
  /\ calls' = Append(calls, [kind |-> "request", from |-> from, of |-> Len(calls) + 1,
                             to |-> to, step |-> "open"])
  /\ UNCHANGED <<mailVars, interactions, about, tokens, unsent, pruned, late>>

Pending(c) == [requester |-> calls[c].from, responder |-> calls[c].to,
               status |-> "pending", reply |-> 0]

OpenInteraction(c) ==
  /\ At(c, "request", "open")
  /\ interactions' = [i \in Open \union {c} |-> IF i = c THEN Pending(c) ELSE interactions[i]]
  /\ Goes(c, "send")
  /\ UNCHANGED <<mailVars, about, tokens, unsent, pruned, late>>

SendQuestion(c) ==
  /\ At(c, "request", "send")
  /\ Send(c, calls[c].to, "question", c)
  /\ Goes(c, "done")

Request(c) == OpenInteraction(c) \/ StatementFails(c, "request", "open") \/ SendQuestion(c)

BeginReply(from, i) ==
  /\ Len(calls) < MaxCalls
  /\ from \in tokens /\ from \in here
  /\ i \in Calls /\ calls[i].kind = "request" /\ Knows(from, i)
  /\ calls' = Append(calls, [kind |-> "reply", from |-> from, of |-> i,
                             to |-> from, step |-> "read"])
  /\ UNCHANGED <<mailVars, interactions, about, tokens, unsent, pruned, late>>

\* Mutant: whoever answered first, another reply is accepted.
AcceptsAnswered(from, i) == i \in Open /\ interactions[i].responder = from

\* Only the addressed responder of a row that is pending as it is read.
Accepts(from, i) ==
  /\ i \in Open
  /\ interactions[i].responder = from
  /\ interactions[i].status = "pending"

ReadParties(c) ==
  /\ At(c, "reply", "read")
  /\ IF Accepts(calls[c].from, calls[c].of)
       THEN /\ calls' = [calls EXCEPT ![c].step = "answer",
                                      ![c].to = interactions[calls[c].of].requester]
            /\ late' = IF Wrote(calls[c].of) = {} THEN late ELSE late \union {c}
       ELSE Goes(c, "refused") /\ UNCHANGED late
  /\ UNCHANGED <<mailVars, interactions, about, tokens, unsent, pruned>>

\* UPDATE taime_interactions: by id alone, whatever the status is by now, and if
\* the row is there.
Answered(row, c) == [row EXCEPT !.status = "answered", !.reply = c]
Answer(c) ==
  /\ At(c, "reply", "answer")
  /\ interactions' = [i \in Open |-> IF i = calls[c].of THEN Answered(interactions[i], c)
                                                        ELSE interactions[i]]
  /\ Goes(c, "send")
  /\ UNCHANGED <<mailVars, about, tokens, unsent, pruned, late>>

\* Mutant: the answer is addressed to the caller.
ReplyToSelf(c) == calls[c].from
ReplyTo(c) == calls[c].to

SendAnswer(c) ==
  /\ At(c, "reply", "send")
  /\ Send(c, ReplyTo(c), "answer", calls[c].of)
  /\ Goes(c, "done")

Reply(c) ==
  \/ ReadParties(c) \/ Answer(c) \/ SendAnswer(c)
  \/ \E step \in {"read", "answer"} : StatementFails(c, "reply", step)

-----------------------------------------------------------------------------
\* A dead session leaves the map and its token is dropped; calls it has in
\* flight run on.
SweepAgent(r) ==
  /\ Leave(r)
  /\ tokens' = tokens \ {r}
  /\ UNCHANGED <<interactions, calls, about, unsent, pruned, late>>

\* prune_history: the row is old, whatever its status; calls on it may be running.
\* Its question, as old, was given long ago to a responder that lives.
Prune(i) ==
  /\ i \in Open /\ calls[i].step = "done" /\ MayFault
  /\ \A m \in Rows : about[m].by = i /\ sent[m] \in here => m \in Given(sent[m])
  /\ interactions' = [j \in Open \ {i} |-> interactions[j]]
  /\ pruned' = pruned \union {i}
  /\ UNCHANGED <<mailVars, calls, about, tokens, unsent, late>>

Deliver(r) == (GiveNext(r) \/ GiveAgain(r)) /\ UNCHANGED callVars

InteractionsNext ==
  \/ MarkLost /\ MayFault /\ UNCHANGED callVars
  \/ \E r \in Members : Tell(r) \/ Deliver(r) \/ SweepAgent(r)
  \/ \E r, s \in Members : BeginRequest(r, s)
  \/ \E r \in Members, i \in Calls : BeginReply(r, i)
  \/ \E c \in Calls : Request(c) \/ Reply(c) \/ Prune(c)

\* The threads of the calls run on: nothing they do waits for another call.
\* (The inbox gives a receiver what it is owed: Inbox!EventuallySubmitted.)
InteractionsSpec ==
  /\ InteractionsInit /\ [][InteractionsNext]_interactionVars
  /\ \A r \in Members : WF_interactionVars(GiveNext(r) /\ UNCHANGED callVars)
  /\ \A c \in 1..MaxCalls : WF_interactionVars(Request(c)) /\ WF_interactionVars(Reply(c))

-----------------------------------------------------------------------------
(* Properties.                                                             *)

Answers(i) == {m \in Rows : about[m].kind = "answer" /\ about[m].of = i}

\* The row of an interaction and the messages about it agree: two answers go
\* out only where the two replies overlapped, both having read the row before
\* either wrote it (no reply that wrote it had been accepted late); the row then
\* records one of them, and every answer is on its way to the requester unless its
\* enqueue failed.
AnswersAgree ==
  \A i \in Open :
    LET row == interactions[i]
    IN /\ Wrote(i) \cap late = {}
       /\ row.status = "answered" <=> Wrote(i) # {}
       /\ row.status = "answered" => row.reply \in Wrote(i)
       /\ \A c \in Wrote(i) : calls[c].step = "done" =>
            c \in unsent \/ \E m \in Answers(i) : about[m].by = c /\ sent[m] = row.requester

\* An answer is heard: a reply that was accepted ends, unless its update or its
\* enqueue failed, with the answer in the terminal of a requester that lives on,
\* though another reply overwrites the row or the row is pruned meanwhile.
Heard(c) ==
  \/ calls[c].to \notin here
  \/ c \in unsent
  \/ \E m \in Given(calls[c].to) : about[m].kind = "answer" /\ about[m].by = c

AnswerIsHeard ==
  \A c \in 1..MaxCalls :
    At(c, "reply", "answer") ~> (At(c, "reply", "done") /\ Heard(c)) \/ At(c, "reply", "failed")
-----------------------------------------------------------------------------
(* The inductive invariant of the proofs (Messages_proofs).                *)

Call == [kind : {"request", "reply"}, from : Members, of : Nat, to : Members,
         step : {"open", "read", "answer", "send", "done", "refused", "failed"}]
Row == [requester : Members, responder : Members, status : {"pending", "answered"}, reply : Nat]

InteractionsTypeOK ==
  /\ calls \in Seq(Call) /\ Open \subseteq Calls /\ \A i \in Open : interactions[i] \in Row
  /\ sent \in Seq(Members) /\ about \in Seq([kind : {"plain", "question", "answer"}, of : Nat, by : Nat])
  /\ Len(about) = Len(sent) /\ unsent \subseteq Calls

\* A row is of a request that has opened it; a reply is to a request, and one that
\* was accepted is to one that was opened and goes to the requester of its row.
PartiesInv ==
  /\ \A i \in Open : calls[i].kind = "request" /\ calls[i].step # "open"
  /\ \A c \in Calls : calls[c].kind = "reply" =>
       /\ calls[c].of \in Calls /\ calls[calls[c].of].kind = "request"
       /\ calls[c].step \in {"answer", "send", "done"} =>
            /\ calls[calls[c].of].step # "open"
            /\ calls[c].of \in Open => calls[c].to = interactions[calls[c].of].requester

InteractionsInv == InteractionsTypeOK /\ PartiesInv /\ AnswersAgree /\ late = {}
=============================================================================
