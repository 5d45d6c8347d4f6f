------------------------------- MODULE Inbox -------------------------------
(***************************************************************************)
(* The agents' inbox (store.rs) and its idle-gated delivery by the         *)
(* maintenance tick (Manager::deliver_pending): at most one message per    *)
(* receiver and tick is typed into the receiver's terminal, marked, and    *)
(* submitted by a delayed Enter from a thread of its own.                  *)
(*                                                                         *)
(* A receiver is modelled by its input box, whether it is working, and     *)
(* what its screen shows; the daemon knows the screen only, and the screen *)
(* trails the agent by the way its output takes through the terminal.      *)
(***************************************************************************)
EXTENDS Integers, Sequences, FiniteSets

CONSTANTS
  Receivers,   \* Agent IDs
  Nobody,      \* no receiver is being delivered to
  MaxFailures, \* bound of the model: updates of the store that fail
  MaxMessages  \* bound of the model: messages ever enqueued

ASSUME InboxAssumption ==
  Nobody \notin Receivers /\ MaxFailures \in Nat /\ MaxMessages \in Nat

VARIABLES
  inbox,                  \* the inbox table: row id -> [to, status]
  session,                \* the receiver's session: in the map and live, exited, or swept
  box, working, screen,   \* the receiver's input box and state, and the state its screen shows
  enters,                 \* delayed Enters on their way
  todo, current, message, \* the tick: receivers left, the one being delivered to, its message
  tick,                   \* where the tick is
  typed, submitted,       \* history: messages typed, and messages submitted, per receiver
  failures                \* history: updates of the store that failed

tickVars == <<todo, current, message, tick>>
agentVars == <<box, working, screen>>
vars == <<inbox, session, agentVars, enters, tickVars, typed, submitted, failures>>

Ids == DOMAIN inbox
PendingFor(r) == {i \in Ids : inbox[i].to = r /\ inbox[i].status = "pending"}
ReceiversWithPending == {r \in Receivers : PendingFor(r) # {}}

\* pending_for(r, 1), as a set of at most one row. (Mutant: the newest.)
NewestPending(r) == {i \in PendingFor(r) : \A j \in PendingFor(r) : j <= i}
OldestPending(r) == {i \in PendingFor(r) : \A j \in PendingFor(r) : i <= j}

Init ==
  /\ inbox = <<>>
  /\ session = [r \in Receivers |-> "live"]
  /\ box = [r \in Receivers |-> <<>>]
  /\ working = [r \in Receivers |-> FALSE] /\ screen = [r \in Receivers |-> "idle"]
  /\ enters = [r \in Receivers |-> 0]
  /\ todo = {} /\ current = Nobody /\ message = 0 /\ tick = "idle"
  /\ typed = [r \in Receivers |-> <<>>] /\ submitted = [r \in Receivers |-> <<>>]
  /\ failures = 0

-----------------------------------------------------------------------------
(* Senders, and the agent at the other end of the terminal.                *)

\* enqueue_message: any agent, the app, a schedule or the fan-in of a worker.
Enqueue(r) ==
  /\ Len(inbox) < MaxMessages
  /\ inbox' = Append(inbox, [to |-> r, status |-> "pending"])
  /\ UNCHANGED <<session, agentVars, enters, tickVars, typed, submitted, failures>>

\* The agent finishes the turn it is working on.
FinishTurn(r) ==
  /\ session[r] = "live" /\ working[r]
  /\ working' = [working EXCEPT ![r] = FALSE]
  /\ UNCHANGED <<inbox, session, box, screen, enters, tickVars, typed, submitted, failures>>

\* Its output reaches the daemon's copy of the screen.
Shown(r) == IF working[r] THEN "busy" ELSE "idle"
ScreenFollows(r) ==
  /\ session[r] = "live" /\ screen[r] # Shown(r)
  /\ screen' = [screen EXCEPT ![r] = Shown(r)]
  /\ UNCHANGED <<inbox, session, box, working, enters, tickVars, typed, submitted, failures>>

Exit(r) ==
  /\ session[r] = "live"
  /\ session' = [session EXCEPT ![r] = "exited"]
  /\ UNCHANGED <<inbox, agentVars, enters, tickVars, typed, submitted, failures>>

Sweep(r) ==
  /\ session[r] = "exited" /\ tick = "idle"
  /\ session' = [session EXCEPT ![r] = "swept"]
  /\ UNCHANGED <<inbox, agentVars, enters, tickVars, typed, submitted, failures>>

\* The delayed Enter: whatever is in the box is submitted, as one prompt.
SubmitLate(r) ==
  /\ enters[r] > 0
  /\ enters' = [enters EXCEPT ![r] = @ - 1]
  /\ IF session[r] = "live" /\ box[r] # <<>>
       THEN /\ submitted' = [submitted EXCEPT ![r] = @ \o box[r]]
            /\ box' = [box EXCEPT ![r] = <<>>]
            /\ working' = [working EXCEPT ![r] = TRUE]
       ELSE UNCHANGED <<submitted, box, working>>
  /\ UNCHANGED <<inbox, session, screen, tickVars, typed, failures>>

-----------------------------------------------------------------------------
(* deliver_pending.                                                        *)

TickBegins ==
  /\ tick = "idle" /\ ReceiversWithPending # {}
  /\ todo' = ReceiversWithPending /\ tick' = "next"
  /\ UNCHANGED <<inbox, session, agentVars, enters, current, message, typed, submitted, failures>>

Ready(r) == session[r] = "live" /\ screen[r] = "idle"

SkipReceiver(r) ==
  /\ tick = "next" /\ r \in todo
  /\ ~Ready(r)
  /\ todo' = todo \ {r}
  /\ UNCHANGED <<inbox, session, agentVars, enters, current, message, tick, typed, submitted, failures>>

PickMessage(r) ==
  /\ tick = "next" /\ r \in todo
  /\ Ready(r)
  /\ todo' = todo \ {r}
  /\ current' = r /\ message' \in OldestPending(r) /\ tick' = "input"
  /\ UNCHANGED <<inbox, session, agentVars, enters, typed, submitted, failures>>

TickEnds ==
  /\ tick = "next" /\ todo = {}
  /\ tick' = "idle"
  /\ UNCHANGED <<inbox, session, agentVars, enters, todo, current, message, typed, submitted, failures>>

\* session.input succeeds: the text is in the box (a terminal whose agent just
\* exited may still swallow it).
InputOk ==
  /\ tick = "input"
  /\ typed' = [typed EXCEPT ![current] = Append(@, message)]
  /\ box' = IF session[current] = "live" THEN [box EXCEPT ![current] = Append(@, message)] ELSE box
  /\ tick' = "mark"
  /\ UNCHANGED <<inbox, session, working, screen, enters, todo, current, message, submitted, failures>>

InputFails ==
  /\ tick = "input" /\ session[current] # "live"
  /\ tick' = "fail"
  /\ UNCHANGED <<inbox, session, agentVars, enters, todo, current, message, typed, submitted, failures>>

Done == current' = Nobody /\ message' = 0 /\ tick' = "next"

\* UPDATE inbox SET status, its error ignored.
MarkAs(status) ==
  \/ /\ inbox' = [inbox EXCEPT ![message].status = status]
     /\ UNCHANGED failures
  \/ /\ failures < MaxFailures
     /\ failures' = failures + 1
     /\ UNCHANGED inbox

\* Mutant: the delayed Enter is not sent.
EnterForgotten == enters
EnterSent == [enters EXCEPT ![current] = @ + 1]

\* Marked or not, the Enter is sent.
MarkDelivered ==
  /\ tick = "mark"
  /\ MarkAs("delivered")
  /\ enters' = EnterSent
  /\ Done
  /\ UNCHANGED <<session, agentVars, todo, typed, submitted>>

MarkFailed ==
  /\ tick = "fail"
  /\ MarkAs("failed")
  /\ Done
  /\ UNCHANGED <<session, agentVars, enters, todo, typed, submitted>>

-----------------------------------------------------------------------------
Tick ==
  \/ TickBegins \/ TickEnds \/ InputOk \/ InputFails \/ MarkDelivered \/ MarkFailed
  \/ \E r \in Receivers : SkipReceiver(r) \/ PickMessage(r)

Agent(r) == FinishTurn(r) \/ ScreenFollows(r)

Next ==
  \/ Tick
  \/ \E r \in Receivers : Enqueue(r) \/ Agent(r) \/ Exit(r) \/ Sweep(r) \/ SubmitLate(r)

Spec == Init /\ [][Next]_vars

\* The tick runs every 250 ms, the Enter threads wake up, output gets through;
\* an agent finishes its turns (assumed of the agent, not of the daemon).
DeliveryFairness ==
  /\ WF_vars(Tick)
  /\ \A r \in Receivers : WF_vars(SubmitLate(r)) /\ WF_vars(FinishTurn(r)) /\ WF_vars(ScreenFollows(r))

DeliverySpec == Spec /\ DeliveryFairness

-----------------------------------------------------------------------------
(* Properties.                                                             *)

RangeOf(seq) == {seq[i] : i \in DOMAIN seq}

Status == {"pending", "delivered", "failed"}

TypeOK ==
  /\ inbox \in Seq([to : Receivers, status : Status])
  /\ session \in [Receivers -> {"live", "exited", "swept"}]
  /\ working \in [Receivers -> BOOLEAN] /\ screen \in [Receivers -> {"idle", "busy"}]
  /\ enters \in [Receivers -> Nat] /\ failures \in Nat
  /\ todo \subseteq Receivers
  /\ tick \in {"idle", "next", "input", "mark", "fail"}
  /\ IF tick \in {"input", "mark", "fail"}
       THEN current \in Receivers /\ message \in Ids /\ inbox[message].to = current
       ELSE current = Nobody /\ message = 0
  /\ box \in [Receivers -> Seq(Ids)] /\ typed \in [Receivers -> Seq(Ids)]
  /\ submitted \in [Receivers -> Seq(Ids)]

\* The inbox implements the mailbox its senders rely on: receivers get their
\* messages in the order they were enqueued, none skipped while they live, and
\* one again only for an update of the store that failed (set_message_status's
\* error is ignored).
Mail == INSTANCE Mailbox WITH
  Members <- Receivers, MaxRows <- MaxMessages, MaxRepeats <- MaxFailures,
  sent <- [i \in Ids |-> inbox[i].to],
  given <- typed,
  here <- {r \in Receivers : session[r] # "swept"},
  repeats <- failures

MailboxKept == Mail!MailboxSpec

\* What was typed to a live receiver was submitted, in order, or is still in its
\* box with an Enter on its way or about to be sent.
TypedIsSubmitted ==
  \A r \in Receivers : session[r] = "live" =>
    /\ submitted[r] \o box[r] = typed[r]
    /\ box[r] # <<>> => enters[r] > 0 \/ (tick = "mark" /\ current = r)

\* A message to a receiver that lives on is eventually typed and submitted.
EventuallySubmitted ==
  \A i \in 1..MaxMessages, r \in Receivers :
    (i \in Ids /\ inbox[i].to = r)
      ~> (session[r] # "live" \/ i \in RangeOf(submitted[r]))
-----------------------------------------------------------------------------
(* The inductive invariant of the proofs (Messages_proofs).                *)

\* A delivery in hand is of the oldest pending row of a receiver that lived when
\* it was picked and cannot be swept before the tick is through.
InHandInv ==
  /\ tick = "input" => message \in OldestPending(current) /\ session[current] # "swept"
  /\ tick = "mark" => typed[current] # <<>> /\ message = typed[current][Len(typed[current])]
  /\ tick = "fail" => session[current] # "live"

Reachable(r) == session[r] = "live" \/ (tick = "input" /\ current = r)

\* A row that was typed and is pending still, its update having failed or not come yet.
StillPending(r) == {i \in PendingFor(r) : i \in RangeOf(typed[r])}

\* Rows are typed in order: none is skipped as long as its receiver can be reached, and
\* one typed before is pending only if it was the last.
OrderInv(r) ==
  /\ \A i \in Ids : inbox[i].to = r =>
       /\ inbox[i].status = "delivered" => i \in RangeOf(typed[r])
       /\ inbox[i].status = "failed" => ~Reachable(r)
       /\ i \notin RangeOf(typed[r]) => \A j \in RangeOf(typed[r]) : j < i
  /\ \A i \in RangeOf(typed[r]) : inbox[i].to = r
  /\ \A i \in StillPending(r) : i = typed[r][Len(typed[r])]

\* Rows typed again are fewer than failed updates while one of them is owed to a row
\* that is pending still.
CountInv(r) ==
  LET again == Len(typed[r]) - Cardinality(RangeOf(typed[r]))
      owed == StillPending(r) # {} /\ ~(tick = "mark" /\ current = r)
  IN again + (IF owed THEN 1 ELSE 0) <= failures

InboxInv ==
  /\ TypeOK /\ InHandInv /\ TypedIsSubmitted
  /\ \A r \in Receivers : OrderInv(r) /\ CountInv(r)
=============================================================================
