-------------------------- MODULE Messages_proofs --------------------------
(***************************************************************************)
(* Proofs about the messages agents send one another: the inbox implements *)
(* the mailbox, for any receivers, messages and failures, and the row of   *)
(* an interaction agrees with the messages about it.                       *)
(***************************************************************************)
EXTENDS Inbox, Interactions, SequenceTheorems, FiniteSetTheorems, TLAPS

USE DEF tickVars, agentVars

-----------------------------------------------------------------------------
(* Sequences.                                                              *)

LEMMA AppendType ==
  ASSUME NEW S, NEW s \in Seq(S), NEW e \in S
  PROVE  /\ Append(s, e) \in Seq(S) /\ Len(Append(s, e)) = Len(s) + 1 /\ Append(s, e) # <<>>
         /\ DOMAIN Append(s, e) = DOMAIN s \cup {Len(s) + 1}
         /\ \A i \in DOMAIN s : Append(s, e)[i] = s[i]
         /\ Append(s, e)[Len(s) + 1] = e
         /\ Append(s, e)[Len(Append(s, e))] = e
OBVIOUS

LEMMA RangeAppend ==
  ASSUME NEW S, NEW s \in Seq(S), NEW e \in S
  PROVE  RangeOf(Append(s, e)) = RangeOf(s) \cup {e}
BY AppendType DEF RangeOf

LEMMA RangeFinite ==
  ASSUME NEW S, NEW s \in Seq(S)
  PROVE  IsFiniteSet(RangeOf(s)) /\ Cardinality(RangeOf(s)) \in Nat
<1>1. IsFiniteSet(1 .. Len(s)) /\ DOMAIN s = 1 .. Len(s)
  BY FS_Interval
<1>2. s \in Surjection(DOMAIN s, RangeOf(s))
  BY DEF Surjection, RangeOf
<1>3. IsFiniteSet(RangeOf(s))
  BY <1>1, <1>2, FS_Surjection
<1> QED BY <1>3, FS_CardinalityType

-----------------------------------------------------------------------------
(* Inbox: types.                                                           *)

Terminal(r) == FinishTurn(r) \/ ScreenFollows(r) \/ Exit(r) \/ Sweep(r)

LEMMA InboxCases ==
  ASSUME [Next]_vars
  PROVE  \/ \E r \in Receivers : Enqueue(r) \/ Terminal(r) \/ SubmitLate(r) \/ SkipReceiver(r) \/ PickMessage(r)
         \/ TickBegins \/ TickEnds \/ InputOk \/ InputFails \/ MarkDelivered \/ MarkFailed
         \/ UNCHANGED vars
BY DEF Next, Tick, Agent, Terminal

LEMMA InboxGrows ==
  ASSUME TypeOK, NEW r \in Receivers, Enqueue(r)
  PROVE  /\ inbox' = Append(inbox, [to |-> r, status |-> "pending"])
         /\ inbox' \in Seq([to : Receivers, status : Status])
         /\ Ids' = Ids \cup {Len(inbox) + 1} /\ Ids = 1 .. Len(inbox) /\ Len(inbox) \in Nat
         /\ \A i \in Ids : inbox'[i] = inbox[i]
         /\ inbox'[Len(inbox) + 1] = [to |-> r, status |-> "pending"]
<1>1. inbox \in Seq([to : Receivers, status : Status]) /\ [to |-> r, status |-> "pending"] \in [to : Receivers, status : Status]
  BY DEF TypeOK, Status
<1>2. DOMAIN inbox = 1 .. Len(inbox) /\ Len(inbox) \in Nat
  BY <1>1
<1>3. inbox' = Append(inbox, [to |-> r, status |-> "pending"])
  BY DEF Enqueue
<1>4. Ids' = Ids \cup {Len(inbox) + 1}
  BY <1>1, <1>3, AppendType DEF Ids
<1>5. /\ inbox' \in Seq([to : Receivers, status : Status])
      /\ \A i \in Ids : inbox'[i] = inbox[i]
      /\ inbox'[Len(inbox) + 1] = [to |-> r, status |-> "pending"]
  BY <1>1, <1>3, AppendType DEF Ids
<1> QED BY <1>2, <1>3, <1>4, <1>5 DEF Ids

\* Marking a row leaves all but its status.
LEMMA InboxMarked ==
  ASSUME TypeOK, tick \in {"mark", "fail"}, NEW status \in {"delivered", "failed"}, MarkAs(status)
  PROVE  /\ inbox' \in Seq([to : Receivers, status : Status]) /\ Ids' = Ids
         /\ \A i \in Ids : inbox'[i].to = inbox[i].to
         /\ \A i \in Ids \ {message} : inbox'[i] = inbox[i]
         /\ \/ inbox'[message].status = status /\ failures' = failures
            \/ inbox' = inbox /\ failures < MaxFailures /\ failures' = failures + 1
<1>1. CASE inbox' = [inbox EXCEPT ![message].status = status] /\ failures' = failures
  <2>1. message \in 1 .. Len(inbox) /\ inbox \in Seq([to : Receivers, status : Status])
    BY DEF TypeOK, Ids
  <2>2. inbox' = [inbox EXCEPT ![message] = [inbox[message] EXCEPT !.status = status]]
    BY <1>1
  <2>3. inbox[message] \in [to : Receivers, status : Status]
    BY <2>1, ElementOfSeq
  <2>4. [inbox[message] EXCEPT !.status = status] \in [to : Receivers, status : Status]
    BY <2>3 DEF Status
  <2> QED BY <1>1, <2>1, <2>2, <2>3, <2>4, ExceptSeq DEF Ids
<1>2. CASE failures < MaxFailures /\ failures' = failures + 1 /\ UNCHANGED inbox
  BY <1>2 DEF TypeOK, Ids
<1> QED BY <1>1, <1>2 DEF MarkAs


\* Steps of the agent and its terminal leave rows and boxes alone.
LEMMA AgentTypes ==
  ASSUME TypeOK, UNCHANGED <<inbox, box, typed, submitted, failures, enters, todo, current, message, tick>>,
         session' \in [Receivers -> {"live", "exited", "swept"}],
         working' \in [Receivers -> BOOLEAN], screen' \in [Receivers -> {"idle", "busy"}]
  PROVE  TypeOK'
<1>1. Ids' = Ids
  BY DEF Ids
<1> QED BY <1>1 DEF TypeOK

LEMMA InboxTypeStep == TypeOK /\ [Next]_vars => TypeOK'
<1> SUFFICES ASSUME TypeOK, [Next]_vars PROVE TypeOK'
  OBVIOUS
<1>1. ASSUME NEW r \in Receivers, Enqueue(r) PROVE TypeOK'
  <2>1. Ids \subseteq Ids' /\ inbox' \in Seq([to : Receivers, status : Status]) /\ \A i \in Ids : inbox'[i] = inbox[i]
    BY <1>1, InboxGrows
  <2>2. \A s \in Seq(Ids) : s \in Seq(Ids')
    BY <2>1, SeqMonotonic
  <2>3. UNCHANGED <<session, box, working, screen, enters, todo, current, message, tick, typed, submitted, failures>>
    BY <1>1 DEF Enqueue
  <2>4. /\ box' \in [Receivers -> Seq(Ids')] /\ typed' \in [Receivers -> Seq(Ids')]
        /\ submitted' \in [Receivers -> Seq(Ids')]
    BY <2>2, <2>3 DEF TypeOK
  <2>5. IF tick' \in {"input", "mark", "fail"}
          THEN current' \in Receivers /\ message' \in Ids' /\ inbox'[message'].to = current'
          ELSE current' = Nobody /\ message' = 0
    BY <2>1, <2>3 DEF TypeOK
  <2> QED BY <2>1, <2>3, <2>4, <2>5 DEF TypeOK
<1>2. ASSUME NEW r \in Receivers, FinishTurn(r) \/ ScreenFollows(r) PROVE TypeOK'
  <2>1. UNCHANGED <<inbox, session, box, typed, submitted, failures, enters, todo, current, message, tick>>
    BY <1>2 DEF FinishTurn, ScreenFollows
  <2>2. working' \in [Receivers -> BOOLEAN] /\ screen' \in [Receivers -> {"idle", "busy"}]
    BY <1>2 DEF FinishTurn, ScreenFollows, Shown, TypeOK
  <2>3. session' \in [Receivers -> {"live", "exited", "swept"}]
    BY <2>1 DEF TypeOK
  <2> QED BY <2>1, <2>2, <2>3, AgentTypes
<1>3. ASSUME NEW r \in Receivers, Exit(r) \/ Sweep(r) PROVE TypeOK'
  <2>1. UNCHANGED <<inbox, box, typed, submitted, failures, enters, todo, current, message, tick, working, screen>>
    BY <1>3 DEF Exit, Sweep
  <2>2. session' \in [Receivers -> {"live", "exited", "swept"}]
    <3>1. session' = [session EXCEPT ![r] = "exited"] \/ session' = [session EXCEPT ![r] = "swept"]
      BY <1>3 DEF Exit, Sweep
    <3>2. session \in [Receivers -> {"live", "exited", "swept"}]
      BY DEF TypeOK
    <3> QED BY <3>1, <3>2
  <2>3. working' \in [Receivers -> BOOLEAN] /\ screen' \in [Receivers -> {"idle", "busy"}]
    BY <2>1 DEF TypeOK
  <2> QED BY <2>1, <2>2, <2>3, AgentTypes
<1>4. ASSUME NEW r \in Receivers, SubmitLate(r) PROVE TypeOK'
  <2>1. Ids' = Ids /\ UNCHANGED <<inbox, session, screen, todo, current, message, tick, typed, failures>>
    BY <1>4 DEF SubmitLate, Ids
  <2>2. enters' \in [Receivers -> Nat] /\ working' \in [Receivers -> BOOLEAN]
    <3>1. enters \in [Receivers -> Nat] /\ enters[r] > 0 /\ enters' = [enters EXCEPT ![r] = @ - 1]
      BY <1>4 DEF SubmitLate, TypeOK
    <3>2. enters' \in [Receivers -> Nat]
      BY <3>1
    <3>3. working' \in [Receivers -> BOOLEAN]
      BY <1>4 DEF SubmitLate, TypeOK
    <3> QED BY <3>2, <3>3
  <2>3. submitted[r] \o box[r] \in Seq(Ids) /\ <<>> \in Seq(Ids)
    <3>1. submitted[r] \in Seq(Ids) /\ box[r] \in Seq(Ids)
      BY DEF TypeOK
    <3> QED BY <3>1, ConcatProperties
  <2>4. box' \in [Receivers -> Seq(Ids)] /\ submitted' \in [Receivers -> Seq(Ids)]
    BY <1>4, <2>3 DEF SubmitLate, TypeOK
  <2> QED BY <2>1, <2>2, <2>4 DEF TypeOK
<1>5. CASE TickBegins \/ TickEnds \/ InputFails
  BY <1>5 DEF TypeOK, TickBegins, TickEnds, InputFails, ReceiversWithPending, Ids
<1>6. ASSUME NEW r \in Receivers, SkipReceiver(r) \/ PickMessage(r) PROVE TypeOK'
  BY <1>6 DEF TypeOK, SkipReceiver, PickMessage, OldestPending, PendingFor, Ids
<1>7. CASE InputOk
  <2>1. /\ Ids' = Ids /\ UNCHANGED <<inbox, session, working, screen, enters, todo, current, message, submitted, failures>>
        /\ tick = "input" /\ tick' = "mark"
    BY <1>7 DEF InputOk, Ids
  <2>2. current \in Receivers /\ message \in Ids /\ inbox[message].to = current
    BY <2>1 DEF TypeOK
  <2>3. Append(typed[current], message) \in Seq(Ids) /\ Append(box[current], message) \in Seq(Ids)
    BY <2>2, AppendType DEF TypeOK
  <2>4. box' \in [Receivers -> Seq(Ids)] /\ typed' \in [Receivers -> Seq(Ids)]
    BY <1>7, <2>3 DEF InputOk, TypeOK
  <2> QED BY <2>1, <2>2, <2>4 DEF TypeOK
<1>8. CASE MarkDelivered \/ MarkFailed
  <2>1. PICK status \in {"delivered", "failed"} : MarkAs(status)
    BY <1>8 DEF MarkDelivered, MarkFailed
  <2>2. tick \in {"mark", "fail"}
    BY <1>8 DEF MarkDelivered, MarkFailed
  <2>3. inbox' \in Seq([to : Receivers, status : Status]) /\ Ids' = Ids
    BY <2>1, <2>2, InboxMarked
  <2>4. failures' \in Nat
    <3>1. failures \in Nat
      BY DEF TypeOK
    <3> QED BY <2>1, <3>1 DEF MarkAs
  <2>5. enters' \in [Receivers -> Nat]
    <3>1. enters \in [Receivers -> Nat]
      BY DEF TypeOK
    <3>2. enters' = [enters EXCEPT ![current] = @ + 1] \/ enters' = enters
      BY <1>8 DEF MarkDelivered, MarkFailed, EnterSent
    <3> QED BY <3>1, <3>2
  <2>6. /\ UNCHANGED <<session, box, working, screen, todo, typed, submitted>>
        /\ current' = Nobody /\ message' = 0 /\ tick' = "next"
    BY <1>8 DEF MarkDelivered, MarkFailed, Done
  <2> QED BY <2>3, <2>4, <2>5, <2>6 DEF TypeOK
<1>9. CASE UNCHANGED vars
  BY <1>9 DEF vars, TypeOK, Ids
<1> QED BY <1>1, <1>2, <1>3, <1>4, <1>5, <1>6, <1>7, <1>8, <1>9, InboxCases DEF Terminal

-----------------------------------------------------------------------------
(* Inbox: the delivery in hand, and the Enter.                             *)

LEMMA PendingGrows ==
  ASSUME TypeOK, NEW r \in Receivers, NEW q \in Receivers, Enqueue(r)
  PROVE  /\ PendingFor(q)' = PendingFor(q) \cup (IF q = r THEN {Len(inbox) + 1} ELSE {})
         /\ \A i \in PendingFor(q) : i < Len(inbox) + 1
         /\ \A i \in OldestPending(q) : i \in OldestPending(q)'
<1>1. /\ Ids' = Ids \cup {Len(inbox) + 1} /\ Ids = 1 .. Len(inbox) /\ Len(inbox) \in Nat
      /\ \A i \in Ids : inbox'[i] = inbox[i]
      /\ inbox'[Len(inbox) + 1] = [to |-> r, status |-> "pending"]
  BY InboxGrows
<1>2. PendingFor(q)' = PendingFor(q) \cup (IF q = r THEN {Len(inbox) + 1} ELSE {})
  BY <1>1 DEF PendingFor
<1>3. \A i \in PendingFor(q) : i \in 1 .. Len(inbox)
  BY <1>1 DEF PendingFor
<1>4. \A i \in OldestPending(q) : i \in OldestPending(q)'
  BY <1>1, <1>2, <1>3 DEF OldestPending
<1> QED BY <1>1, <1>2, <1>3, <1>4

LEMMA InHandStep == TypeOK /\ InHandInv /\ [Next]_vars => InHandInv'
<1> SUFFICES ASSUME TypeOK, InHandInv, [Next]_vars PROVE InHandInv'
  OBVIOUS
<1>0. ASSUME UNCHANGED <<inbox, typed, session, current, message, tick>> PROVE InHandInv'
  BY <1>0 DEF InHandInv, OldestPending, PendingFor, Ids
<1>1. ASSUME NEW r \in Receivers, Enqueue(r) PROVE InHandInv'
  <2>1. UNCHANGED <<typed, session, current, message, tick>>
    BY <1>1 DEF Enqueue
  <2>2. tick = "input" => current \in Receivers
    BY DEF TypeOK
  <2> QED BY <1>1, <2>1, <2>2, PendingGrows DEF InHandInv
<1>2. ASSUME NEW r \in Receivers, FinishTurn(r) \/ ScreenFollows(r) \/ SubmitLate(r) \/ SkipReceiver(r) PROVE InHandInv'
  BY <1>0, <1>2 DEF FinishTurn, ScreenFollows, SubmitLate, SkipReceiver
<1>3. ASSUME NEW r \in Receivers, Exit(r) \/ Sweep(r) PROVE InHandInv'
  <2>1. UNCHANGED <<inbox, typed, current, message, tick>>
    BY <1>3 DEF Exit, Sweep
  <2>2. tick = "input" => session'[current] # "swept"
    <3> SUFFICES ASSUME tick = "input" PROVE session'[current] # "swept"
      OBVIOUS
    <3>1. session' = [session EXCEPT ![r] = "exited"]
      BY <1>3 DEF Exit, Sweep
    <3> QED BY <3>1 DEF InHandInv, TypeOK
  <2>3. tick = "fail" => session'[current] # "live"
    <3>1. session' = [session EXCEPT ![r] = "exited"] \/ session' = [session EXCEPT ![r] = "swept"]
      BY <1>3 DEF Exit, Sweep
    <3> QED BY <3>1 DEF InHandInv, TypeOK
  <2>4. OldestPending(current)' = OldestPending(current)
    BY <2>1 DEF OldestPending, PendingFor, Ids
  <2> QED BY <2>1, <2>2, <2>3, <2>4 DEF InHandInv
<1>4. ASSUME NEW r \in Receivers, PickMessage(r) PROVE InHandInv'
  <2>1. UNCHANGED <<inbox, session>> /\ tick' = "input" /\ current' = r /\ message' \in OldestPending(r) /\ session[r] = "live"
    BY <1>4 DEF PickMessage, Ready
  <2>2. OldestPending(current)' = OldestPending(r)
    BY <2>1 DEF OldestPending, PendingFor, Ids
  <2> QED BY <2>1, <2>2 DEF InHandInv
<1>5. CASE InputOk
  <2>1. tick = "input" /\ tick' = "mark" /\ UNCHANGED <<current, message>>
        /\ typed' = [typed EXCEPT ![current] = Append(@, message)]
    BY <1>5 DEF InputOk
  <2>2. current \in Receivers /\ message \in Ids /\ typed \in [Receivers -> Seq(Ids)]
    BY <2>1 DEF TypeOK
  <2>3. typed'[current] = Append(typed[current], message)
    BY <2>1, <2>2
  <2> QED BY <2>1, <2>2, <2>3, AppendType DEF InHandInv
<1>6. CASE TickBegins \/ TickEnds \/ MarkDelivered \/ MarkFailed
  <2>1. tick' \in {"idle", "next"}
    BY <1>6 DEF TickBegins, TickEnds, MarkDelivered, MarkFailed, Done
  <2> QED BY <2>1 DEF InHandInv
<1>7. CASE InputFails
  BY <1>7 DEF InputFails, InHandInv
<1>8. CASE UNCHANGED vars
  BY <1>0, <1>8 DEF vars
<1> QED BY <1>1, <1>2, <1>3, <1>4, <1>5, <1>6, <1>7, <1>8, InboxCases DEF Terminal

SubmittedOf(r) ==
  session[r] = "live" =>
    /\ submitted[r] \o box[r] = typed[r]
    /\ box[r] # <<>> => enters[r] > 0 \/ (tick = "mark" /\ current = r)

LEMMA SubmittedStep == TypeOK /\ TypedIsSubmitted /\ [Next]_vars => TypedIsSubmitted'
<1> SUFFICES ASSUME TypeOK, TypedIsSubmitted, [Next]_vars, NEW q \in Receivers PROVE SubmittedOf(q)'
  BY DEF TypedIsSubmitted, SubmittedOf
<1>q. SubmittedOf(q)
  BY DEF TypedIsSubmitted, SubmittedOf
<1>t. /\ submitted \in [Receivers -> Seq(Ids)] /\ box \in [Receivers -> Seq(Ids)] /\ typed \in [Receivers -> Seq(Ids)]
      /\ enters \in [Receivers -> Nat]
  BY DEF TypeOK
<1>0. ASSUME session'[q] = "live" => session[q] = "live", UNCHANGED <<submitted, box, typed, enters>>,
             tick = "mark" => UNCHANGED <<tick, current>>
      PROVE  SubmittedOf(q)'
  BY <1>0, <1>q DEF SubmittedOf
<1>1. ASSUME NEW r \in Receivers, Enqueue(r) \/ Terminal(r) \/ SkipReceiver(r) \/ PickMessage(r) PROVE SubmittedOf(q)'
  <2>1. session'[q] = "live" => session[q] = "live"
    BY <1>1 DEF Enqueue, Terminal, FinishTurn, ScreenFollows, Exit, Sweep, SkipReceiver, PickMessage, TypeOK
  <2>2. UNCHANGED <<submitted, box, typed, enters>> /\ (tick = "mark" => UNCHANGED <<tick, current>>)
    BY <1>1 DEF Enqueue, Terminal, FinishTurn, ScreenFollows, Exit, Sweep, SkipReceiver, PickMessage
  <2> QED BY <1>0, <2>1, <2>2
<1>2. ASSUME NEW r \in Receivers, SubmitLate(r) PROVE SubmittedOf(q)'
  <2>1. UNCHANGED <<session, typed, tick, current>> /\ enters[r] > 0 /\ enters' = [enters EXCEPT ![r] = @ - 1]
    BY <1>2 DEF SubmitLate
  <2>2. CASE session[r] = "live" /\ box[r] # <<>>
    <3>1. submitted' = [submitted EXCEPT ![r] = @ \o box[r]] /\ box' = [box EXCEPT ![r] = <<>>]
      BY <1>2, <2>2 DEF SubmitLate
    <3>2. CASE q = r
      <4>1. submitted'[q] = submitted[q] \o box[q] /\ box'[q] = <<>>
        BY <1>t, <3>1, <3>2
      <4>2. submitted[q] \o box[q] \in Seq(Ids)
        BY <1>t, ConcatProperties
      <4>3. submitted'[q] \o box'[q] = submitted[q] \o box[q]
        BY <4>1, <4>2, ConcatEmptySeq
      <4> QED BY <1>q, <2>1, <4>1, <4>3 DEF SubmittedOf
    <3>3. CASE q # r
      <4>1. submitted'[q] = submitted[q] /\ box'[q] = box[q] /\ enters'[q] = enters[q]
        BY <1>t, <2>1, <3>1, <3>3
      <4> QED BY <1>q, <2>1, <4>1 DEF SubmittedOf
    <3> QED BY <3>2, <3>3
  <2>3. CASE ~(session[r] = "live" /\ box[r] # <<>>)
    <3>1. UNCHANGED <<submitted, box>>
      BY <1>2, <2>3 DEF SubmitLate
    <3>2. q # r => enters'[q] = enters[q]
      BY <1>t, <2>1
    <3> QED BY <1>q, <2>1, <2>3, <3>1, <3>2 DEF SubmittedOf
  <2> QED BY <2>2, <2>3
<1>3. CASE TickBegins \/ TickEnds \/ InputFails \/ UNCHANGED vars
  <2>1. UNCHANGED <<session, submitted, box, typed, enters>> /\ (tick = "mark" => UNCHANGED <<tick, current>>)
    BY <1>3 DEF TickBegins, TickEnds, InputFails, vars
  <2> QED BY <1>0, <2>1
<1>4. CASE InputOk
  <2>1. UNCHANGED <<session, submitted, enters, current>> /\ tick = "input" /\ tick' = "mark"
        /\ typed' = [typed EXCEPT ![current] = Append(@, message)]
        /\ box' = IF session[current] = "live" THEN [box EXCEPT ![current] = Append(@, message)] ELSE box
    BY <1>4 DEF InputOk
  <2>2. current \in Receivers /\ message \in Ids
    BY <2>1 DEF TypeOK
  <2>3. CASE q = current
    <3> SUFFICES ASSUME session[q] = "live" PROVE submitted[q] \o box'[q] = typed'[q]
      BY <2>1, <2>3 DEF SubmittedOf
    <3>0. box'[q] = Append(box[q], message) /\ typed'[q] = Append(typed[q], message)
      BY <1>t, <2>1, <2>2, <2>3
    <3>a. box[q] \in Seq(Ids) /\ typed[q] \in Seq(Ids)
      BY <1>t
    <3>b. <<message>> \in Seq(Ids)
      BY <2>2
    <3>1. box'[q] = box[q] \o <<message>> /\ typed'[q] = typed[q] \o <<message>> /\ <<message>> \in Seq(Ids)
      BY <2>2, <3>0, <3>a, <3>b, AppendIsConcat
    <3>2. submitted[q] \o (box[q] \o <<message>>) = (submitted[q] \o box[q]) \o <<message>>
      BY <1>t, <3>1, ConcatAssociative
    <3> QED BY <1>q, <3>1, <3>2 DEF SubmittedOf
  <2>4. CASE q # current
    <3>1. box'[q] = box[q] /\ typed'[q] = typed[q]
      BY <1>t, <2>1, <2>4
    <3> QED BY <1>q, <2>1, <2>4, <3>1 DEF SubmittedOf
  <2> QED BY <2>3, <2>4
<1>5. CASE MarkDelivered
  <2>1. UNCHANGED <<session, submitted, box, typed>> /\ enters' = [enters EXCEPT ![current] = @ + 1] /\ current \in Receivers
    BY <1>5 DEF MarkDelivered, EnterSent, TypeOK
  <2>2. (q = current => enters'[q] > 0) /\ (q # current => enters'[q] = enters[q])
    BY <1>t, <2>1
  <2> QED BY <1>q, <2>1, <2>2 DEF SubmittedOf
<1>6. CASE MarkFailed
  <2>1. UNCHANGED <<session, submitted, box, typed, enters>> /\ tick # "mark"
    BY <1>6 DEF MarkFailed
  <2> QED BY <1>0, <2>1
<1> QED BY <1>1, <1>2, <1>3, <1>4, <1>5, <1>6, InboxCases

-----------------------------------------------------------------------------
(* Inbox: rows are typed in order, and again no more often than updates    *)
(* fail.                                                                   *)

\* A row is typed: what it says of the rows typed before, and of how often.
LEMMA RowTyped ==
  ASSUME TypeOK, InHandInv, InputOk
  PROVE  /\ current \in Receivers /\ message \in Ids /\ inbox[message].to = current
         /\ inbox[message].status = "pending"
         /\ UNCHANGED inbox /\ tick = "input" /\ tick' = "mark" /\ current' = current /\ failures' = failures
         /\ \A q \in Receivers \ {current} : typed'[q] = typed[q]
         /\ typed'[current] = Append(typed[current], message)
         /\ RangeOf(typed'[current]) = RangeOf(typed[current]) \cup {message}
         /\ \A i \in PendingFor(current) : message <= i
<1>1. /\ tick = "input" /\ tick' = "mark" /\ UNCHANGED <<inbox, current, failures>>
      /\ typed' = [typed EXCEPT ![current] = Append(@, message)]
  BY DEF InputOk
<1>2. current \in Receivers /\ message \in Ids /\ inbox[message].to = current /\ typed \in [Receivers -> Seq(Ids)]
  BY <1>1 DEF TypeOK
<1>3. typed'[current] = Append(typed[current], message) /\ \A q \in Receivers \ {current} : typed'[q] = typed[q]
  BY <1>1, <1>2
<1>4. RangeOf(typed'[current]) = RangeOf(typed[current]) \cup {message}
  BY <1>2, <1>3, RangeAppend
<1>5. message \in PendingFor(current) /\ \A i \in PendingFor(current) : message <= i
  BY <1>1 DEF InHandInv, OldestPending
<1>6. inbox[message].status = "pending"
  BY <1>5 DEF PendingFor
<1> QED BY <1>1, <1>2, <1>3, <1>4, <1>5, <1>6

LEMMA RowStatus ==
  ASSUME TypeOK, NEW i \in Ids PROVE inbox[i].status \in {"pending", "delivered", "failed"}
<1>1. inbox \in Seq([to : Receivers, status : Status]) /\ i \in 1 .. Len(inbox)
  BY LenProperties DEF TypeOK, Ids
<1>2. inbox[i] \in [to : Receivers, status : Status]
  BY <1>1, ElementOfSeq
<1> QED BY <1>2 DEF Status

LEMMA TypedRows ==
  ASSUME TypeOK, NEW q \in Receivers
  PROVE  /\ typed[q] \in Seq(Ids) /\ RangeOf(typed[q]) \subseteq Ids
         /\ Ids = 1 .. Len(inbox) /\ Len(inbox) \in Nat
         /\ IsFiniteSet(RangeOf(typed[q])) /\ Cardinality(RangeOf(typed[q])) \in Nat /\ Len(typed[q]) \in Nat
<1>1. typed[q] \in Seq(Ids) /\ inbox \in Seq([to : Receivers, status : Status])
  BY DEF TypeOK
<1>2. Len(typed[q]) \in Nat /\ RangeOf(typed[q]) \subseteq Ids
  BY <1>1 DEF RangeOf
<1>3. Ids = 1 .. Len(inbox) /\ Len(inbox) \in Nat
  BY <1>1, LenProperties DEF Ids
<1> QED BY <1>1, <1>2, <1>3, RangeFinite

LEMMA OrderStep ==
  ASSUME TypeOK, InHandInv, [Next]_vars, NEW q \in Receivers, OrderInv(q)
  PROVE  OrderInv(q)'
<1>t. typed[q] \in Seq(Ids) /\ RangeOf(typed[q]) \subseteq Ids /\ Ids = 1 .. Len(inbox) /\ Len(inbox) \in Nat
  BY TypedRows
<1>0. ASSUME UNCHANGED inbox, typed'[q] = typed[q], Reachable(q)' => Reachable(q) PROVE OrderInv(q)'
  <2>1. StillPending(q)' = StillPending(q) /\ Ids' = Ids
    BY <1>0 DEF StillPending, PendingFor, Ids
  <2> QED BY <1>0, <2>1 DEF OrderInv
<1>1. ASSUME NEW r \in Receivers, Enqueue(r) PROVE OrderInv(q)'
  <2>1. /\ Ids' = Ids \cup {Len(inbox) + 1} /\ \A i \in Ids : inbox'[i] = inbox[i]
        /\ inbox'[Len(inbox) + 1] = [to |-> r, status |-> "pending"]
    BY <1>1, InboxGrows
  <2>2. UNCHANGED typed /\ (Reachable(q)' <=> Reachable(q))
    BY <1>1 DEF Enqueue, Reachable
  <2>3. Len(inbox) + 1 \notin RangeOf(typed[q]) /\ \A j \in RangeOf(typed[q]) : j < Len(inbox) + 1
    BY <1>t
  <2>4. StillPending(q)' = StillPending(q)
    BY <1>1, <2>2, <2>3, PendingGrows DEF StillPending
  <2>5. \A i \in Ids' : inbox'[i].to = q =>
          /\ inbox'[i].status = "delivered" => i \in RangeOf(typed'[q])
          /\ inbox'[i].status = "failed" => ~Reachable(q)'
          /\ i \notin RangeOf(typed'[q]) => \A j \in RangeOf(typed'[q]) : j < i
    BY <2>1, <2>2, <2>3 DEF OrderInv
  <2>6. \A i \in RangeOf(typed'[q]) : inbox'[i].to = q
    BY <1>t, <2>1, <2>2 DEF OrderInv
  <2> QED BY <2>2, <2>4, <2>5, <2>6 DEF OrderInv
<1>2. ASSUME NEW r \in Receivers, Terminal(r) \/ SubmitLate(r) \/ SkipReceiver(r) PROVE OrderInv(q)'
  <2>1. UNCHANGED <<inbox, typed, tick, current>>
    BY <1>2 DEF Terminal, FinishTurn, ScreenFollows, Exit, Sweep, SubmitLate, SkipReceiver
  <2>2. session'[q] = "live" => session[q] = "live"
    BY <1>2 DEF Terminal, FinishTurn, ScreenFollows, Exit, Sweep, SubmitLate, SkipReceiver, TypeOK
  <2> QED BY <1>0, <2>1, <2>2 DEF Reachable
<1>3. ASSUME NEW r \in Receivers, PickMessage(r) PROVE OrderInv(q)'
  <2>1. UNCHANGED <<inbox, typed, session>> /\ current' = r /\ session[r] = "live"
    BY <1>3 DEF PickMessage, Ready
  <2> QED BY <1>0, <2>1 DEF Reachable
<1>4. CASE TickBegins \/ TickEnds \/ InputFails \/ UNCHANGED vars
  <2>1. UNCHANGED <<inbox, typed, session>> /\ (tick' # "input" \/ UNCHANGED <<tick, current>>)
    BY <1>4 DEF TickBegins, TickEnds, InputFails, vars
  <2> QED BY <1>0, <2>1 DEF Reachable
<1>5. CASE InputOk
  <2>1. UNCHANGED session
    BY <1>5 DEF InputOk
  <2>2. Reachable(q)' => Reachable(q)
    BY <1>5, <2>1, RowTyped DEF Reachable
  <2>3. CASE q # current
    BY <1>0, <1>5, <2>2, <2>3, RowTyped
  <2>4. CASE q = current
    <3>1. /\ UNCHANGED inbox /\ typed'[q] = Append(typed[q], message) /\ message \in PendingFor(q)
          /\ RangeOf(typed'[q]) = RangeOf(typed[q]) \cup {message} /\ \A i \in PendingFor(q) : message <= i
      BY <1>5, <2>4, RowTyped DEF PendingFor
    <3>2. Ids' = Ids /\ PendingFor(q)' = PendingFor(q)
      BY <3>1 DEF Ids, PendingFor
    <3>3. Reachable(q)
      BY <1>5, <2>4, RowTyped DEF Reachable
    <3>4. \A i \in Ids : inbox[i].to = q /\ i \notin RangeOf(typed'[q]) => message < i
      <4> SUFFICES ASSUME NEW i \in Ids, inbox[i].to = q, i \notin RangeOf(typed'[q]) PROVE message < i
        OBVIOUS
      <4>1. inbox[i].status = "pending"
        <5>1. inbox[i].status \in {"pending", "delivered", "failed"}
          BY RowStatus
        <5> QED BY <3>1, <3>3, <5>1 DEF OrderInv
      <4>2. i \in PendingFor(q) /\ i # message
        BY <3>1, <4>1 DEF PendingFor
      <4> QED BY <1>t, <3>1, <4>2 DEF PendingFor
    <3>5. \A i \in StillPending(q)' : i = message
      <4> SUFFICES ASSUME NEW i \in PendingFor(q), i \in RangeOf(typed[q]), i # message PROVE FALSE
        BY <3>1, <3>2 DEF StillPending
      <4>1. message <= i /\ message \in Ids /\ inbox[message].to = q
        BY <3>1 DEF PendingFor
      <4>2. message \in RangeOf(typed[q])
        BY <1>t, <4>1 DEF OrderInv
      <4>3. message \in StillPending(q) /\ i \in StillPending(q)
        BY <3>1, <4>2 DEF StillPending
      <4> QED BY <4>3 DEF OrderInv
    <3>6. typed'[q][Len(typed'[q])] = message
      BY <1>t, <3>1, AppendType DEF PendingFor
    <3>7. \A i \in Ids' : inbox'[i].to = q =>
            /\ inbox'[i].status = "delivered" => i \in RangeOf(typed'[q])
            /\ inbox'[i].status = "failed" => ~Reachable(q)'
            /\ i \notin RangeOf(typed'[q]) => \A j \in RangeOf(typed'[q]) : j < i
      BY <2>2, <3>1, <3>2, <3>4 DEF OrderInv
    <3>8. \A i \in RangeOf(typed'[q]) : inbox'[i].to = q
      BY <3>1 DEF OrderInv, PendingFor
    <3> QED BY <3>5, <3>6, <3>7, <3>8 DEF OrderInv
  <2> QED BY <2>3, <2>4
<1>6. CASE MarkDelivered \/ MarkFailed
  <2>1. PICK status \in {"delivered", "failed"} :
          /\ MarkAs(status)
          /\ status = "delivered" => tick = "mark"
          /\ status = "failed" => tick = "fail"
    BY <1>6 DEF MarkDelivered, MarkFailed
  <2>2. UNCHANGED <<session, typed>> /\ tick' = "next"
    BY <1>6 DEF MarkDelivered, MarkFailed, Done
  <2>3. /\ Ids' = Ids /\ \A i \in Ids : inbox'[i].to = inbox[i].to
        /\ \A i \in Ids \ {message} : inbox'[i] = inbox[i]
        /\ inbox'[message].status = status \/ inbox' = inbox
    BY <2>1, InboxMarked
  <2>4. current \in Receivers /\ message \in Ids /\ inbox[message].to = current
    BY <2>1 DEF TypeOK
  <2>5. StillPending(q)' \subseteq StillPending(q)
    BY <2>2, <2>3, <2>1 DEF StillPending, PendingFor
  <2>6. status = "delivered" => message \in RangeOf(typed[current])
    <3> SUFFICES ASSUME status = "delivered" PROVE message \in RangeOf(typed[current])
      OBVIOUS
    <3>1. typed[current] \in Seq(Ids) /\ typed[current] # <<>> /\ message = typed[current][Len(typed[current])]
      BY <2>1, <2>4 DEF InHandInv, TypeOK
    <3>2. Len(typed[current]) \in DOMAIN typed[current]
      BY <3>1
    <3> QED BY <3>1, <3>2 DEF RangeOf
  <2>7. ~Reachable(q)' <=> session[q] # "live"
    BY <2>2 DEF Reachable
  <2>8. status = "failed" => session[current] # "live"
    BY <2>1 DEF InHandInv
  <2>9. \A i \in Ids' : inbox'[i].to = q =>
          /\ inbox'[i].status = "delivered" => i \in RangeOf(typed'[q])
          /\ inbox'[i].status = "failed" => ~Reachable(q)'
          /\ i \notin RangeOf(typed'[q]) => \A j \in RangeOf(typed'[q]) : j < i
    <3> SUFFICES ASSUME NEW i \in Ids, inbox[i].to = q
                 PROVE /\ inbox'[i].status = "delivered" => i \in RangeOf(typed[q])
                       /\ inbox'[i].status = "failed" => session[q] # "live"
                       /\ i \notin RangeOf(typed[q]) => \A j \in RangeOf(typed[q]) : j < i
      BY <2>2, <2>3, <2>7
    <3>1. /\ inbox[i].status = "delivered" => i \in RangeOf(typed[q])
          /\ inbox[i].status = "failed" => session[q] # "live"
          /\ i \notin RangeOf(typed[q]) => \A j \in RangeOf(typed[q]) : j < i
      BY DEF OrderInv, Reachable
    <3>2. CASE inbox'[i] = inbox[i]
      BY <3>1, <3>2
    <3>3. CASE i = message /\ inbox'[i].status = status
      BY <2>1, <2>4, <2>6, <2>8, <3>1, <3>3
    <3> QED BY <2>3, <3>2, <3>3
  <2>10. \A i \in RangeOf(typed'[q]) : inbox'[i].to = q
    BY <1>t, <2>2, <2>3 DEF OrderInv
  <2> QED BY <2>2, <2>5, <2>9, <2>10 DEF OrderInv
<1> QED BY <1>1, <1>2, <1>3, <1>4, <1>5, <1>6, InboxCases

LEMMA CountStep ==
  ASSUME TypeOK, InHandInv, [Next]_vars, NEW q \in Receivers, OrderInv(q), CountInv(q)
  PROVE  CountInv(q)'
<1> DEFINE n == Len(typed[q])  k == Cardinality(RangeOf(typed[q]))
<1>t. /\ typed[q] \in Seq(Ids) /\ IsFiniteSet(RangeOf(typed[q])) /\ n \in Nat /\ k \in Nat
      /\ Ids = 1 .. Len(inbox) /\ Len(inbox) \in Nat /\ RangeOf(typed[q]) \subseteq Ids
  BY TypedRows
<1>f. failures \in Nat /\ n - k <= failures
      /\ (StillPending(q) # {} /\ ~(tick = "mark" /\ current = q) => n - k + 1 <= failures)
  BY <1>t DEF TypeOK, CountInv
<1>0. ASSUME typed'[q] = typed[q], StillPending(q)' \subseteq StillPending(q),
             failures' = failures \/ failures' = failures + 1,
             tick = "mark" /\ current = q =>
               \/ StillPending(q)' = {} \/ failures' = failures + 1 \/ (tick' = "mark" /\ current' = q)
      PROVE  CountInv(q)'
  BY <1>0, <1>t, <1>f DEF CountInv
<1>1. ASSUME NEW r \in Receivers, Enqueue(r) PROVE CountInv(q)'
  <2>1. UNCHANGED <<typed, tick, current, failures>>
    BY <1>1 DEF Enqueue
  <2>2. Len(inbox) + 1 \notin RangeOf(typed[q])
    BY <1>t
  <2>3. StillPending(q)' = StillPending(q)
    BY <1>1, <2>1, <2>2, PendingGrows DEF StillPending
  <2> QED BY <1>0, <2>1, <2>3
<1>2. ASSUME UNCHANGED <<inbox, typed, failures>>, tick # "mark" \/ UNCHANGED <<tick, current>> PROVE CountInv(q)'
  <2>1. StillPending(q)' = StillPending(q)
    BY <1>2 DEF StillPending, PendingFor, Ids
  <2> QED BY <1>0, <1>2, <2>1
<1>3. ASSUME NEW r \in Receivers, Terminal(r) \/ SubmitLate(r) \/ SkipReceiver(r) \/ PickMessage(r) PROVE CountInv(q)'
  BY <1>2, <1>3 DEF Terminal, FinishTurn, ScreenFollows, Exit, Sweep, SubmitLate, SkipReceiver, PickMessage
<1>4. CASE TickBegins \/ TickEnds \/ InputFails \/ UNCHANGED vars
  BY <1>2, <1>4 DEF TickBegins, TickEnds, InputFails, vars
<1>5. CASE InputOk
  <2>1. CASE q # current
    <3>1. typed'[q] = typed[q] /\ UNCHANGED <<inbox, current, failures>> /\ tick = "input"
      BY <1>5, <2>1, RowTyped
    <3>2. StillPending(q)' = StillPending(q)
      BY <3>1 DEF StillPending, PendingFor, Ids
    <3> QED BY <1>0, <3>1, <3>2
  <2>2. CASE q = current
    <3>1. /\ typed'[q] = Append(typed[q], message) /\ message \in Ids
          /\ RangeOf(typed'[q]) = RangeOf(typed[q]) \cup {message}
          /\ tick = "input" /\ tick' = "mark" /\ current' = q /\ failures' = failures
          /\ message \in PendingFor(q)
      BY <1>5, <2>2, RowTyped DEF PendingFor
    <3>2. Len(typed'[q]) = n + 1
      BY <1>t, <3>1, AppendType
    <3>3. CASE message \in RangeOf(typed[q])
      <4>1. StillPending(q) # {} /\ RangeOf(typed'[q]) = RangeOf(typed[q])
        BY <3>1, <3>3 DEF StillPending
      <4>2. n - k + 1 <= failures
        BY <1>f, <3>1, <4>1
      <4>3. Cardinality(RangeOf(typed'[q])) = k
        BY <4>1
      <4> QED BY <1>t, <3>1, <3>2, <4>2, <4>3 DEF CountInv
    <3>4. CASE message \notin RangeOf(typed[q])
      <4>1. Cardinality(RangeOf(typed'[q])) = k + 1
        BY <1>t, <3>1, <3>4, FS_AddElement
      <4> QED BY <1>t, <1>f, <3>1, <3>2, <4>1 DEF CountInv
    <3> QED BY <3>3, <3>4
  <2> QED BY <2>1, <2>2
<1>6. CASE MarkDelivered \/ MarkFailed
  <2>1. PICK status \in {"delivered", "failed"} : MarkAs(status) /\ (tick = "mark" => status = "delivered") /\ tick \in {"mark", "fail"}
    BY <1>6 DEF MarkDelivered, MarkFailed
  <2>2. UNCHANGED typed
    BY <1>6 DEF MarkDelivered, MarkFailed
  <2>3. /\ Ids' = Ids /\ \A i \in Ids : inbox'[i].to = inbox[i].to
        /\ \A i \in Ids \ {message} : inbox'[i] = inbox[i]
        /\ \/ inbox'[message].status = status /\ failures' = failures
           \/ inbox' = inbox /\ failures' = failures + 1
    BY <2>1, InboxMarked
  <2>4. StillPending(q)' \subseteq StillPending(q)
    BY <2>1, <2>2, <2>3 DEF StillPending, PendingFor
  <2>5. ASSUME tick = "mark", current = q, failures' = failures PROVE StillPending(q)' = {}
    <3>1. \A i \in StillPending(q) : i = message
      BY <2>5 DEF OrderInv, InHandInv
    <3>2. inbox'[message].status = "delivered"
      BY <1>f, <2>1, <2>3, <2>5
    <3> QED BY <2>4, <3>1, <3>2 DEF StillPending, PendingFor
  <2> QED BY <1>0, <2>2, <2>3, <2>4, <2>5
<1> QED BY <1>1, <1>3, <1>4, <1>5, <1>6, InboxCases

-----------------------------------------------------------------------------
(* Inbox: the invariant, and that it implements the mailbox.               *)

LEMMA InboxInit == Init => InboxInv
<1> SUFFICES ASSUME Init PROVE InboxInv
  OBVIOUS
<1>1. inbox = <<>> /\ Ids = {} /\ \A S : <<>> \in Seq(S)
  BY DEF Init, Ids
<1>2. \A r \in Receivers : typed[r] = <<>> /\ box[r] = <<>> /\ submitted[r] = <<>>
  BY DEF Init
<1>3. TypeOK
  BY <1>1, InboxAssumption DEF Init, TypeOK
<1>4. InHandInv
  BY DEF Init, InHandInv
<1>5. TypedIsSubmitted
  <2>1. <<>> \o <<>> = <<>>
    BY <1>1, ConcatEmptySeq
  <2> QED BY <1>2, <2>1 DEF TypedIsSubmitted
<1>6. ASSUME NEW r \in Receivers PROVE OrderInv(r) /\ CountInv(r)
  <2>1. RangeOf(typed[r]) = {} /\ StillPending(r) = {} /\ Len(typed[r]) = 0
    BY <1>1, <1>2 DEF RangeOf, StillPending, PendingFor
  <2>2. Cardinality(RangeOf(typed[r])) = 0 /\ failures = 0
    BY <2>1, FS_EmptySet DEF Init
  <2> QED BY <1>1, <2>1, <2>2 DEF OrderInv, CountInv
<1> QED BY <1>3, <1>4, <1>5, <1>6 DEF InboxInv

\* InboxInv is inductive: deliver_pending (manager.rs) keeps rows in order however
\* senders, agents and the store behave between its steps.
THEOREM InboxInvariant == Spec => []InboxInv
<1>1. Init => InboxInv
  BY InboxInit
<1>2. InboxInv /\ [Next]_vars => InboxInv'
  <2> SUFFICES ASSUME InboxInv, [Next]_vars PROVE InboxInv'
    OBVIOUS
  <2>1. TypeOK' /\ InHandInv' /\ TypedIsSubmitted'
    BY InboxTypeStep, InHandStep, SubmittedStep DEF InboxInv
  <2>2. \A r \in Receivers : OrderInv(r)' /\ CountInv(r)'
    BY OrderStep, CountStep DEF InboxInv
  <2> QED BY <2>1, <2>2 DEF InboxInv
<1> QED BY <1>1, <1>2, PTL DEF Spec

\* What deliver_pending types into a live agent's terminal is submitted by the delayed
\* Enter of its thread, in the order it was typed.
THEOREM SubmittedSafety == Spec => []TypedIsSubmitted
<1>1. InboxInv => TypedIsSubmitted
  BY DEF InboxInv
<1> QED BY <1>1, InboxInvariant, PTL

\* The instance of Mailbox has its own copy of what it extends.
LEMMA MailCardinality == \A S : Mail!Cardinality(S) = Cardinality(S)
BY DEF Mail!Cardinality, Cardinality, Mail!IsFiniteSet, IsFiniteSet

LEMMA MailView ==
  /\ Mail!Rows = Ids
  /\ \A r \in Receivers : Mail!RowsFor(r) = {i \in Ids : inbox[i].to = r} /\ Mail!Given(r) = RangeOf(typed[r])
BY DEF Mail!Rows, Mail!RowsFor, Mail!Given, RangeOf, Ids

\* The row in hand is the next its receiver is due, or the one it was just given.
LEMMA TypedIsGiven ==
  ASSUME InboxInv, InputOk
  PROVE  Mail!GiveNext(current) \/ Mail!GiveAgain(current)
<1>1. /\ current \in Receivers /\ message \in Ids /\ inbox[message].to = current
      /\ inbox[message].status = "pending" /\ UNCHANGED <<inbox, failures>> /\ tick = "input"
      /\ \A i \in PendingFor(current) : message <= i
  BY RowTyped DEF InboxInv
<1>2. OrderInv(current) /\ CountInv(current)
  BY <1>1 DEF InboxInv
<1>3. Mail!GiveRow(current, message)
  <2>1. typed' = [typed EXCEPT ![current] = Append(@, message)] /\ UNCHANGED session
    BY DEF InputOk
  <2>2. session[current] # "swept"
    BY <1>1 DEF InboxInv, InHandInv
  <2> QED BY <1>1, <2>1, <2>2 DEF Mail!GiveRow, Ids
<1>4. CASE message \notin RangeOf(typed[current])
  <2>1. message \in Mail!RowsFor(current) \ Mail!Given(current)
    BY <1>1, <1>4, MailView
  <2>2. ASSUME NEW j \in Mail!RowsFor(current) \ Mail!Given(current) PROVE message <= j
    <3>1. j \in Ids /\ inbox[j].to = current /\ j \notin RangeOf(typed[current])
      BY <1>1, <2>2, MailView
    <3>2. inbox[j].status # "delivered" /\ inbox[j].status # "failed"
      BY <1>1, <1>2, <3>1 DEF OrderInv, Reachable
    <3>3. inbox[j].status = "pending"
      BY <3>1, <3>2, RowStatus DEF InboxInv
    <3> QED BY <1>1, <3>1, <3>3 DEF PendingFor
  <2> QED BY <1>3, <2>1, <2>2 DEF Mail!GiveNext
<1>5. CASE message \in RangeOf(typed[current])
  <2>1. message \in StillPending(current)
    BY <1>1, <1>5 DEF StillPending, PendingFor
  <2>2. message = typed[current][Len(typed[current])] /\ typed[current] # <<>>
    BY <1>2, <1>5, <2>1 DEF OrderInv, RangeOf
  <2>3. Len(typed[current]) - Cardinality(RangeOf(typed[current])) + 1 <= failures
    BY <1>1, <1>2, <2>1 DEF CountInv
  <2>4. Mail!Repeated(current) < failures
    <3>1. Mail!Repeated(current) = Len(typed[current]) - Cardinality(RangeOf(typed[current]))
      <4>1. Mail!Given(current) = RangeOf(typed[current])
        BY <1>1, MailView
      <4> QED BY <4>1, MailCardinality DEF Mail!Repeated
    <3>2. Len(typed[current]) \in Nat /\ Cardinality(RangeOf(typed[current])) \in Nat /\ failures \in Nat
      <4>1. TypeOK
        BY DEF InboxInv
      <4>2. failures \in Nat
        BY <4>1 DEF TypeOK
      <4> QED BY <1>1, <4>1, <4>2, TypedRows
    <3> QED BY <2>3, <3>1, <3>2
  <2> QED BY <1>3, <2>2, <2>4 DEF Mail!GiveAgain
<1> QED BY <1>4, <1>5

LEMMA MailStep == InboxInv /\ [Next]_vars => [Mail!MailboxNext]_(Mail!mailVars)
<1> SUFFICES ASSUME InboxInv, [Next]_vars PROVE Mail!MailboxNext \/ UNCHANGED Mail!mailVars
  OBVIOUS
<1>t. TypeOK
  BY DEF InboxInv
<1>0. ASSUME Ids' = Ids, \A i \in Ids : inbox'[i].to = inbox[i].to, UNCHANGED <<typed, failures>>,
             \A r \in Receivers : session'[r] = "swept" <=> session[r] = "swept"
      PROVE  UNCHANGED Mail!mailVars
  BY <1>0 DEF Mail!mailVars
<1>1. ASSUME NEW r \in Receivers, Enqueue(r) PROVE Mail!Post(r)
  <2>1. /\ Ids' = Ids \cup {Len(inbox) + 1} /\ Ids = 1 .. Len(inbox) /\ Len(inbox) \in Nat
        /\ \A i \in Ids : inbox'[i] = inbox[i]
        /\ inbox'[Len(inbox) + 1] = [to |-> r, status |-> "pending"]
    BY <1>t, <1>1, InboxGrows
  <2>2. Len(inbox) < MaxMessages /\ UNCHANGED <<typed, session, failures>>
    BY <1>1 DEF Enqueue
  <2> DEFINE rows == [i \in Ids |-> inbox[i].to]
  <2>3. rows \in Seq(Receivers) /\ Len(rows) = Len(inbox)
    <3>1. \A i \in 1 .. Len(inbox) : inbox[i].to \in Receivers
      <4> SUFFICES ASSUME NEW i \in 1 .. Len(inbox) PROVE inbox[i].to \in Receivers
        OBVIOUS
      <4>1. inbox[i] \in [to : Receivers, status : Status]
        BY <1>t, ElementOfSeq DEF TypeOK
      <4> QED BY <4>1
    <3> QED BY <2>1, <3>1
  <2>4. rows' = Append(rows, r)
    BY <2>1, <2>3
  <2> QED BY <2>2, <2>3, <2>4 DEF Mail!Post
<1>2. ASSUME NEW r \in Receivers, FinishTurn(r) \/ ScreenFollows(r) \/ Exit(r) \/ SubmitLate(r) \/ SkipReceiver(r) \/ PickMessage(r)
      PROVE  UNCHANGED Mail!mailVars
  <2>1. UNCHANGED <<inbox, typed, failures>>
    BY <1>2 DEF FinishTurn, ScreenFollows, Exit, SubmitLate, SkipReceiver, PickMessage
  <2>2. \A q \in Receivers : session'[q] = "swept" <=> session[q] = "swept"
    BY <1>t, <1>2 DEF FinishTurn, ScreenFollows, Exit, SubmitLate, SkipReceiver, PickMessage, TypeOK
  <2> QED BY <1>0, <2>1, <2>2 DEF Ids
<1>3. ASSUME NEW r \in Receivers, Sweep(r) PROVE Mail!Leave(r)
  <2>1. session[r] = "exited" /\ session' = [session EXCEPT ![r] = "swept"] /\ UNCHANGED <<inbox, typed, failures>>
    BY <1>3 DEF Sweep
  <2>2. session \in [Receivers -> {"live", "exited", "swept"}]
    BY <1>t DEF TypeOK
  <2>3. \A q \in Receivers : session'[q] # "swept" <=> session[q] # "swept" /\ q # r
    BY <2>1, <2>2
  <2> QED BY <2>1, <2>3 DEF Mail!Leave, Ids
<1>4. CASE TickBegins \/ TickEnds \/ InputFails \/ UNCHANGED vars
  BY <1>0, <1>4 DEF TickBegins, TickEnds, InputFails, vars, Ids
<1>5. CASE InputOk
  <2>1. current \in Receivers
    BY <1>t, <1>5 DEF InputOk, TypeOK
  <2> QED BY <1>5, <2>1, TypedIsGiven DEF Mail!MailboxNext
<1>6. CASE MarkDelivered \/ MarkFailed
  <2>1. PICK status \in {"delivered", "failed"} : MarkAs(status) /\ tick \in {"mark", "fail"}
    BY <1>6 DEF MarkDelivered, MarkFailed
  <2>2. UNCHANGED <<typed, session>>
    BY <1>6 DEF MarkDelivered, MarkFailed
  <2>3. /\ Ids' = Ids /\ \A i \in Ids : inbox'[i].to = inbox[i].to
        /\ failures' = failures \/ (failures < MaxFailures /\ failures' = failures + 1)
    BY <1>t, <2>1, InboxMarked
  <2>4. CASE failures' = failures
    BY <1>0, <2>2, <2>3, <2>4
  <2>5. CASE failures < MaxFailures /\ failures' = failures + 1
    <3>1. Mail!MarkLost
      BY <2>2, <2>3, <2>5 DEF Mail!MarkLost
    <3> QED BY <3>1 DEF Mail!MailboxNext
  <2> QED BY <2>3, <2>4, <2>5
<1> QED BY <1>1, <1>2, <1>3, <1>4, <1>5, <1>6, InboxCases DEF Terminal, Mail!MailboxNext

\* The inbox implements the mailbox its senders rely on: enqueue_message and
\* deliver_pending give each agent its rows in order, none skipped, and one again only
\* for an update of the store that failed.
THEOREM MailboxRefinement == Spec => MailboxKept
<1>1. Init => Mail!MailboxInit
  <2> SUFFICES ASSUME Init PROVE Mail!MailboxInit
    OBVIOUS
  <2>1. [i \in Ids |-> inbox[i].to] = <<>>
    BY DEF Init, Ids
  <2>2. typed = [r \in Receivers |-> <<>>] /\ failures = 0 /\ \A r \in Receivers : session[r] # "swept"
    BY DEF Init
  <2> QED BY <2>1, <2>2 DEF Mail!MailboxInit
<1>2. InboxInv /\ [Next]_vars => [Mail!MailboxNext]_(Mail!mailVars)
  BY MailStep
<1> QED BY <1>1, <1>2, InboxInvariant, PTL DEF Spec, MailboxKept, Mail!MailboxSpec

-----------------------------------------------------------------------------
(* Interactions.                                                           *)

LEMMA InteractionsCases ==
  ASSUME [InteractionsNext]_interactionVars
  PROVE  \/ \E r \in Members : Tell(r) \/ SweepAgent(r)
         \/ \E r \in Members, s \in Members : BeginRequest(r, s)
         \/ \E r \in Members, i \in Calls : BeginReply(r, i)
         \/ \E c \in Calls : OpenInteraction(c) \/ SendQuestion(c) \/ ReadParties(c) \/ Answer(c) \/ SendAnswer(c) \/ Prune(c)
         \/ \E c \in Calls : StatementFails(c, "request", "open") \/ \E step \in {"read", "answer"} : StatementFails(c, "reply", step)
         \/ UNCHANGED <<sent, callVars>>
BY DEF InteractionsNext, interactionVars, mailVars, callVars, Deliver, GiveNext, GiveAgain, GiveRow, MarkLost, Request, Reply

LEMMA CallShape ==
  ASSUME InteractionsTypeOK
  PROVE  /\ Calls = 1 .. Len(calls) /\ Len(calls) \in Nat /\ \A c \in Calls : calls[c] \in Call
         /\ Rows = 1 .. Len(sent) /\ Len(sent) \in Nat /\ DOMAIN about = Rows
<1>1. calls \in Seq(Call) /\ sent \in Seq(Members) /\ Len(about) = Len(sent)
      /\ about \in Seq([kind : {"plain", "question", "answer"}, of : Nat, by : Nat])
  BY DEF InteractionsTypeOK
<1> QED BY <1>1, LenProperties, ElementOfSeq DEF Calls, Rows

\* A call is made: those before it are as they were.
LEMMA CallMade ==
  ASSUME InteractionsTypeOK, NEW new \in Call, calls' = Append(calls, new)
  PROVE  /\ calls' \in Seq(Call) /\ Calls' = Calls \cup {Len(calls) + 1} /\ Len(calls) + 1 \notin Calls
         /\ \A c \in Calls : calls'[c] = calls[c]
         /\ calls'[Len(calls) + 1] = new
<1>1. calls \in Seq(Call)
  BY DEF InteractionsTypeOK
<1>2. Calls = 1 .. Len(calls) /\ Len(calls) \in Nat
  BY CallShape
<1> QED BY <1>1, <1>2, AppendType DEF Calls

\* A call moves on: what it is stays, but for whom it is to.
LEMMA CallMoves ==
  ASSUME InteractionsTypeOK, NEW c \in Calls, NEW step \in {"open", "read", "answer", "send", "done", "refused", "failed"},
         NEW to \in Members,
         calls' = [calls EXCEPT ![c] = [calls[c] EXCEPT !.step = step, !.to = to]]
  PROVE  /\ calls' \in Seq(Call) /\ Calls' = Calls
         /\ \A d \in Calls \ {c} : calls'[d] = calls[d]
         /\ calls'[c].step = step /\ calls'[c].to = to
         /\ calls'[c].kind = calls[c].kind /\ calls'[c].from = calls[c].from /\ calls'[c].of = calls[c].of
<1>1. calls \in Seq(Call) /\ c \in 1 .. Len(calls) /\ calls[c] \in Call
  BY CallShape DEF InteractionsTypeOK
<1>2. [calls[c] EXCEPT !.step = step, !.to = to] \in Call
  BY <1>1 DEF Call
<1>3. calls' \in Seq(Call) /\ Len(calls') = Len(calls)
      /\ \A d \in 1 .. Len(calls) : calls'[d] = IF d = c THEN [calls[c] EXCEPT !.step = step, !.to = to] ELSE calls[d]
  BY <1>1, <1>2, ExceptSeq
<1>4. Calls = 1 .. Len(calls) /\ Calls' = 1 .. Len(calls)
  BY <1>3, CallShape, LenProperties DEF Calls
<1>5. calls'[c] = [calls[c] EXCEPT !.step = step, !.to = to]
  BY <1>1, <1>3
<1> QED BY <1>1, <1>3, <1>4, <1>5 DEF Call

LEMMA CallGoes ==
  ASSUME InteractionsTypeOK, NEW c \in Calls, NEW step \in {"open", "read", "answer", "send", "done", "refused", "failed"}, Goes(c, step)
  PROVE  /\ calls' \in Seq(Call) /\ Calls' = Calls
         /\ \A d \in Calls \ {c} : calls'[d] = calls[d]
         /\ calls'[c].step = step /\ calls'[c].to = calls[c].to
         /\ calls'[c].kind = calls[c].kind /\ calls'[c].from = calls[c].from /\ calls'[c].of = calls[c].of
<1>1. calls[c] \in Call /\ calls' = [calls EXCEPT ![c] = [calls[c] EXCEPT !.step = step]]
  BY CallShape DEF Goes
<1>2. calls[c].to \in Members /\ [calls[c] EXCEPT !.step = step] = [calls[c] EXCEPT !.step = step, !.to = calls[c].to]
  BY <1>1 DEF Call
<1>3. calls' = [calls EXCEPT ![c] = [calls[c] EXCEPT !.step = step, !.to = calls[c].to]]
  BY <1>1, <1>2
<1>4. calls[c].to \in Members
  BY <1>2
<1> QED BY <1>3, <1>4, CallMoves

\* A message is posted, by a call or by another sender.
LEMMA Posted ==
  ASSUME InteractionsTypeOK, NEW r \in Members, Post(r),
         NEW note \in [kind : {"plain", "question", "answer"}, of : Nat, by : Nat], about' = Append(about, note)
  PROVE  /\ sent' \in Seq(Members) /\ about' \in Seq([kind : {"plain", "question", "answer"}, of : Nat, by : Nat])
         /\ Len(about') = Len(sent') /\ Rows' = Rows \cup {Len(sent) + 1}
         /\ \A m \in Rows : sent'[m] = sent[m] /\ about'[m] = about[m]
         /\ sent'[Len(sent) + 1] = r /\ about'[Len(sent) + 1] = note
<1>1. /\ sent \in Seq(Members) /\ about \in Seq([kind : {"plain", "question", "answer"}, of : Nat, by : Nat])
      /\ Len(about) = Len(sent) /\ sent' = Append(sent, r)
  BY DEF InteractionsTypeOK, Post
<1>2. DOMAIN sent = Rows /\ DOMAIN about = Rows
  BY CallShape DEF Rows
<1> QED BY <1>1, <1>2, AppendType DEF Rows

\* interaction_parties: the row is read; only who it is to and the step change.
LEMMA PartiesRead ==
  ASSUME InteractionsTypeOK, NEW c \in Calls, ReadParties(c)
  PROVE  /\ calls' \in Seq(Call) /\ Calls' = Calls
         /\ \A d \in Calls \ {c} : calls'[d] = calls[d]
         /\ calls'[c].kind = calls[c].kind /\ calls'[c].of = calls[c].of
         /\ calls[c].kind = "reply"
         /\ \/ calls'[c].step = "refused"
            \/ /\ calls'[c].step = "answer" /\ calls[c].of \in Open
               /\ calls'[c].to = interactions[calls[c].of].requester
<1>1. CASE Accepts(calls[c].from, calls[c].of)
  <2> DEFINE to == interactions[calls[c].of].requester
  <2>1. calls[c].of \in Open /\ to \in Members
    BY <1>1 DEF Accepts, InteractionsTypeOK, Row
  <2>2. calls' = [calls EXCEPT ![c].step = "answer", ![c].to = to] /\ calls[c].kind = "reply"
    BY <1>1 DEF ReadParties, At
  <2>3. calls' = [calls EXCEPT ![c] = [calls[c] EXCEPT !.step = "answer", !.to = to]]
    <3>1. calls \in Seq(Call) /\ calls[c] \in Call
      BY CallShape DEF InteractionsTypeOK
    <3>2. [calls EXCEPT ![c].step = "answer"][c] = [calls[c] EXCEPT !.step = "answer"]
      BY <3>1 DEF Calls
    <3> QED BY <2>2, <3>1, <3>2 DEF Calls
  <2>4. /\ calls' \in Seq(Call) /\ Calls' = Calls
        /\ \A d \in Calls \ {c} : calls'[d] = calls[d]
        /\ calls'[c].step = "answer" /\ calls'[c].to = to
        /\ calls'[c].kind = calls[c].kind /\ calls'[c].of = calls[c].of
    <3> HIDE DEF to
    <3> QED BY <2>1, <2>3, CallMoves
  <2> QED BY <2>1, <2>2, <2>4
<1>2. CASE ~Accepts(calls[c].from, calls[c].of)
  <2>1. Goes(c, "refused") /\ calls[c].kind = "reply"
    BY <1>2 DEF ReadParties, At
  <2> QED BY <2>1, CallGoes
<1> QED BY <1>1, <1>2

LEMMA InteractionsTypeStep ==
  InteractionsTypeOK /\ PartiesInv /\ [InteractionsNext]_interactionVars => InteractionsTypeOK'
<1> SUFFICES ASSUME InteractionsTypeOK, PartiesInv, [InteractionsNext]_interactionVars PROVE InteractionsTypeOK'
  OBVIOUS
<1>t. /\ calls \in Seq(Call) /\ Open \subseteq Calls /\ \A i \in Open : interactions[i] \in Row
      /\ sent \in Seq(Members) /\ about \in Seq([kind : {"plain", "question", "answer"}, of : Nat, by : Nat])
      /\ Len(about) = Len(sent) /\ unsent \subseteq Calls
  BY DEF InteractionsTypeOK
<1>c. Calls = 1 .. Len(calls) /\ Len(calls) \in Nat /\ \A c \in Calls : calls[c] \in Call
  BY CallShape
<1>k. \A c \in Calls : c \in Nat /\ calls[c].from \in Members /\ calls[c].to \in Members /\ calls[c].of \in Nat
  BY <1>c DEF Call
<1>1. ASSUME NEW r \in Members, Tell(r) PROVE InteractionsTypeOK'
  <2>1. Plain \in [kind : {"plain", "question", "answer"}, of : Nat, by : Nat]
    BY DEF Plain
  <2>2. Post(r) /\ about' = Append(about, Plain) /\ UNCHANGED <<interactions, calls, unsent>>
    BY <1>1 DEF Tell
  <2>3. /\ sent' \in Seq(Members) /\ about' \in Seq([kind : {"plain", "question", "answer"}, of : Nat, by : Nat])
        /\ Len(about') = Len(sent')
    BY <2>1, <2>2, Posted
  <2> QED BY <1>t, <2>2, <2>3 DEF InteractionsTypeOK, Open, Calls
<1>2. ASSUME UNCHANGED <<interactions, calls, sent, about, unsent>> PROVE InteractionsTypeOK'
  BY <1>2, <1>t DEF InteractionsTypeOK, Open, Calls
<1>3. ASSUME NEW new \in Call, calls' = Append(calls, new), UNCHANGED <<interactions, sent, about, unsent>>
      PROVE  InteractionsTypeOK'
  <2>1. calls' \in Seq(Call) /\ Calls \subseteq Calls'
    BY <1>3, CallMade
  <2> QED BY <1>3, <1>t, <2>1 DEF InteractionsTypeOK, Open
<1>4. ASSUME NEW r \in Members, NEW s \in Members, BeginRequest(r, s) PROVE InteractionsTypeOK'
  <2> DEFINE new == [kind |-> "request", from |-> r, of |-> Len(calls) + 1, to |-> s, step |-> "open"]
  <2>1. new \in Call
    BY <1>c DEF Call
  <2>2. calls' = Append(calls, new) /\ UNCHANGED <<interactions, sent, about, unsent>>
    BY <1>4 DEF BeginRequest, mailVars
  <2> QED BY <1>3, <2>1, <2>2
<1>5. ASSUME NEW r \in Members, NEW i \in Calls, BeginReply(r, i) PROVE InteractionsTypeOK'
  <2> DEFINE new == [kind |-> "reply", from |-> r, of |-> i, to |-> r, step |-> "read"]
  <2>1. new \in Call
    BY <1>c DEF Call
  <2>2. calls' = Append(calls, new) /\ UNCHANGED <<interactions, sent, about, unsent>>
    BY <1>5 DEF BeginReply, mailVars
  <2> QED BY <1>3, <2>1, <2>2
<1>6. ASSUME NEW c \in Calls, OpenInteraction(c) PROVE InteractionsTypeOK'
  <2>1. /\ interactions' = [i \in Open \cup {c} |-> IF i = c THEN Pending(c) ELSE interactions[i]]
        /\ Goes(c, "send") /\ UNCHANGED <<sent, about, unsent>>
    BY <1>6 DEF OpenInteraction, mailVars
  <2>2. calls' \in Seq(Call) /\ Calls' = Calls
    BY <2>1, CallGoes
  <2>3. Pending(c) \in Row
    BY <1>k DEF Pending, Row
  <2>4. Open' = Open \cup {c} /\ \A i \in Open' : interactions'[i] \in Row
    BY <1>t, <2>1, <2>3 DEF Open
  <2> QED BY <1>t, <2>1, <2>2, <2>4 DEF InteractionsTypeOK
<1>7. ASSUME NEW c \in Calls, SendQuestion(c) \/ SendAnswer(c) PROVE InteractionsTypeOK'
  <2>1. PICK to \in Members, kind \in {"question", "answer"}, of \in Nat : Send(c, to, kind, of) /\ Goes(c, "done")
    BY <1>7, <1>k DEF SendQuestion, SendAnswer, ReplyTo
  <2>2. calls' \in Seq(Call) /\ Calls' = Calls
    BY <2>1, CallGoes
  <2>3. UNCHANGED interactions
    BY <2>1 DEF Send
  <2>4. /\ sent' \in Seq(Members) /\ about' \in Seq([kind : {"plain", "question", "answer"}, of : Nat, by : Nat])
        /\ Len(about') = Len(sent') /\ unsent' \subseteq Calls
    <3>1. CASE UNCHANGED <<sent, about>> /\ unsent' = unsent \cup {c}
      BY <3>1, <1>t
    <3>2. CASE Post(to) /\ about' = Append(about, [kind |-> kind, of |-> of, by |-> c]) /\ UNCHANGED unsent
      <4>1. [kind |-> kind, of |-> of, by |-> c] \in [kind : {"plain", "question", "answer"}, of : Nat, by : Nat]
        BY <1>k
      <4> QED BY <1>t, <3>2, <4>1, Posted
    <3> QED BY <2>1, <3>1, <3>2 DEF Send, mailVars
  <2> QED BY <1>t, <2>2, <2>3, <2>4 DEF InteractionsTypeOK, Open
<1>8. ASSUME NEW c \in Calls, ReadParties(c) PROVE InteractionsTypeOK'
  <2>1. UNCHANGED <<sent, about, interactions, unsent>>
    BY <1>8 DEF ReadParties, mailVars
  <2>2. calls' \in Seq(Call) /\ Calls' = Calls
    BY <1>8, PartiesRead
  <2> QED BY <1>t, <2>1, <2>2 DEF InteractionsTypeOK, Open
<1>9. ASSUME NEW c \in Calls, Answer(c) PROVE InteractionsTypeOK'
  <2>1. /\ interactions' = [i \in Open |-> IF i = calls[c].of THEN Answered(interactions[i], c) ELSE interactions[i]]
        /\ Goes(c, "send") /\ UNCHANGED <<sent, about, unsent>>
    BY <1>9 DEF Answer, mailVars
  <2>2. calls' \in Seq(Call) /\ Calls' = Calls
    BY <2>1, CallGoes
  <2>3. \A i \in Open : Answered(interactions[i], c) \in Row
    BY <1>t, <1>k DEF Answered, Row
  <2>4. Open' = Open /\ \A i \in Open' : interactions'[i] \in Row
    BY <1>t, <2>1, <2>3 DEF Open
  <2> QED BY <1>t, <2>1, <2>2, <2>4 DEF InteractionsTypeOK
<1>10. ASSUME NEW i \in Calls, Prune(i) PROVE InteractionsTypeOK'
  <2>1. interactions' = [j \in Open \ {i} |-> interactions[j]] /\ UNCHANGED <<sent, about, unsent, calls>>
    BY <1>10 DEF Prune, mailVars
  <2>2. Open' = Open \ {i} /\ \A j \in Open' : interactions'[j] = interactions[j]
    BY <2>1 DEF Open
  <2> QED BY <1>t, <2>1, <2>2 DEF InteractionsTypeOK, Calls
<1>11. ASSUME NEW r \in Members, SweepAgent(r) PROVE InteractionsTypeOK'
  BY <1>2, <1>11 DEF SweepAgent, Leave
<1>12. CASE UNCHANGED <<sent, callVars>>
  BY <1>2, <1>12 DEF callVars
<1>13. ASSUME NEW c \in Calls, NEW kind, NEW step, StatementFails(c, kind, step) PROVE InteractionsTypeOK'
  <2>1. Goes(c, "failed") /\ UNCHANGED <<sent, about, interactions>> /\ unsent' = unsent \cup {c}
    BY <1>13 DEF StatementFails, mailVars
  <2>2. calls' \in Seq(Call) /\ Calls' = Calls
    BY <2>1, CallGoes
  <2> QED BY <1>t, <2>1, <2>2 DEF InteractionsTypeOK, Open
<1> QED BY <1>1, <1>4, <1>5, <1>6, <1>7, <1>8, <1>9, <1>10, <1>11, <1>12, <1>13, InteractionsCases

-----------------------------------------------------------------------------
(* Interactions: who is party to a row, and that it agrees with the        *)
(* messages about it.                                                      *)

PartyOf(c) ==
  calls[c].kind = "reply" =>
    /\ calls[c].of \in Calls /\ calls[calls[c].of].kind = "request"
    /\ calls[c].step \in {"answer", "send", "done"} =>
         /\ calls[calls[c].of].step # "open"
         /\ calls[c].of \in Open => calls[c].to = interactions[calls[c].of].requester

RowOf(i) == i \in Calls /\ calls[i].kind = "request" /\ calls[i].step # "open"

LEMMA PartiesParts == InteractionsTypeOK => (PartiesInv <=> (\A i \in Open : RowOf(i)) /\ \A c \in Calls : PartyOf(c))
BY DEF PartiesInv, RowOf, PartyOf, InteractionsTypeOK

AgreeOf(i) ==
  /\ Wrote(i) \cap late = {}
  /\ interactions[i].status = "answered" <=> Wrote(i) # {}
  /\ interactions[i].status = "answered" => interactions[i].reply \in Wrote(i)
  /\ \A c \in Wrote(i) : calls[c].step = "done" =>
       c \in unsent \/ \E m \in Answers(i) : about[m].by = c /\ sent[m] = interactions[i].requester

LEMMA AgreeParts == AnswersAgree <=> \A i \in Open : AgreeOf(i)
BY DEF AnswersAgree, AgreeOf

\* What is true of a row stays true as long as the row, who has written it, and which of
\* those are through stay the same; messages may come.
LEMMA AgreeFrame ==
  ASSUME NEW i, AgreeOf(i), interactions'[i] = interactions[i], Wrote(i)' = Wrote(i), late' = late,
         \A c \in Wrote(i) : calls'[c].step = "done" => calls[c].step = "done",
         unsent \subseteq unsent', Rows \subseteq Rows',
         \A m \in Rows : sent'[m] = sent[m] /\ about'[m] = about[m]
  PROVE  AgreeOf(i)'
<1>1. \A m \in Answers(i) : m \in Answers(i)' /\ sent'[m] = sent[m] /\ about'[m] = about[m]
  BY DEF Answers
<1> QED BY <1>1 DEF AgreeOf

Holds == InteractionsTypeOK /\ PartiesInv /\ AnswersAgree /\ late = {}

\* A row that a reply has written is answered: no reply to it is accepted from then on.
LEMMA NoneIsLate ==
  ASSUME Holds, NEW c \in Calls, ReadParties(c)
  PROVE  late' = late
<1>1. CASE Accepts(calls[c].from, calls[c].of)
  <2>1. Wrote(calls[c].of) = {}
    BY <1>1 DEF Accepts, Holds, AnswersAgree
  <2> QED BY <1>1, <2>1 DEF ReadParties
<1>2. CASE ~Accepts(calls[c].from, calls[c].of)
  BY <1>2 DEF ReadParties
<1> QED BY <1>1, <1>2

LEMMA MadeKeeps ==
  ASSUME Holds, NEW new \in Call, calls' = Append(calls, new), UNCHANGED <<interactions, sent, about, unsent, late>>,
         new.step \in {"open", "read"}, new.kind = "reply" => new.of \in Calls /\ calls[new.of].kind = "request"
  PROVE  PartiesInv' /\ AnswersAgree'
<1>1. /\ Calls' = Calls \cup {Len(calls) + 1} /\ Len(calls) + 1 \notin Calls
      /\ \A c \in Calls : calls'[c] = calls[c]
      /\ calls'[Len(calls) + 1] = new
  BY CallMade DEF Holds
<1>2. Open' = Open /\ Rows' = Rows /\ Open \subseteq Calls
  BY DEF Open, Rows, Holds, InteractionsTypeOK
<1>3. ASSUME NEW i \in Open' PROVE calls'[i].kind = "request" /\ calls'[i].step # "open"
  BY <1>1, <1>2 DEF Holds, PartiesInv
<1>4. ASSUME NEW c \in Calls' PROVE PartyOf(c)'
  <2>1. CASE c \in Calls
    <3>1. PartyOf(c)
      BY <2>1, PartiesParts DEF Holds
    <3> QED BY <1>1, <1>2, <2>1, <3>1 DEF PartyOf
  <2>2. CASE c = Len(calls) + 1
    BY <1>1, <1>2, <2>2 DEF PartyOf
  <2> QED BY <1>1, <2>1, <2>2
<1>5. PartiesInv'
  BY <1>3, <1>4 DEF PartiesInv, PartyOf
<1>6. ASSUME NEW i \in Open PROVE AgreeOf(i)'
  <2>1. AgreeOf(i)
    BY AgreeParts DEF Holds
  <2>2. Wrote(i)' = Wrote(i) /\ \A c \in Wrote(i) : calls'[c] = calls[c]
    BY <1>1 DEF Wrote
  <2> QED BY <1>2, <2>1, <2>2, AgreeFrame
<1>7. AnswersAgree'
  BY <1>2, <1>6 DEF AnswersAgree, AgreeOf
<1> QED BY <1>5, <1>7

\* A call that moves on without writing a row, and without ending a reply.
LEMMA MovesKeeps ==
  ASSUME Holds, NEW c \in Calls, Calls' = Calls, \A d \in Calls \ {c} : calls'[d] = calls[d],
         calls'[c].kind = calls[c].kind, calls'[c].of = calls[c].of, calls'[c].step # "open",
         calls[c].kind = "reply" => calls[c].step \in {"read", "answer"} /\ calls'[c].step \in {"answer", "refused", "failed"},
         calls'[c].step = "answer" => calls[c].of \in Open /\ calls'[c].to = interactions[calls[c].of].requester,
         calls[c].kind = "request" => calls'[c].step # "answer",
         UNCHANGED <<interactions, late>>,
         unsent \subseteq unsent', Rows \subseteq Rows', \A m \in Rows : sent'[m] = sent[m] /\ about'[m] = about[m]
  PROVE  PartiesInv' /\ AnswersAgree'
<1>2. Open' = Open /\ Open \subseteq Calls
  BY DEF Open, Holds, InteractionsTypeOK
<1>k. calls[c].kind \in {"request", "reply"}
  BY CallShape DEF Holds, Call
<1>3. ASSUME NEW i \in Open' PROVE calls'[i].kind = "request" /\ calls'[i].step # "open"
  BY <1>2 DEF Holds, PartiesInv
<1>4. ASSUME NEW d \in Calls PROVE PartyOf(d)'
  <2>1. PartyOf(d)
    BY PartiesParts DEF Holds
  <2>2. \A e \in Calls : calls'[e].kind = calls[e].kind /\ (calls'[e].step = "open" => calls[e].step = "open")
    OBVIOUS
  <2>3. CASE d # c
    <3>1. calls'[d] = calls[d]
      BY <2>3
    <3> QED BY <1>2, <2>1, <2>2, <3>1 DEF PartyOf
  <2>4. CASE d = c
    <3> SUFFICES ASSUME calls[c].kind = "reply" PROVE PartyOf(c)'
      BY <2>4 DEF PartyOf
    <3>1. calls[c].of \in Calls /\ calls[calls[c].of].kind = "request"
      BY <2>1, <2>4 DEF PartyOf
    <3>2. CASE calls'[c].step \in {"refused", "failed"}
      BY <2>2, <3>1, <3>2 DEF PartyOf
    <3>3. CASE calls'[c].step = "answer"
      <4>1. calls[calls[c].of].step # "open"
        BY <3>3 DEF Holds, PartiesInv
      <4> QED BY <1>2, <2>2, <3>1, <3>3, <4>1 DEF PartyOf
    <3> QED BY <3>2, <3>3
  <2> QED BY <2>3, <2>4
<1>5. PartiesInv'
  BY <1>3, <1>4 DEF PartiesInv, PartyOf
<1>6. ASSUME NEW i \in Open PROVE AgreeOf(i)'
  <2>1. AgreeOf(i)
    BY AgreeParts DEF Holds
  <2>2. Wrote(i)' = Wrote(i) /\ c \notin Wrote(i)
    BY <1>k DEF Wrote
  <2>3. \A d \in Wrote(i) : calls'[d] = calls[d]
    BY <2>2 DEF Wrote
  <2> QED BY <2>1, <2>2, <2>3, AgreeFrame
<1>7. AnswersAgree'
  BY <1>2, <1>6 DEF AnswersAgree, AgreeOf
<1> QED BY <1>5, <1>7

LEMMA OpensKeeps ==
  ASSUME Holds, NEW c \in Calls, OpenInteraction(c)
  PROVE  PartiesInv' /\ AnswersAgree'
<1>1. /\ calls[c].kind = "request" /\ calls[c].step = "open" /\ Goes(c, "send")
      /\ interactions' = [i \in Open \cup {c} |-> IF i = c THEN Pending(c) ELSE interactions[i]]
      /\ UNCHANGED <<sent, about, unsent, late>>
  BY DEF OpenInteraction, At, mailVars
<1>2. /\ Calls' = Calls /\ \A d \in Calls \ {c} : calls'[d] = calls[d]
      /\ calls'[c].step = "send" /\ calls'[c].kind = calls[c].kind
  BY <1>1, CallGoes DEF Holds
<1>3. /\ Open' = Open \cup {c} /\ c \notin Open /\ Open \subseteq Calls
      /\ interactions'[c] = Pending(c) /\ \A i \in Open : interactions'[i] = interactions[i]
  BY <1>1 DEF Open, Holds, PartiesInv, InteractionsTypeOK
<1>4. ASSUME NEW i \in Open' PROVE calls'[i].kind = "request" /\ calls'[i].step # "open"
  BY <1>1, <1>2, <1>3 DEF Holds, PartiesInv
<1>5. ASSUME NEW d \in Calls PROVE PartyOf(d)'
  <2> SUFFICES ASSUME calls[d].kind = "reply" PROVE PartyOf(d)'
    BY <1>1, <1>2 DEF PartyOf
  <2>1. PartyOf(d) /\ d # c /\ calls'[d] = calls[d]
    BY <1>1, <1>2, PartiesParts DEF Holds
  <2>2. calls[d].step \in {"answer", "send", "done"} => calls[d].of # c
    BY <1>1, <2>1 DEF PartyOf
  <2> QED BY <1>1, <1>2, <1>3, <2>1, <2>2 DEF PartyOf
<1>6. PartiesInv'
  BY <1>2, <1>4, <1>5 DEF PartiesInv, PartyOf
<1>7. Rows' = Rows /\ \A i : Wrote(i)' = Wrote(i) /\ c \notin Wrote(i)
  BY <1>1, <1>2 DEF Rows, Wrote
<1>8. ASSUME NEW i \in Open PROVE AgreeOf(i)'
  <2>1. AgreeOf(i)
    BY AgreeParts DEF Holds
  <2>2. \A d \in Wrote(i) : calls'[d] = calls[d]
    BY <1>2, <1>7 DEF Wrote
  <2> QED BY <1>1, <1>3, <1>7, <2>1, <2>2, AgreeFrame
<1>9. AgreeOf(c)'
  <2>1. Wrote(c) = {}
    BY <1>1 DEF Wrote, Holds, PartiesInv
  <2>2. interactions'[c].status = "pending"
    BY <1>3 DEF Pending
  <2> QED BY <1>1, <1>7, <2>1, <2>2 DEF AgreeOf
<1>10. AnswersAgree'
  BY <1>3, <1>8, <1>9 DEF AnswersAgree, AgreeOf
<1> QED BY <1>6, <1>10

LEMMA AnswerKeeps ==
  ASSUME Holds, NEW c \in Calls, Answer(c)
  PROVE  PartiesInv' /\ AnswersAgree'
<1>1. /\ calls[c].kind = "reply" /\ calls[c].step = "answer" /\ Goes(c, "send")
      /\ interactions' = [i \in Open |-> IF i = calls[c].of THEN Answered(interactions[i], c) ELSE interactions[i]]
      /\ UNCHANGED <<sent, about, unsent, late>>
  BY DEF Answer, At, mailVars
<1>2. /\ Calls' = Calls /\ \A d \in Calls \ {c} : calls'[d] = calls[d]
      /\ calls'[c].step = "send" /\ calls'[c].kind = "reply" /\ calls'[c].of = calls[c].of /\ calls'[c].to = calls[c].to
  BY <1>1, CallGoes DEF Holds
<1>3. /\ Open' = Open /\ Open \subseteq Calls /\ \A i \in Open : interactions[i] \in Row
      /\ \A i \in Open \ {calls[c].of} : interactions'[i] = interactions[i]
      /\ calls[c].of \in Open => interactions'[calls[c].of] = Answered(interactions[calls[c].of], c)
  BY <1>1 DEF Open, Holds, InteractionsTypeOK
<1>r. \A i \in Open : interactions'[i].requester = interactions[i].requester
  BY <1>3 DEF Answered, Row
<1>4. ASSUME NEW i \in Open' PROVE calls'[i].kind = "request" /\ calls'[i].step # "open"
  BY <1>1, <1>2, <1>3 DEF Holds, PartiesInv
<1>5. ASSUME NEW d \in Calls PROVE PartyOf(d)'
  <2>1. PartyOf(d) /\ PartyOf(c)
    BY PartiesParts DEF Holds
  <2>2. \A e \in Calls : calls'[e].kind = calls[e].kind /\ (calls'[e].step = "open" => calls[e].step = "open")
    BY <1>1, <1>2
  <2>3. CASE d # c
    <3>1. calls'[d] = calls[d]
      BY <1>2, <2>3
    <3> QED BY <1>2, <1>3, <1>r, <2>1, <2>2, <3>1 DEF PartyOf
  <2>4. CASE d = c
    BY <1>1, <1>2, <1>3, <1>r, <2>1, <2>2, <2>4 DEF PartyOf
  <2> QED BY <2>3, <2>4
<1>6. PartiesInv'
  BY <1>2, <1>4, <1>5 DEF PartiesInv, PartyOf
<1>7. /\ Rows' = Rows /\ \A i \in Open : c \notin Wrote(i)
      /\ \A i \in Open \ {calls[c].of} : Wrote(i)' = Wrote(i)
      /\ Wrote(calls[c].of)' = Wrote(calls[c].of) \cup {c}
  BY <1>1, <1>2 DEF Rows, Wrote
<1>8. ASSUME NEW i \in Open PROVE AgreeOf(i)'
  <2>1. AgreeOf(i) /\ \A d \in Wrote(i) : calls'[d] = calls[d]
    BY <1>2, <1>7, AgreeParts DEF Holds, Wrote
  <2>2. CASE i # calls[c].of
    BY <1>1, <1>3, <1>7, <2>1, <2>2, AgreeFrame
  <2>3. CASE i = calls[c].of
    <3>0. interactions'[i] = [interactions[i] EXCEPT !.status = "answered", !.reply = c] /\ interactions[i] \in Row
      BY <1>3, <2>3 DEF Answered
    <3>1. interactions'[i].status = "answered" /\ interactions'[i].reply = c /\ Wrote(i)' = Wrote(i) \cup {c}
      BY <1>2, <1>7, <2>3, <3>0 DEF Row
    <3>2. Answers(i)' = Answers(i)
      BY <1>1, <1>7 DEF Answers
    <3>3. \A d \in Wrote(i) : calls'[d].step = "done" =>
            d \in unsent \/ \E m \in Answers(i) : about[m].by = d /\ sent[m] = interactions[i].requester
      BY <2>1 DEF AgreeOf
    <3>4. Wrote(i)' \cap late' = {}
      BY <1>1 DEF Holds
    <3> QED BY <1>1, <1>2, <1>r, <3>1, <3>2, <3>3, <3>4 DEF AgreeOf
  <2> QED BY <2>2, <2>3
<1>9. AnswersAgree'
  BY <1>3, <1>8 DEF AnswersAgree, AgreeOf
<1> QED BY <1>6, <1>9

LEMMA SendsKeeps ==
  ASSUME Holds, NEW c \in Calls, SendAnswer(c)
  PROVE  PartiesInv' /\ AnswersAgree'
<1>1. /\ calls[c].kind = "reply" /\ calls[c].step = "send" /\ Goes(c, "done")
      /\ Send(c, calls[c].to, "answer", calls[c].of) /\ late' = late
  BY DEF SendAnswer, At, ReplyTo, Send
<1>2. /\ Calls' = Calls /\ \A d \in Calls \ {c} : calls'[d] = calls[d]
      /\ calls'[c].step = "done" /\ calls'[c].kind = "reply" /\ calls'[c].of = calls[c].of /\ calls'[c].to = calls[c].to
  BY <1>1, CallGoes DEF Holds
<1>3. interactions' = interactions /\ Open' = Open /\ Open \subseteq Calls
  BY <1>1 DEF Send, Open, Holds, InteractionsTypeOK
<1>t. calls[c].to \in Members /\ calls[c].of \in Nat /\ c \in Nat
  BY CallShape DEF Holds, Call
<1>4. ASSUME NEW i \in Open' PROVE calls'[i].kind = "request" /\ calls'[i].step # "open"
  BY <1>1, <1>2, <1>3 DEF Holds, PartiesInv
<1>5. ASSUME NEW d \in Calls PROVE PartyOf(d)'
  <2>1. PartyOf(d)
    BY PartiesParts DEF Holds
  <2>2. \A e \in Calls : calls'[e].kind = calls[e].kind /\ (calls'[e].step = "open" => calls[e].step = "open")
    BY <1>1, <1>2
  <2>3. CASE d # c
    <3>1. calls'[d] = calls[d]
      BY <1>2, <2>3
    <3> QED BY <1>2, <1>3, <2>1, <2>2, <3>1 DEF PartyOf
  <2>4. CASE d = c
    BY <1>1, <1>2, <1>3, <2>1, <2>2, <2>4 DEF PartyOf
  <2> QED BY <2>3, <2>4
<1>6. PartiesInv'
  BY <1>2, <1>4, <1>5 DEF PartiesInv, PartyOf
<1> DEFINE note == [kind |-> "answer", of |-> calls[c].of, by |-> c]
<1>7. /\ unsent \subseteq unsent' /\ Rows \subseteq Rows' /\ \A m \in Rows : sent'[m] = sent[m] /\ about'[m] = about[m]
      /\ c \in unsent' \/ \E m \in Rows' : sent'[m] = calls[c].to /\ about'[m] = note
  <2>1. CASE UNCHANGED mailVars /\ UNCHANGED about /\ unsent' = unsent \cup {c}
    BY <2>1 DEF mailVars, Rows
  <2>2. CASE Post(calls[c].to) /\ about' = Append(about, note) /\ UNCHANGED unsent
    <3>1. note \in [kind : {"plain", "question", "answer"}, of : Nat, by : Nat]
      BY <1>t
    <3>2. /\ Rows' = Rows \cup {Len(sent) + 1} /\ \A m \in Rows : sent'[m] = sent[m] /\ about'[m] = about[m]
          /\ sent'[Len(sent) + 1] = calls[c].to /\ about'[Len(sent) + 1] = note
      <4> HIDE DEF note
      <4> QED BY <1>t, <2>2, <3>1, Posted DEF Holds
    <3> QED BY <2>2, <3>2
  <2> QED BY <1>1, <2>1, <2>2 DEF Send
<1>8. \A i : Wrote(i)' = Wrote(i)
  BY <1>1, <1>2 DEF Wrote
<1>9. ASSUME NEW i \in Open PROVE AgreeOf(i)'
  <2>1. AgreeOf(i)
    BY AgreeParts DEF Holds
  <2>2. CASE i # calls[c].of
    <3>1. \A d \in Wrote(i) : calls'[d] = calls[d]
      BY <1>2, <2>2 DEF Wrote
    <3> QED BY <1>1, <1>3, <1>7, <1>8, <2>1, <3>1, AgreeFrame
  <2>3. CASE i = calls[c].of
    <3>1. \A m \in Answers(i) : m \in Answers(i)' /\ sent'[m] = sent[m] /\ about'[m] = about[m]
      BY <1>7 DEF Answers
    <3>2. \A d \in Wrote(i) \ {c} : calls'[d].step = "done" =>
            d \in unsent' \/ \E m \in Answers(i)' : about'[m].by = d /\ sent'[m] = interactions[i].requester
      BY <1>2, <1>7, <2>1, <3>1 DEF AgreeOf, Wrote
    <3>3. calls[c].to = interactions[i].requester
      BY <1>1, <2>3 DEF Holds, PartiesInv
    <3>4. c \in unsent' \/ \E m \in Answers(i)' : about'[m].by = c /\ sent'[m] = interactions[i].requester
      BY <1>7, <2>3, <3>3 DEF Answers
    <3> QED BY <1>1, <1>3, <1>8, <2>1, <3>2, <3>4 DEF AgreeOf
  <2> QED BY <2>2, <2>3
<1>10. AnswersAgree'
  BY <1>3, <1>9 DEF AnswersAgree, AgreeOf
<1> QED BY <1>6, <1>10

LEMMA InteractionsStep == InteractionsInv /\ [InteractionsNext]_interactionVars => InteractionsInv'
<1> SUFFICES ASSUME Holds, [InteractionsNext]_interactionVars PROVE PartiesInv' /\ AnswersAgree' /\ late' = late
  BY InteractionsTypeStep DEF InteractionsInv, Holds
<1>t. InteractionsTypeOK /\ Open \subseteq Calls /\ Rows = 1 .. Len(sent) /\ Len(sent) \in Nat
      /\ \A c \in Calls : calls[c].kind \in {"request", "reply"} /\ c \in Nat /\ calls[c].to \in Members
  BY CallShape DEF Holds, InteractionsTypeOK, Call
\* The rows stay or go, nobody's call moves, messages may come.
<1>0. ASSUME UNCHANGED calls, Open' \subseteq Open, \A i \in Open' : interactions'[i] = interactions[i],
             UNCHANGED <<unsent, late>>, Rows \subseteq Rows', \A m \in Rows : sent'[m] = sent[m] /\ about'[m] = about[m]
      PROVE  PartiesInv' /\ AnswersAgree' /\ late' = late
  <2>1. Calls' = Calls
    BY <1>0 DEF Calls
  <2>2. PartiesInv'
    BY <1>0, <2>1 DEF Holds, PartiesInv
  <2>3. ASSUME NEW i \in Open' PROVE AgreeOf(i)'
    <3>1. AgreeOf(i)
      BY <1>0, <2>3, AgreeParts DEF Holds
    <3>2. Wrote(i)' = Wrote(i)
      BY <1>0, <2>1 DEF Wrote
    <3> QED BY <1>0, <2>3, <3>1, <3>2, AgreeFrame
  <2>4. AnswersAgree'
    BY <2>3 DEF AnswersAgree, AgreeOf
  <2> QED BY <1>0, <2>2, <2>4
<1>1. ASSUME NEW r \in Members, Tell(r) PROVE PartiesInv' /\ AnswersAgree' /\ late' = late
  <2>1. Post(r) /\ about' = Append(about, Plain) /\ UNCHANGED <<interactions, calls, unsent, late>>
    BY <1>1 DEF Tell
  <2>2. Plain \in [kind : {"plain", "question", "answer"}, of : Nat, by : Nat]
    BY DEF Plain
  <2>3. Rows \subseteq Rows' /\ \A m \in Rows : sent'[m] = sent[m] /\ about'[m] = about[m]
    BY <1>t, <2>1, <2>2, Posted
  <2> QED BY <1>0, <2>1, <2>3 DEF Open
<1>2. ASSUME NEW r \in Members, NEW s \in Members, BeginRequest(r, s) PROVE PartiesInv' /\ AnswersAgree' /\ late' = late
  <2> DEFINE new == [kind |-> "request", from |-> r, of |-> Len(calls) + 1, to |-> s, step |-> "open"]
  <2>1. new \in Call
    BY <1>t, CallShape DEF Call
  <2>2. calls' = Append(calls, new) /\ UNCHANGED <<interactions, sent, about, unsent, late>>
    BY <1>2 DEF BeginRequest, mailVars
  <2>3. new.step = "open" /\ new.kind # "reply"
    OBVIOUS
  <2> HIDE DEF new
  <2> QED BY <2>1, <2>2, <2>3, MadeKeeps
<1>3. ASSUME NEW r \in Members, NEW i \in Calls, BeginReply(r, i) PROVE PartiesInv' /\ AnswersAgree' /\ late' = late
  <2> DEFINE new == [kind |-> "reply", from |-> r, of |-> i, to |-> r, step |-> "read"]
  <2>1. new \in Call
    BY <1>t DEF Call
  <2>2. calls' = Append(calls, new) /\ UNCHANGED <<interactions, sent, about, unsent, late>> /\ calls[i].kind = "request"
    BY <1>3 DEF BeginReply, mailVars
  <2>3. new.step = "read" /\ new.of = i
    OBVIOUS
  <2> HIDE DEF new
  <2> QED BY <2>1, <2>2, <2>3, MadeKeeps
<1>4. ASSUME NEW c \in Calls, SendQuestion(c) PROVE PartiesInv' /\ AnswersAgree' /\ late' = late
  <2>1. calls[c].kind = "request" /\ Goes(c, "done") /\ Send(c, calls[c].to, "question", c)
    BY <1>4 DEF SendQuestion, At
  <2>2. /\ Calls' = Calls /\ \A d \in Calls \ {c} : calls'[d] = calls[d]
        /\ calls'[c].step = "done" /\ calls'[c].kind = calls[c].kind /\ calls'[c].of = calls[c].of
    BY <1>t, <2>1, CallGoes
  <2> DEFINE note == [kind |-> "question", of |-> c, by |-> c]
  <2>3. unsent \subseteq unsent' /\ Rows \subseteq Rows' /\ (\A m \in Rows : sent'[m] = sent[m] /\ about'[m] = about[m])
        /\ UNCHANGED <<interactions, late>>
    <3>1. CASE UNCHANGED mailVars /\ UNCHANGED about /\ unsent' = unsent \cup {c}
      BY <2>1, <3>1 DEF mailVars, Rows, Send
    <3>2. CASE Post(calls[c].to) /\ about' = Append(about, note) /\ UNCHANGED unsent
      <4>1. note \in [kind : {"plain", "question", "answer"}, of : Nat, by : Nat] /\ calls[c].to \in Members
        BY <1>t
      <4>2. Rows \subseteq Rows' /\ \A m \in Rows : sent'[m] = sent[m] /\ about'[m] = about[m]
        <5> HIDE DEF note
        <5> QED BY <1>t, <3>2, <4>1, Posted
      <4> QED BY <2>1, <3>2, <4>2 DEF Send
    <3> QED BY <2>1, <3>1, <3>2 DEF Send
  <2> QED BY <2>1, <2>2, <2>3, MovesKeeps
<1>5. ASSUME NEW c \in Calls, ReadParties(c) PROVE PartiesInv' /\ AnswersAgree' /\ late' = late
  <2>1. UNCHANGED <<interactions, sent, about, unsent, late>> /\ calls[c].step = "read"
    BY <1>5, NoneIsLate DEF ReadParties, At, mailVars
  <2>2. Rows' = Rows
    BY <2>1 DEF Rows
  <2>3. /\ Calls' = Calls /\ \A d \in Calls \ {c} : calls'[d] = calls[d]
        /\ calls'[c].kind = calls[c].kind /\ calls'[c].of = calls[c].of /\ calls[c].kind = "reply"
        /\ \/ calls'[c].step = "refused"
           \/ /\ calls'[c].step = "answer" /\ calls[c].of \in Open
              /\ calls'[c].to = interactions[calls[c].of].requester
    BY <1>t, <1>5, PartiesRead
  <2> QED BY <2>1, <2>2, <2>3, MovesKeeps
<1>6. ASSUME NEW i \in Calls, Prune(i) PROVE PartiesInv' /\ AnswersAgree' /\ late' = late
  <2>1. interactions' = [j \in Open \ {i} |-> interactions[j]] /\ UNCHANGED <<calls, sent, about, unsent, late>>
    BY <1>6 DEF Prune, mailVars
  <2>2. Open' \subseteq Open /\ Rows' = Rows /\ \A j \in Open' : interactions'[j] = interactions[j]
    BY <2>1 DEF Open, Rows
  <2> QED BY <1>0, <2>1, <2>2
<1>7. ASSUME UNCHANGED <<sent, interactions, calls, about, unsent, late>> PROVE PartiesInv' /\ AnswersAgree' /\ late' = late
  BY <1>0, <1>7 DEF Open, Rows
<1>8. ASSUME NEW r \in Members, SweepAgent(r) PROVE PartiesInv' /\ AnswersAgree' /\ late' = late
  BY <1>7, <1>8 DEF SweepAgent, Leave
<1>9. CASE UNCHANGED <<sent, callVars>>
  BY <1>7, <1>9 DEF callVars
<1>10. ASSUME NEW c \in Calls,
              StatementFails(c, "request", "open") \/ \E step \in {"read", "answer"} : StatementFails(c, "reply", step)
       PROVE  PartiesInv' /\ AnswersAgree' /\ late' = late
  <2>1. /\ Goes(c, "failed") /\ UNCHANGED <<sent, about, interactions, late>> /\ unsent \subseteq unsent'
        /\ calls[c].kind = "reply" => calls[c].step \in {"read", "answer"}
    BY <1>10 DEF StatementFails, At, mailVars
  <2>2. /\ Calls' = Calls /\ \A d \in Calls \ {c} : calls'[d] = calls[d]
        /\ calls'[c].step = "failed" /\ calls'[c].kind = calls[c].kind /\ calls'[c].of = calls[c].of
    BY <1>t, <2>1, CallGoes
  <2>3. Rows' = Rows
    BY <2>1 DEF Rows
  <2> QED BY <2>1, <2>2, <2>3, MovesKeeps
<1>11. ASSUME NEW c \in Calls, OpenInteraction(c) \/ Answer(c) \/ SendAnswer(c) PROVE PartiesInv' /\ AnswersAgree' /\ late' = late
  BY <1>11, OpensKeeps, AnswerKeeps, SendsKeeps DEF OpenInteraction, Answer, SendAnswer, Send
<1> QED BY <1>1, <1>2, <1>3, <1>4, <1>5, <1>6, <1>8, <1>9, <1>10, <1>11, InteractionsCases

\* InteractionsInv is inductive: whatever order the statements of request and reply
\* (manager.rs) take, and whichever fail or find their row pruned. No reply is
\* accepted once another has written the row.
THEOREM InteractionsInvariant == InteractionsSpec => []InteractionsInv
<1>1. InteractionsInit => InteractionsInv
  <2> SUFFICES ASSUME InteractionsInit PROVE InteractionsInv
    OBVIOUS
  <2>1. /\ Calls = {} /\ Open = {} /\ Rows = {} /\ unsent = {} /\ late = {} /\ Len(about) = Len(sent)
        /\ calls \in Seq(Call) /\ sent \in Seq(Members)
        /\ about \in Seq([kind : {"plain", "question", "answer"}, of : Nat, by : Nat])
    BY DEF InteractionsInit, MailboxInit, Calls, Open, Rows
  <2> QED BY <2>1 DEF InteractionsInv, InteractionsTypeOK, PartiesInv, AnswersAgree
<1>2. InteractionsInv /\ [InteractionsNext]_interactionVars => InteractionsInv'
  BY InteractionsStep
<1> QED BY <1>1, <1>2, PTL DEF InteractionsSpec

\* The row of an interaction (reply's two statements, interaction_parties and
\* interaction_answer) agrees with the answers that were sent about it.
THEOREM AgreementSafety == InteractionsSpec => []AnswersAgree
<1>1. InteractionsInv => AnswersAgree
  BY DEF InteractionsInv
<1> QED BY <1>1, InteractionsInvariant, PTL
=============================================================================
