------------------------------- MODULE Mailbox -------------------------------
(***************************************************************************)
(* What the inbox promises its senders and receivers: rows are kept in     *)
(* the order they were enqueued; a receiver is given its rows in that      *)
(* order, none skipped; one it was just given it may be given again, once  *)
(* for each update of the store that failed; nothing is given to a         *)
(* receiver whose session has left the map.                                *)
(***************************************************************************)
EXTENDS Integers, Sequences, FiniteSets

CONSTANTS
  Members,     \* Agent IDs
  MaxRows,     \* bound of the model: messages ever enqueued
  MaxRepeats   \* bound of the model: rows given a second time

VARIABLES
  sent,        \* the receiver of each row
  given,       \* per receiver, the rows typed into its terminal
  here,        \* receivers whose session is in the map
  repeats      \* rows that may be, or were, given again

mailVars == <<sent, given, here, repeats>>

Rows == DOMAIN sent
RowsFor(r) == {i \in Rows : sent[i] = r}
Given(r) == {given[r][i] : i \in DOMAIN given[r]}

MailboxInit ==
  /\ sent = <<>> /\ repeats = 0
  /\ given = [r \in Members |-> <<>>]
  /\ here = Members

Post(r) ==
  /\ Len(sent) < MaxRows
  /\ sent' = Append(sent, r)
  /\ UNCHANGED <<given, here, repeats>>

GiveRow(r, i) ==
  /\ r \in here
  /\ given' = [given EXCEPT ![r] = Append(@, i)]
  /\ UNCHANGED <<sent, here, repeats>>

GiveNext(r) ==
  \E i \in RowsFor(r) \ Given(r) :
    /\ \A j \in RowsFor(r) \ Given(r) : i <= j
    /\ GiveRow(r, i)

\* The row just given, as long as there are failures it can be laid to.
Repeated(r) == Len(given[r]) - Cardinality(Given(r))
GiveAgain(r) ==
  /\ given[r] # <<>>
  /\ Repeated(r) < repeats
  /\ GiveRow(r, given[r][Len(given[r])])

MarkLost ==
  /\ repeats < MaxRepeats
  /\ repeats' = repeats + 1
  /\ UNCHANGED <<sent, given, here>>

Leave(r) ==
  /\ r \in here
  /\ here' = here \ {r}
  /\ UNCHANGED <<sent, given, repeats>>

MailboxNext == MarkLost \/ \E r \in Members : Post(r) \/ GiveNext(r) \/ GiveAgain(r) \/ Leave(r)

MailboxSpec == MailboxInit /\ [][MailboxNext]_mailVars
=============================================================================
