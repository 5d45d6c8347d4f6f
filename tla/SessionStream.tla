--------------------------- MODULE SessionStream ---------------------------
(***************************************************************************)
(* One PTY session of taime-session-daemon (session.rs) and the client     *)
(* connections that attach to it (conn.rs).                                *)
(*                                                                         *)
(* Output is counted in bytes: the terminal is a function of the bytes it  *)
(* was fed, so a screen is the number of bytes of output it shows, and     *)
(* Garbled once a chunk was applied to the wrong screen.  Threads: the     *)
(* blocking reader ("reader"), the 250 ms maintenance tick ("gc"), and one *)
(* handler per connection.  Every action that changes out, viewer, sent,   *)
(* acked or paused is one critical section of the `state` mutex.           *)
(***************************************************************************)
EXTENDS Integers, Sequences

CONSTANTS
  Conns,      \* connection ids
  NoConn,     \* no client attached
  High, Low,  \* HIGH_WATERMARK, LOW_WATERMARK
  Chunk,      \* the reader's buffer: at most this many bytes per read
  KernelBuf,  \* capacity of the kernel's PTY buffer
  MaxOut,     \* bound of the model: bytes of output the agent ever writes
  MaxQueue    \* bound of the model: frames a connection may have queued when it attaches

ASSUME StreamAssumption ==
  /\ NoConn \notin Conns
  /\ High \in Nat /\ Low \in Nat /\ Low <= High
  /\ Chunk \in Nat \ {0} /\ KernelBuf \in Nat \ {0}
  /\ MaxOut \in Nat /\ MaxQueue \in Nat

VARIABLES
  kbuf, ttyOpen, proc,                     \* the OS: PTY buffer, slave side, leader process
  pc, hold, childLock,                     \* reader and gc threads, the chunk just read, the child mutex
  out, viewer, sent, acked, paused,        \* SessionState under the state mutex
  dead, finalized, kill,                   \* atomics, and kill_sigterm_at
  inMap,                                   \* the session is in Manager.sessions
  open, held, chan, screen                 \* per connection: socket, the handler's `attached`, queue, terminal

osVars   == <<kbuf, ttyOpen, proc>>
endVars  == <<dead, finalized, kill, inMap, childLock>>
connVars == <<open, held, chan, screen>>
flowVars == <<out, viewer, sent, acked, paused>>
vars == <<osVars, pc, hold, flowVars, endVars, connVars>>

Threads == {"reader", "gc"}
Garbled == -1

Frame == [kind : {"repaint", "data", "exited"}, from : Nat, to : Nat]

Init ==
  /\ kbuf = 0 /\ ttyOpen = TRUE /\ proc = "running"
  /\ pc = [reader |-> "top", gc |-> "idle"]
  /\ hold = 0 /\ childLock = "none"
  /\ out = 0 /\ viewer = NoConn /\ sent = 0 /\ acked = 0 /\ paused = FALSE
  /\ dead = FALSE /\ finalized = FALSE /\ kill = "none" /\ inMap = TRUE
  /\ open = [c \in Conns |-> TRUE]
  /\ held = [c \in Conns |-> FALSE]
  /\ chan = [c \in Conns |-> <<>>]
  /\ screen = [c \in Conns |-> 0]

Goto(t, label) == pc' = [pc EXCEPT ![t] = label]
Send(c, kind, from, to) ==
  chan' = [chan EXCEPT ![c] = Append(@, [kind |-> kind, from |-> from, to |-> to])]

\* resume.notify_all(): a reader waiting on the condition variable becomes runnable.
NotifiedNobody == pc
Notified == IF pc["reader"] = "wait" THEN [pc EXCEPT !["reader"] = "woken"] ELSE pc

-----------------------------------------------------------------------------
(* The agent's process group and its terminal.                             *)

AgentWrite(n) ==
  /\ ttyOpen
  /\ kbuf + n <= KernelBuf
  /\ out + hold + kbuf + n <= MaxOut
  /\ kbuf' = kbuf + n
  /\ UNCHANGED <<ttyOpen, proc, pc, hold, flowVars, endVars, connVars>>

\* The leader exits; a helper it forked may still hold the terminal open.
LeaderExit ==
  /\ proc = "running"
  /\ proc' = "exited"
  /\ UNCHANGED <<kbuf, ttyOpen, pc, hold, flowVars, endVars, connVars>>

\* The last process that had the terminal open closes it, alive or not.
CloseTty ==
  /\ ttyOpen
  /\ ttyOpen' = FALSE
  /\ UNCHANGED <<kbuf, proc, pc, hold, flowVars, endVars, connVars>>

-----------------------------------------------------------------------------
(* The reader thread, spawn_reader.                                        *)

ReaderTop ==
  /\ pc["reader"] = "top"
  /\ Goto("reader", IF paused THEN "wait" ELSE "read")
  /\ UNCHANGED <<osVars, hold, flowVars, endVars, connVars>>

\* Woken from the condition variable: `dead` is looked at before `paused`.
ReaderWake ==
  /\ pc["reader"] = "woken"
  /\ Goto("reader", IF paused /\ ~dead THEN "wait" ELSE "read")
  /\ UNCHANGED <<osVars, hold, flowVars, endVars, connVars>>

ReaderRead(n) ==
  /\ pc["reader"] = "read"
  /\ n <= kbuf
  /\ kbuf' = kbuf - n
  /\ hold' = n
  /\ Goto("reader", "publish")
  /\ UNCHANGED <<ttyOpen, proc, flowVars, endVars, connVars>>

ReaderEof ==
  /\ pc["reader"] = "read"
  /\ kbuf = 0 /\ ~ttyOpen
  /\ Goto("reader", "swap")
  /\ UNCHANGED <<osVars, hold, flowVars, endVars, connVars>>

\* The critical section after a read: assign offsets, then hand the chunk on.
PublishDetached ==
  /\ viewer = NoConn
  /\ UNCHANGED <<viewer, sent, paused, chan>>

PublishIfRoom ==
  /\ viewer # NoConn /\ open[viewer]
  /\ IF chan[viewer] = <<>> THEN Send(viewer, "data", out, out + hold) ELSE UNCHANGED chan
  /\ sent' = out + hold
  /\ paused' = (paused \/ out + hold - acked > High)
  /\ UNCHANGED viewer

PublishToViewer ==
  /\ viewer # NoConn /\ open[viewer]
  /\ Send(viewer, "data", out, out + hold)
  /\ sent' = out + hold
  /\ paused' = (paused \/ out + hold - acked > High)
  /\ UNCHANGED viewer

PublishToGone ==
  /\ viewer # NoConn /\ ~open[viewer]
  /\ viewer' = NoConn
  /\ paused' = FALSE
  /\ UNCHANGED <<sent, chan>>

ReaderPublish ==
  /\ pc["reader"] = "publish"
  /\ PublishDetached \/ PublishToViewer \/ PublishToGone
  /\ out' = out + hold
  /\ hold' = 0
  /\ Goto("reader", "top")
  /\ UNCHANGED <<osVars, acked, endVars, open, held, screen>>

-----------------------------------------------------------------------------
(* finalize_exit, run by the reader at end of file and by the gc reaper.   *)

FinalizeSwap(t) ==
  /\ pc[t] = "swap"
  /\ finalized' = TRUE
  /\ Goto(t, IF finalized THEN "leave" ELSE "lock")
  /\ UNCHANGED <<osVars, hold, flowVars, dead, kill, inMap, childLock, connVars>>

FinalizeLockChild(t) ==
  /\ pc[t] = "lock"
  /\ childLock = "none"
  /\ childLock' = t
  /\ Goto(t, "waitpid")
  /\ UNCHANGED <<osVars, hold, flowVars, dead, finalized, kill, inMap, connVars>>

\* child.wait() returns and the child mutex is released; then dead is set.
FinalizeReaped(t) ==
  /\ pc[t] = "waitpid"
  /\ proc = "exited"
  /\ childLock' = "none"
  /\ dead' = TRUE
  /\ Goto(t, "announce")
  /\ UNCHANGED <<osVars, hold, flowVars, finalized, kill, inMap, connVars>>

FinalizeAnnounce(t) ==
  /\ pc[t] = "announce"
  /\ IF viewer # NoConn /\ open[viewer]
       THEN Send(viewer, "exited", out, out)
       ELSE UNCHANGED chan
  /\ Goto(t, "leave")
  /\ UNCHANGED <<osVars, hold, flowVars, endVars, open, held, screen>>

ReaderDone ==
  /\ pc["reader"] = "leave"
  /\ Goto("reader", "done")
  /\ UNCHANGED <<osVars, hold, flowVars, endVars, connVars>>

-----------------------------------------------------------------------------
(* The maintenance tick: gc_tick as far as it touches this session.        *)

GcSweep ==
  /\ pc["gc"] = "idle" /\ inMap /\ dead
  /\ inMap' = FALSE
  /\ UNCHANGED <<osVars, pc, hold, flowVars, dead, finalized, kill, childLock, connVars>>

\* reap_if_exited: try_wait needs the child mutex.
GcTryWait ==
  /\ pc["gc"] = "idle" /\ inMap
  /\ childLock = "none"
  /\ proc = "exited"
  /\ Goto("gc", "swap")
  /\ UNCHANGED <<osVars, hold, flowVars, endVars, connVars>>

\* The leader is still running: escalate_kill_if_due.
GcEscalate ==
  /\ pc["gc"] = "idle" /\ inMap
  /\ childLock = "none"
  /\ proc = "running"
  /\ kill = "due" /\ ~dead
  /\ kill' = "sigkill"
  /\ UNCHANGED <<osVars, pc, hold, flowVars, dead, finalized, inMap, childLock, connVars>>

GcNotify ==
  /\ pc["gc"] = "leave"
  /\ pc' = [Notified EXCEPT !["gc"] = "idle"]
  /\ UNCHANGED <<osVars, hold, flowVars, endVars, connVars>>

\* KILL_GRACE runs out.
GraceExpires ==
  /\ kill = "armed"
  /\ kill' = "due"
  /\ UNCHANGED <<osVars, pc, hold, flowVars, dead, finalized, inMap, childLock, connVars>>

-----------------------------------------------------------------------------
(* Requests on a connection.                                               *)

\* The offset of the grid the repaint is rendered from.
SnapshotLastSent == sent
Snapshot == out

\* A handler that already held the session detaches it first; attach then
\* overwrites everything that detach changed.
Attach(c) ==
  /\ open[c] /\ inMap
  /\ Len(chan[c]) <= MaxQueue
  /\ Send(c, "repaint", Snapshot, Snapshot)
  /\ viewer' = c
  /\ sent' = out
  /\ acked' = out
  /\ paused' = FALSE
  /\ pc' = Notified
  /\ held' = [held EXCEPT ![c] = TRUE]
  /\ UNCHANGED <<osVars, hold, out, endVars, open, screen>>

DetachOnly(c) ==
  /\ held[c]
  /\ viewer' = IF viewer = c THEN NoConn ELSE viewer
  /\ held' = [held EXCEPT ![c] = FALSE]
  /\ UNCHANGED <<osVars, pc, hold, out, sent, acked, paused, endVars, open, chan, screen>>

\* A Detach request, or the handler's exit once its socket is gone.
Detach(c) ==
  /\ held[c]
  /\ viewer' = IF viewer = c THEN NoConn ELSE viewer
  /\ paused' = FALSE
  /\ pc' = Notified
  /\ held' = [held EXCEPT ![c] = FALSE]
  /\ UNCHANGED <<osVars, hold, out, sent, acked, endVars, open, chan, screen>>

Lesser(a, b) == IF a < b THEN a ELSE b
Greater(a, b) == IF a > b THEN a ELSE b

\* What an acknowledgement may claim: no more than was sent.
Clamped(offset) == Lesser(offset, sent)

Ack(c, offset) ==
  /\ open[c] /\ held[c]
  /\ viewer = c
  /\ LET drained == Greater(acked, Clamped(offset))
         resume  == paused /\ sent - drained < Low
     IN  /\ acked' = drained
         /\ paused' = (paused /\ ~resume)
         /\ pc' = IF resume THEN Notified ELSE pc
  /\ UNCHANGED <<osVars, hold, out, viewer, sent, endVars, connVars>>

\* SIGTERM to the group: the agent may exit, or ignore it.
\* kill_sigterm_at is set by the first request only.
Rearmed == "armed"
Armed == IF kill = "none" THEN "armed" ELSE kill

Kill ==
  /\ inMap
  /\ kill' = Armed
  /\ paused' = FALSE
  /\ pc' = Notified
  /\ UNCHANGED <<osVars, hold, out, viewer, sent, acked, dead, finalized, inMap, childLock, connVars>>

-----------------------------------------------------------------------------
(* The other end of a connection.                                          *)

Shown(s, f) ==
  CASE f.kind = "repaint" -> f.to
    [] f.kind = "data"    -> IF s = f.from THEN f.to ELSE Garbled
    [] OTHER              -> s

Receive(c) ==
  /\ open[c] /\ chan[c] # <<>>
  /\ screen' = [screen EXCEPT ![c] = Shown(@, Head(chan[c]))]
  /\ chan' = [chan EXCEPT ![c] = Tail(@)]
  /\ UNCHANGED <<osVars, pc, hold, flowVars, endVars, open, held>>

\* The socket breaks: the writer task ends and drops the queue's receiver.
Disconnect(c) ==
  /\ open[c]
  /\ open' = [open EXCEPT ![c] = FALSE]
  /\ chan' = [chan EXCEPT ![c] = <<>>]
  /\ UNCHANGED <<osVars, pc, hold, flowVars, endVars, held, screen>>

-----------------------------------------------------------------------------
Agent  == (\E n \in 1..KernelBuf : AgentWrite(n)) \/ LeaderExit \/ CloseTty
Finalize(t) ==
  FinalizeSwap(t) \/ FinalizeLockChild(t) \/ FinalizeReaped(t) \/ FinalizeAnnounce(t)
Reader == \/ ReaderTop \/ ReaderWake
          \/ \E n \in 1..Chunk : ReaderRead(n)
          \/ ReaderEof \/ ReaderPublish \/ Finalize("reader") \/ ReaderDone
Gc     == GcSweep \/ GcTryWait \/ GcNotify \/ GcEscalate \/ Finalize("gc")
Client(c) == \/ Attach(c) \/ Detach(c) \/ Receive(c) \/ Disconnect(c)
             \/ \E offset \in 0..MaxOut : Ack(c, offset)

Next == Agent \/ Reader \/ Gc \/ GraceExpires \/ Kill \/ \E c \in Conns : Client(c)

Spec == Init /\ [][Next]_vars

-----------------------------------------------------------------------------
(* What the scheduler owes: the daemon's threads run, the kernel delivers  *)
(* SIGKILL, a connection handler notices that its socket is gone.          *)
DaemonFairness ==
  /\ WF_vars(Reader)
  /\ WF_vars(Gc)
  /\ WF_vars(GraceExpires)
  /\ WF_vars(kill = "sigkill" /\ LeaderExit)
  /\ \A c \in Conns : WF_vars(~open[c] /\ Detach(c))

\* A client that keeps reading its socket and acknowledges what it has shown.
ClientFairness ==
  \A c \in Conns : /\ WF_vars(Receive(c))
                   /\ WF_vars(screen[c] > acked /\ Ack(c, screen[c]))

FairSpec == Spec /\ DaemonFairness
DrainSpec == FairSpec /\ ClientFairness

-----------------------------------------------------------------------------
(* Properties.                                                             *)

Finalizing == {"lock", "waitpid", "announce"}
Labels == {"top", "wait", "woken", "read", "publish", "idle", "swap", "lock", "waitpid", "announce", "leave", "done"}

TypeOK ==
  /\ kbuf \in 0..KernelBuf /\ ttyOpen \in BOOLEAN /\ proc \in {"running", "exited"}
  /\ pc \in [Threads -> Labels]
  /\ hold \in 0..Chunk /\ childLock \in Threads \cup {"none"}
  /\ out \in Nat /\ viewer \in Conns \cup {NoConn} /\ sent \in 0..out /\ acked \in 0..out
  /\ paused \in BOOLEAN /\ dead \in BOOLEAN /\ finalized \in BOOLEAN
  /\ kill \in {"none", "armed", "due", "sigkill"} /\ inMap \in BOOLEAN
  /\ open \in [Conns -> BOOLEAN] /\ held \in [Conns -> BOOLEAN]
  /\ chan \in [Conns -> Seq(Frame)] /\ screen \in [Conns -> Nat \cup {Garbled}]

(* The attach cut is exactly-once: whatever a client attaches, detaches or *)
(* replaces, and whatever it has been sent so far, its terminal shows an   *)
(* exact prefix of the agent's output -- no byte missing, none twice.      *)
ScreenExact == \A c \in Conns : screen[c] \in 0..out

(* Threads, queues and watermarks implement the abstract feed: every step  *)
(* of a screen is forward, to the state after a prefix of the output.      *)
Feed == INSTANCE TerminalFeed WITH Terminals <- Conns, produced <- out
FeedSpec == Feed!Spec

(* A reader parked on backpressure is parked for a reason that can end: a  *)
(* client is attached and owes at least LOW_WATERMARK bytes of acks, so an *)
(* acknowledgement of everything it was sent wakes the reader.             *)
ParkedIsOwed ==
  pc["reader"] = "wait" => paused /\ viewer # NoConn /\ sent - acked >= Low

(* The attached client is current -- it was sent all output read so far -- *)
(* and nobody has acknowledged bytes that were not sent.                   *)
ViewerCurrent == viewer # NoConn => sent = out /\ acked <= sent

(* Only a process that was waited for is declared dead or dropped from the *)
(* map, exactly one thread runs the exit path, and it runs it after having *)
(* won `finalized`.                                                        *)
ReapSound ==
  /\ dead => proc = "exited"
  /\ ~inMap => dead
  /\ \A t \in Threads : pc[t] \in Finalizing =>
       finalized /\ \A u \in Threads \ {t} : pc[u] \notin Finalizing
  /\ dead => finalized

-----------------------------------------------------------------------------
(* The inductive invariant behind the properties above.                    *)

\* The screen connection c will show once it has received i queued frames.
Pos(c, i) == IF i = 0 THEN screen[c] ELSE chan[c][i].to

\* Queued frames continue one another; only a repaint may jump, and forward.
Linked(c) ==
  \A i \in 1..Len(chan[c]) :
    LET f == chan[c][i] IN
    /\ Pos(c, i - 1) <= f.from /\ f.from <= f.to /\ f.to <= out
    /\ f.kind # "repaint" => f.from = Pos(c, i - 1)
    /\ f.kind # "data" => f.from = f.to

FeedInv == \A c \in Conns :
  /\ screen[c] \in 0..out
  /\ Linked(c)
  /\ viewer = c /\ open[c] => Pos(c, Len(chan[c])) = out

FlowInv ==
  /\ ViewerCurrent
  /\ paused => viewer # NoConn /\ sent - acked >= Low
  /\ pc["reader"] = "wait" => paused

StreamInv == TypeOK /\ FlowInv /\ FeedInv /\ ReapSound

(* With clients that read and acknowledge, the reader always gets through: *)
(* once the terminal is closed it drains the kernel's buffer and ends, ... *)
ReaderEnds == (~ttyOpen /\ proc = "exited") ~> pc["reader"] = "done"
(* ... and a client that stays attached ends up showing all output read.   *)
ViewerSeesAll == \A c \in Conns : <>[](viewer = c /\ open[c]) => <>[](screen[c] = out)

(* kill(): an agent that ignores SIGTERM is force-killed after a grace,    *)
(* provided it keeps its terminal open while it runs (one that closes it   *)
(* has the reader wait for it, and the tick for the reader).               *)
KillLandsOnTty == [](proc = "running" => ttyOpen) => (kill = "armed" ~> proc = "exited")
=============================================================================
