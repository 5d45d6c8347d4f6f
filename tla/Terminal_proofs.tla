--------------------------- MODULE Terminal_proofs ---------------------------
(***************************************************************************)
(* Proofs about the two ends of an agent's terminal.                       *)
(*                                                                         *)
(* SessionStream: its safety properties are invariants of Spec for every   *)
(* set of connections, every pair of watermarks, every buffer size and     *)
(* every bound, and it implements TerminalFeed.                            *)
(*                                                                         *)
(* AttachClient: for any number of views and of connections that break, a  *)
(* view on the screen keeps its attach and is the one the session streams  *)
(* to.                                                                     *)
(***************************************************************************)
EXTENDS SessionStream, AttachClient, SequenceTheorems, TLAPS

-----------------------------------------------------------------------------
(* SessionStream.                                                          *)

USE DEF osVars, endVars, flowVars, connVars, Goto, Notified

\* A frame sent on a connection keeps the queues well typed.
LEMMA SendType ==
  ASSUME NEW c \in Conns, chan \in [Conns -> Seq(Frame)],
         NEW kind \in {"repaint", "data", "exited"}, NEW from \in Nat, NEW to \in Nat,
         Send(c, kind, from, to)
  PROVE  chan' \in [Conns -> Seq(Frame)]
BY DEF Send, Frame

LEMMA TypeStep == TypeOK /\ [Next]_vars => TypeOK'
<1> SUFFICES ASSUME TypeOK, [Next]_vars PROVE TypeOK'
  OBVIOUS
<1>t. out \in Nat /\ hold \in Nat /\ out + hold \in Nat
  BY StreamAssumption DEF TypeOK
<1> USE DEF TypeOK, Labels, Threads, Garbled
<1>1. CASE Agent
  <2>1. ASSUME NEW n \in 1..KernelBuf, AgentWrite(n) PROVE TypeOK'
    BY <2>1, StreamAssumption DEF AgentWrite
  <2>2. CASE LeaderExit \/ CloseTty
    BY <2>2 DEF LeaderExit, CloseTty
  <2> QED BY <1>1, <2>1, <2>2 DEF Agent
<1>2. CASE ReaderTop \/ ReaderWake \/ ReaderEof \/ ReaderDone
  BY <1>2 DEF ReaderTop, ReaderWake, ReaderEof, ReaderDone
<1>3. ASSUME NEW n \in 1..Chunk, ReaderRead(n) PROVE TypeOK'
  BY <1>3, StreamAssumption DEF ReaderRead
<1>4. CASE ReaderPublish
  <2>1. CASE PublishDetached
    BY <1>4, <2>1, StreamAssumption DEF ReaderPublish, PublishDetached
  <2>2. CASE PublishToViewer
    <3>1. viewer \in Conns
      BY <2>2 DEF PublishToViewer
    <3>2. chan' \in [Conns -> Seq(Frame)]
      BY <1>t, <2>2, <3>1, SendType DEF PublishToViewer
    <3> QED BY <1>t, <1>4, <2>2, <3>1, <3>2, StreamAssumption DEF ReaderPublish, PublishToViewer
  <2>3. CASE PublishToGone
    <3>1. viewer' = NoConn /\ paused' = FALSE /\ sent' = sent /\ chan' = chan
      BY <2>3 DEF PublishToGone
    <3>2. /\ out' = out + hold /\ hold' = 0 /\ pc' = [pc EXCEPT !["reader"] = "top"]
          /\ UNCHANGED <<osVars, acked, endVars, open, held, screen>>
      BY <1>4 DEF ReaderPublish
    <3>3. pc' \in [Threads -> Labels] /\ hold' \in 0..Chunk /\ out' \in Nat
      BY <1>t, <3>2, StreamAssumption
    <3>4. sent' \in 0..out' /\ acked' \in 0..out'
      BY <1>t, <3>1, <3>2
    <3> HIDE DEF Labels, Threads
    <3> QED BY <3>1, <3>2, <3>3, <3>4
  <2> QED BY <1>4, <2>1, <2>2, <2>3 DEF ReaderPublish
<1>5. ASSUME NEW t \in Threads, Finalize(t) PROVE TypeOK'
  <2>1. CASE FinalizeSwap(t)
    BY <2>1 DEF FinalizeSwap
  <2>2. CASE FinalizeLockChild(t)
    BY <2>2 DEF FinalizeLockChild
  <2>3. CASE FinalizeReaped(t)
    BY <2>3 DEF FinalizeReaped
  <2>4. CASE FinalizeAnnounce(t)
    <3>1. chan' \in [Conns -> Seq(Frame)]
      BY <2>4, SendType DEF FinalizeAnnounce
    <3> QED BY <2>4, <3>1 DEF FinalizeAnnounce
  <2> QED BY <1>5, <2>1, <2>2, <2>3, <2>4 DEF Finalize
<1>6. CASE GcSweep \/ GcTryWait \/ GcEscalate \/ GraceExpires
  BY <1>6 DEF GcSweep, GcTryWait, GcEscalate, GraceExpires
<1>7. CASE GcNotify
  BY <1>7 DEF GcNotify
<1>8. CASE Kill
  BY <1>8 DEF Kill, Armed
<1>9. ASSUME NEW c \in Conns, Client(c) PROVE TypeOK'
  <2>1. CASE Attach(c)
    <3>1. chan' \in [Conns -> Seq(Frame)]
      BY <2>1, SendType DEF Attach, Snapshot
    <3>2. sent' \in 0..out' /\ acked' \in 0..out' /\ out' = out
      BY <1>t, <2>1 DEF Attach, Snapshot
    <3>3. pc' \in [Threads -> Labels]
      BY <2>1 DEF Attach
    <3> HIDE DEF Labels, Threads, Notified
    <3> QED BY <2>1, <3>1, <3>2, <3>3 DEF Attach
  <2>2. CASE Detach(c)
    BY <2>2 DEF Detach
  <2>3. CASE Receive(c)
    <3>1. chan[c] \in Seq(Frame) /\ chan[c] # <<>>
      BY <2>3 DEF Receive
    <3>2. Head(chan[c]) \in Frame /\ Tail(chan[c]) \in Seq(Frame)
      BY <3>1
    <3>3. Shown(screen[c], Head(chan[c])) \in Nat \cup {-1}
      BY <3>2 DEF Shown, Frame
    <3> QED BY <2>3, <3>2, <3>3 DEF Receive
  <2>4. CASE Disconnect(c)
    BY <2>4 DEF Disconnect
  <2>5. ASSUME NEW offset \in 0..MaxOut, Ack(c, offset) PROVE TypeOK'
    BY <2>5, StreamAssumption DEF Ack, Clamped, Lesser, Greater
  <2> QED BY <1>9, <2>1, <2>2, <2>3, <2>4, <2>5 DEF Client
<1>10. CASE UNCHANGED vars
  BY <1>10 DEF vars
<1> QED
  BY <1>1, <1>2, <1>3, <1>4, <1>5, <1>6, <1>7, <1>8, <1>9, <1>10 DEF Next, Reader, Gc

-----------------------------------------------------------------------------
(* Backpressure: every action that could strand a parked reader.           *)

LEMMA FlowStep == TypeOK /\ FlowInv /\ [Next]_vars => FlowInv'
<1> SUFFICES ASSUME TypeOK, FlowInv, [Next]_vars PROVE FlowInv'
  OBVIOUS
<1> USE StreamAssumption DEF FlowInv, ViewerCurrent
<1>t. /\ out \in Nat /\ sent \in Nat /\ acked \in Nat /\ hold \in Nat /\ paused \in BOOLEAN
      /\ pc \in [Threads -> Labels] /\ viewer \in Conns \cup {NoConn}
  BY DEF TypeOK
<1> USE <1>t DEF Threads
<1>1. CASE Agent
  BY <1>1 DEF Agent, AgentWrite, LeaderExit, CloseTty
<1>2. CASE ReaderTop \/ ReaderWake \/ ReaderEof \/ ReaderDone
  BY <1>2 DEF ReaderTop, ReaderWake, ReaderEof, ReaderDone
<1>3. ASSUME NEW n \in 1..Chunk, ReaderRead(n) PROVE FlowInv'
  BY <1>3 DEF ReaderRead
<1>4. CASE ReaderPublish
  <2>1. CASE PublishDetached
    BY <1>4, <2>1 DEF ReaderPublish, PublishDetached
  <2>2. CASE PublishToViewer
    BY <1>4, <2>2 DEF ReaderPublish, PublishToViewer
  <2>3. CASE PublishToGone
    BY <1>4, <2>3 DEF ReaderPublish, PublishToGone
  <2> QED BY <1>4, <2>1, <2>2, <2>3 DEF ReaderPublish
<1>5. ASSUME NEW t \in Threads, Finalize(t) PROVE FlowInv'
  <2>1. /\ UNCHANGED flowVars
        /\ \E l \in {"lock", "waitpid", "announce", "leave"} : pc' = [pc EXCEPT ![t] = l]
    BY <1>5 DEF Finalize, FinalizeSwap, FinalizeLockChild, FinalizeReaped, FinalizeAnnounce
  <2> QED BY <2>1
<1>6. CASE GcSweep \/ GcTryWait \/ GcEscalate \/ GraceExpires \/ GcNotify
  BY <1>6 DEF GcSweep, GcTryWait, GcEscalate, GraceExpires, GcNotify
<1>7. CASE Kill
  BY <1>7 DEF Kill
<1>8. ASSUME NEW c \in Conns, Client(c) PROVE FlowInv'
  <2>1. CASE Attach(c)
    BY <2>1 DEF Attach, Snapshot
  <2>2. CASE Detach(c)
    BY <2>2 DEF Detach
  <2>3. CASE Receive(c) \/ Disconnect(c)
    BY <2>3 DEF Receive, Disconnect
  <2>4. ASSUME NEW offset \in 0..MaxOut, Ack(c, offset) PROVE FlowInv'
    <3>1. viewer = c /\ viewer' = c /\ UNCHANGED <<out, sent>> /\ acked <= sent
      BY <2>4 DEF Ack
    <3>2. acked' \in Nat /\ acked' <= sent
      BY <2>4, <3>1 DEF Ack, Clamped, Lesser, Greater
    <3>3. \/ paused' = FALSE /\ pc' = Notified
          \/ paused' = paused /\ pc' = pc /\ (paused => sent - acked' >= Low)
      <4>1. CASE paused /\ sent - acked' < Low
        BY <2>4, <4>1 DEF Ack
      <4>2. CASE ~(paused /\ sent - acked' < Low)
        BY <2>4, <3>2, <4>2 DEF Ack
      <4> QED BY <4>1, <4>2
    <3>4. paused' => viewer' # NoConn /\ sent' - acked' >= Low
      BY <3>1, <3>3
    <3>5. pc'["reader"] = "wait" => paused'
      BY <3>3
    <3> QED BY <3>1, <3>2, <3>4, <3>5
  <2> QED BY <1>8, <2>1, <2>2, <2>3, <2>4 DEF Client
<1>9. CASE UNCHANGED vars
  BY <1>9 DEF vars
<1> QED
  BY <1>1, <1>2, <1>3, <1>4, <1>5, <1>6, <1>7, <1>8, <1>9 DEF Next, Reader, Gc

-----------------------------------------------------------------------------
(* The exit path: one finalizer, and only of a process that was waited for. *)

LEMMA ReapStep == TypeOK /\ ReapSound /\ [Next]_vars => ReapSound'
<1> SUFFICES ASSUME TypeOK, ReapSound, [Next]_vars PROVE ReapSound'
  OBVIOUS
<1> USE DEF ReapSound, Finalizing, Threads
<1>t. pc \in [Threads -> Labels] /\ dead \in BOOLEAN /\ finalized \in BOOLEAN /\ inMap \in BOOLEAN
  BY DEF TypeOK
<1> USE <1>t
<1>1. CASE Agent
  BY <1>1 DEF Agent, AgentWrite, LeaderExit, CloseTty
<1>2. CASE ReaderTop \/ ReaderWake \/ ReaderEof \/ ReaderDone
  BY <1>2 DEF ReaderTop, ReaderWake, ReaderEof, ReaderDone
<1>3. ASSUME NEW n \in 1..Chunk, ReaderRead(n) PROVE ReapSound'
  BY <1>3 DEF ReaderRead
<1>4. CASE ReaderPublish
  BY <1>4 DEF ReaderPublish
<1>5. ASSUME NEW t \in Threads, Finalize(t) PROVE ReapSound'
  <2>1. CASE FinalizeSwap(t)
    BY <2>1 DEF FinalizeSwap
  <2>2. CASE FinalizeLockChild(t)
    BY <2>2 DEF FinalizeLockChild
  <2>3. CASE FinalizeReaped(t)
    BY <2>3 DEF FinalizeReaped
  <2>4. CASE FinalizeAnnounce(t)
    BY <2>4 DEF FinalizeAnnounce
  <2> QED BY <1>5, <2>1, <2>2, <2>3, <2>4 DEF Finalize
<1>6. CASE GcSweep \/ GcTryWait \/ GcEscalate \/ GraceExpires \/ GcNotify
  BY <1>6 DEF GcSweep, GcTryWait, GcEscalate, GraceExpires, GcNotify
<1>7. CASE Kill
  BY <1>7 DEF Kill
<1>8. ASSUME NEW c \in Conns, Client(c) PROVE ReapSound'
  <2>1. /\ UNCHANGED endVars /\ UNCHANGED proc
        /\ pc' = Notified \/ pc' = pc
    BY <1>8 DEF Client, Attach, Detach, Receive, Disconnect, Ack
  <2> QED BY <2>1
<1>9. CASE UNCHANGED vars
  BY <1>9 DEF vars
<1> QED
  BY <1>1, <1>2, <1>3, <1>4, <1>5, <1>6, <1>7, <1>8, <1>9 DEF Next, Reader, Gc

-----------------------------------------------------------------------------
(* The queues: a frame continues what its connection will have shown.      *)

LEMMA SendLinked ==
  ASSUME NEW c \in Conns, chan \in [Conns -> Seq(Frame)], screen \in [Conns -> Int],
         out \in Nat, out' \in Nat, out <= out', UNCHANGED screen,
         NEW kind \in {"repaint", "data", "exited"}, NEW from \in Nat, NEW to \in Nat,
         Send(c, kind, from, to),
         Linked(c), Pos(c, Len(chan[c])) <= from, from <= to, to <= out',
         kind # "repaint" => from = Pos(c, Len(chan[c])),
         kind # "data" => from = to
  PROVE  Linked(c)' /\ Pos(c, Len(chan[c]))' = to
<1> PICK f : f = [kind |-> kind, from |-> from, to |-> to]
  OBVIOUS
<1> PICK n \in Nat : n = Len(chan[c])
  OBVIOUS
<1> PICK q \in Seq(Frame) : q = chan[c]
  OBVIOUS
<1> PICK r \in Seq(Frame) : r = chan'[c]
  BY SendType
<1>1. r = Append(q, f) /\ f \in Frame /\ n = Len(q)
  BY DEF Send, Frame
<1>3. /\ Len(r) = n + 1
      /\ r[n + 1] = f
      /\ \A i \in 1..n : r[i] = q[i]
  BY <1>1
<1>4. ASSUME NEW i \in 0..n PROVE Pos(c, i)' = Pos(c, i)
  <2>1. CASE i = 0
    BY <2>1 DEF Pos
  <2>2. CASE i \in 1..n
    BY <1>3, <2>2 DEF Pos
  <2> QED BY <2>1, <2>2
<1>5. Pos(c, n + 1)' = to
  BY <1>3 DEF Pos
<1>6. ASSUME NEW i \in 1..n
      PROVE  /\ Pos(c, i - 1)' <= r[i].from /\ r[i].from <= r[i].to /\ r[i].to <= out'
             /\ r[i].kind # "repaint" => r[i].from = Pos(c, i - 1)'
             /\ r[i].kind # "data" => r[i].from = r[i].to
  <2>1. i - 1 \in 0..n /\ r[i] = q[i]
    BY <1>3
  <2>2. Pos(c, i - 1)' = Pos(c, i - 1)
    BY <1>4, <2>1
  <2>3. q[i] \in Frame
    BY <1>1
  <2>5. q[i].to \in Nat
    BY <2>3 DEF Frame
  <2>4. /\ Pos(c, i - 1) <= q[i].from /\ q[i].from <= q[i].to /\ q[i].to <= out
        /\ q[i].kind # "repaint" => q[i].from = Pos(c, i - 1)
        /\ q[i].kind # "data" => q[i].from = q[i].to
    BY SMT DEF Linked
  <2> QED BY <2>1, <2>2, <2>4, <2>5
<1>7. /\ Pos(c, n)' <= r[n + 1].from /\ r[n + 1].from <= r[n + 1].to /\ r[n + 1].to <= out'
      /\ r[n + 1].kind # "repaint" => r[n + 1].from = Pos(c, n)'
      /\ r[n + 1].kind # "data" => r[n + 1].from = r[n + 1].to
  <2>1. Pos(c, n)' = Pos(c, n)
    BY <1>4
  <2> QED BY <1>3, <2>1
<1>8. Linked(c)'
  <2>1. \A i \in 1..(n + 1) : i \in 1..n \/ i = n + 1
    OBVIOUS
  <2> QED BY <1>3, <1>6, <1>7, <2>1 DEF Linked
<1> QED BY <1>3, <1>5, <1>8

\* A queue nothing is sent on stays linked while the output grows.
LEMMA SameLinked ==
  ASSUME NEW c \in Conns, chan \in [Conns -> Seq(Frame)], out \in Nat, out' \in Nat, out <= out',
         chan'[c] = chan[c], screen'[c] = screen[c], Linked(c)
  PROVE  Linked(c)' /\ Pos(c, Len(chan[c]))' = Pos(c, Len(chan[c]))
<1>1. \A i \in Int : Pos(c, i)' = Pos(c, i)
  BY DEF Pos
<1> PICK q \in Seq(Frame) : q = chan[c]
  OBVIOUS
<1>2. ASSUME NEW i \in 1..Len(q)
      PROVE  /\ Pos(c, i - 1)' <= q[i].from /\ q[i].from <= q[i].to /\ q[i].to <= out'
             /\ q[i].kind # "repaint" => q[i].from = Pos(c, i - 1)'
             /\ q[i].kind # "data" => q[i].from = q[i].to
  <2>1. q[i] \in Frame
    OBVIOUS
  <2>2. q[i].to \in Nat
    BY <2>1 DEF Frame
  <2> QED BY <1>1, <2>2 DEF Linked
<1>3. Linked(c)'
  BY <1>2 DEF Linked
<1>4. Len(q) \in Int /\ Len(chan'[c]) = Len(q)
  OBVIOUS
<1> QED BY <1>1, <1>3, <1>4

\* What is queued never runs ahead of the output.
LEMMA TailBound ==
  ASSUME NEW c \in Conns, chan \in [Conns -> Seq(Frame)], screen[c] \in 0..out, out \in Nat, Linked(c)
  PROVE  Pos(c, Len(chan[c])) \in 0..out
<1>1. Len(chan[c]) \in Nat
  OBVIOUS
<1>2. CASE Len(chan[c]) = 0
  BY <1>2 DEF Pos
<1>3. CASE Len(chan[c]) > 0
  <2>1. Len(chan[c]) \in 1..Len(chan[c]) /\ chan[c][Len(chan[c])] \in Frame
    BY <1>1, <1>3
  <2> QED BY <2>1, <1>3 DEF Linked, Pos, Frame
<1> QED BY <1>1, <1>2, <1>3

LEMMA FeedStep == StreamInv /\ [Next]_vars => FeedInv'
<1> SUFFICES ASSUME StreamInv, [Next]_vars PROVE FeedInv'
  OBVIOUS
<1>t. /\ TypeOK /\ FeedInv /\ ViewerCurrent
      /\ chan \in [Conns -> Seq(Frame)] /\ screen \in [Conns -> Int]
      /\ out \in Nat /\ hold \in Nat /\ out + hold \in Nat /\ viewer \in Conns \cup {NoConn}
      /\ open \in [Conns -> BOOLEAN]
  BY StreamAssumption DEF StreamInv, FlowInv, TypeOK, Garbled
<1> USE <1>t
<1>f. ASSUME out' \in Nat, out <= out', UNCHANGED <<chan, screen, open>>,
             (viewer' = viewer /\ out' = out) \/ viewer' = NoConn
      PROVE  FeedInv'
  <2>1. \A c \in Conns : Linked(c)' /\ Pos(c, Len(chan[c]))' = Pos(c, Len(chan[c]))
    BY <1>f, SameLinked DEF FeedInv
  <2> QED BY <1>f, <2>1, StreamAssumption DEF FeedInv
\* A frame from..to put on the queue of c; nobody else becomes the viewer.
<1>s. ASSUME NEW c \in Conns, out' \in Nat, out <= out', UNCHANGED <<screen, open>>, open[c],
             NEW kind \in {"repaint", "data", "exited"}, NEW from \in Nat, NEW to \in Nat,
             Send(c, kind, from, to), viewer' = c, to = out', from <= to,
             Pos(c, Len(chan[c])) <= from,
             kind # "repaint" => from = Pos(c, Len(chan[c])),
             kind # "data" => from = to
      PROVE  FeedInv'
  <2>1. Linked(c)' /\ Pos(c, Len(chan[c]))' = out'
    <3>1. Linked(c)
      BY DEF FeedInv
    <3>2. UNCHANGED screen /\ out \in Nat /\ to <= out'
      BY <1>s
    <3>3. /\ kind # "repaint" => from = Pos(c, Len(chan[c]))
          /\ kind # "data" => from = to
      BY <1>s
    <3>4. Linked(c)' /\ Pos(c, Len(chan[c]))' = to
      BY <1>s, <3>1, <3>2, <3>3, SendLinked
    <3> QED BY <1>s, <3>4
  <2>2. ASSUME NEW d \in Conns, d # c PROVE Linked(d)'
    <3>1. chan'[d] = chan[d]
      BY <1>s, <2>2 DEF Send
    <3> QED BY <1>s, <3>1, SameLinked DEF FeedInv
  <2>3. \A d \in Conns : screen'[d] \in 0..out'
    BY <1>s DEF FeedInv
  <2> QED BY <1>s, <2>1, <2>2, <2>3 DEF FeedInv
<1>1. CASE Agent \/ GraceExpires \/ Kill
  BY <1>1, <1>f DEF Agent, AgentWrite, LeaderExit, CloseTty, GraceExpires, Kill
<1>2. CASE ReaderTop \/ ReaderWake \/ ReaderEof \/ ReaderDone
  BY <1>2, <1>f DEF ReaderTop, ReaderWake, ReaderEof, ReaderDone
<1>3. ASSUME NEW n \in 1..Chunk, ReaderRead(n) PROVE FeedInv'
  BY <1>3, <1>f DEF ReaderRead
<1>4. CASE ReaderPublish
  <2>0. out' = out + hold /\ out' \in Nat /\ out <= out' /\ UNCHANGED <<screen, open>>
    BY <1>4 DEF ReaderPublish
  <2>1. CASE PublishDetached \/ PublishToGone
    BY <2>0, <2>1, <1>f DEF PublishDetached, PublishToGone
  <2>2. CASE PublishToViewer
    <3>1. viewer \in Conns /\ viewer' = viewer /\ open[viewer] /\ Send(viewer, "data", out, out')
      BY <2>0, <2>2 DEF PublishToViewer
    <3>2. Pos(viewer, Len(chan[viewer])) = out
      BY <3>1 DEF FeedInv
    <3> QED BY <2>0, <3>1, <3>2, <1>s
  <2> QED BY <1>4, <2>1, <2>2 DEF ReaderPublish
<1>5. ASSUME NEW t \in Threads, Finalize(t) PROVE FeedInv'
  <2>1. CASE FinalizeSwap(t) \/ FinalizeLockChild(t) \/ FinalizeReaped(t)
    BY <2>1, <1>f DEF FinalizeSwap, FinalizeLockChild, FinalizeReaped
  <2>2. CASE FinalizeAnnounce(t)
    <3>0. UNCHANGED <<out, viewer, open, screen>>
      BY <2>2 DEF FinalizeAnnounce
    <3>1. CASE viewer # NoConn /\ open[viewer]
      <4>1. viewer \in Conns /\ Send(viewer, "exited", out, out)
        BY <2>2, <3>1 DEF FinalizeAnnounce
      <4>2. Pos(viewer, Len(chan[viewer])) = out
        BY <3>1, <4>1 DEF FeedInv
      <4> QED BY <3>0, <3>1, <4>1, <4>2, <1>s
    <3>2. CASE ~(viewer # NoConn /\ open[viewer])
      BY <2>2, <3>0, <3>2, <1>f DEF FinalizeAnnounce
    <3> QED BY <3>1, <3>2
  <2> QED BY <1>5, <2>1, <2>2 DEF Finalize
<1>6. CASE GcSweep \/ GcTryWait \/ GcEscalate \/ GcNotify
  BY <1>6, <1>f DEF GcSweep, GcTryWait, GcEscalate, GcNotify
<1>7. ASSUME NEW c \in Conns, Client(c) PROVE FeedInv'
  <2>1. CASE Attach(c)
    <3>1. Pos(c, Len(chan[c])) \in 0..out
      BY TailBound DEF FeedInv
    <3> QED BY <2>1, <3>1, <1>s DEF Attach, Snapshot
  <2>2. CASE Detach(c)
    BY <2>2, <1>f DEF Detach
  <2>3. CASE Receive(c)
    <3> PICK q \in Seq(Frame) : q = chan[c]
      OBVIOUS
    <3>1. q # <<>> /\ Len(q) >= 1 /\ q[1] \in Frame /\ Head(q) = q[1]
      BY <2>3 DEF Receive
    <3>2. /\ screen[c] <= q[1].from /\ q[1].from <= q[1].to /\ q[1].to <= out
          /\ q[1].kind # "repaint" => q[1].from = screen[c]
          /\ q[1].kind # "data" => q[1].from = q[1].to
      BY <3>1 DEF FeedInv, Linked, Pos
    <3>3. Shown(screen[c], q[1]) = q[1].to
      BY <3>1, <3>2 DEF Shown, Frame
    <3>4. screen' = [screen EXCEPT ![c] = q[1].to]
      BY <2>3, <3>1, <3>3 DEF Receive
    <3>5. chan' = [chan EXCEPT ![c] = Tail(q)] /\ UNCHANGED <<out, viewer, open>>
      BY <2>3 DEF Receive
    <3>6. Len(Tail(q)) = Len(q) - 1 /\ \A i \in 1..(Len(q) - 1) : Tail(q)[i] = q[i + 1]
      BY <3>1
    <3>7. \A i \in 0..(Len(q) - 1) : Pos(c, i)' = Pos(c, i + 1)
      BY <3>4, <3>5, <3>6 DEF Pos
    <3>8. Linked(c)'
      <4>1. ASSUME NEW i \in 1..(Len(q) - 1)
            PROVE  /\ chan'[c][i] = q[i + 1] /\ i + 1 \in 1..Len(q)
                   /\ Pos(c, i - 1)' = Pos(c, i)
        BY <3>5, <3>6, <3>7
      <4> QED BY <3>5, <3>6, <4>1 DEF FeedInv, Linked
    <3>9. Pos(c, Len(chan[c]))' = Pos(c, Len(q))
      BY <3>1, <3>5, <3>6, <3>7
    <3>10. \A d \in Conns : d # c => Linked(d)' /\ Pos(d, Len(chan[d]))' = Pos(d, Len(chan[d]))
      BY <3>4, <3>5, SameLinked DEF FeedInv
    <3>11. q[1].to \in 0..out
      BY <3>1, <3>2 DEF Frame
    <3> QED BY <3>4, <3>5, <3>8, <3>9, <3>10, <3>11 DEF FeedInv
  <2>4. CASE Disconnect(c)
    <3>1. Linked(c)'
      BY <2>4 DEF Disconnect, Linked
    <3>2. \A d \in Conns : d # c => Linked(d)' /\ Pos(d, Len(chan[d]))' = Pos(d, Len(chan[d]))
      BY <2>4, SameLinked DEF FeedInv, Disconnect
    <3> QED BY <2>4, <3>1, <3>2 DEF FeedInv, Disconnect
  <2>5. ASSUME NEW offset \in 0..MaxOut, Ack(c, offset) PROVE FeedInv'
    BY <2>5, <1>f DEF Ack
  <2> QED BY <1>7, <2>1, <2>2, <2>3, <2>4, <2>5 DEF Client
<1>8. CASE UNCHANGED vars
  BY <1>8, <1>f DEF vars
<1> QED
  BY <1>1, <1>2, <1>3, <1>4, <1>5, <1>6, <1>7, <1>8 DEF Next, Reader, Gc, Threads

-----------------------------------------------------------------------------
LEMMA InitInv == Init => StreamInv
<1> SUFFICES ASSUME Init PROVE StreamInv
  OBVIOUS
<1> USE StreamAssumption DEF Init
<1>1. TypeOK
  <2>1. chan \in [Conns -> Seq(Frame)]
    BY DEF Frame
  <2>2. pc \in [Threads -> Labels]
    BY DEF Threads, Labels
  <2>3. kbuf \in 0..KernelBuf /\ hold \in 0..Chunk
    OBVIOUS
  <2>4. open \in [Conns -> BOOLEAN] /\ held \in [Conns -> BOOLEAN] /\ screen \in [Conns -> Nat \cup {Garbled}]
    OBVIOUS
  <2>5. /\ ttyOpen \in BOOLEAN /\ proc \in {"running", "exited"} /\ childLock \in Threads \cup {"none"}
        /\ out \in Nat
        /\ viewer \in Conns \cup {NoConn}
        /\ paused \in BOOLEAN /\ dead \in BOOLEAN /\ finalized \in BOOLEAN
        /\ kill \in {"none", "armed", "due", "sigkill"} /\ inMap \in BOOLEAN
    OBVIOUS
  <2>6. sent \in 0..out /\ acked \in 0..out
    OBVIOUS
  <2> HIDE DEF Init
  <2> QED BY <2>1, <2>2, <2>3, <2>4, <2>5, <2>6 DEF TypeOK
<1>2. FlowInv
  BY DEF FlowInv, ViewerCurrent
<1>3. FeedInv
  <2>1. ASSUME NEW c \in Conns
        PROVE  screen[c] \in 0..out /\ 1..Len(chan[c]) = {} /\ viewer # c
    OBVIOUS
  <2> HIDE DEF Init
  <2> QED BY <2>1 DEF FeedInv, Linked
<1>4. ReapSound
  BY DEF ReapSound, Finalizing, Threads
<1> QED BY <1>1, <1>2, <1>3, <1>4 DEF StreamInv

(* The inductive invariant holds in every reachable state.                 *)
THEOREM StreamInvariant == Spec => []StreamInv
<1>1. StreamInv /\ [Next]_vars => StreamInv'
  BY TypeStep, FlowStep, FeedStep, ReapStep DEF StreamInv
<1> QED BY <1>1, InitInv, PTL DEF Spec

(* Every counter, flag and frame of a session keeps its range, whatever    *)
(* its threads and clients do: no acknowledgement lifts `acked` past       *)
(* `sent`, and `sent` never passes `out` (session.rs, attach and ack).     *)
THEOREM TypeSafety == Spec => []TypeOK
<1>1. StreamInv => TypeOK
  BY DEF StreamInv
<1> QED BY <1>1, StreamInvariant, PTL

(* The daemon never declares dead, or forgets, a process it did not wait   *)
(* for, and runs the exit path once.                                       *)
THEOREM ReapSafety == Spec => []ReapSound
<1>1. StreamInv => ReapSound
  BY DEF StreamInv
<1> QED BY <1>1, StreamInvariant, PTL

(* A reader parked on backpressure is always owed acknowledgements by an   *)
(* attached client.                                                        *)
THEOREM ParkedSafety == Spec => []ParkedIsOwed
<1>1. StreamInv => ParkedIsOwed
  BY DEF StreamInv, FlowInv, ParkedIsOwed
<1> QED BY <1>1, StreamInvariant, PTL

(* Every terminal shows an exact prefix of the output.                     *)
THEOREM ScreenSafety == Spec => []ScreenExact
<1>1. StreamInv => ScreenExact
  BY DEF StreamInv, FeedInv, ScreenExact
<1> QED BY <1>1, StreamInvariant, PTL

(* Whatever the threads do, a terminal only moves forward, from one prefix *)
(* of the output to a longer one: the session implements TerminalFeed.     *)
THEOREM Refinement == Spec => FeedSpec
<1>1. Init => Feed!Init
  BY DEF Init, Feed!Init
<1>2. StreamInv /\ [Next]_vars => [Feed!Next]_(Feed!vars)
  <2> SUFFICES ASSUME StreamInv, [Next]_vars PROVE [Feed!Next]_(Feed!vars)
    OBVIOUS
  <2>t. /\ FeedInv /\ out \in Nat /\ hold \in Nat /\ chan \in [Conns -> Seq(Frame)]
        /\ screen \in [Conns -> Int]
    BY StreamAssumption DEF StreamInv, TypeOK, Garbled
  <2>1. CASE ReaderPublish
    <3>1. out' = out + hold /\ screen' = screen
      BY <2>1 DEF ReaderPublish
    <3> QED BY <2>t, <3>1 DEF Feed!Next, Feed!Produce, Feed!vars
  <2>2. ASSUME NEW c \in Conns, Receive(c) PROVE Feed!Next
    <3> PICK q \in Seq(Frame) : q = chan[c]
      BY <2>t
    <3>1. q # <<>> /\ Len(q) >= 1 /\ q[1] \in Frame /\ Head(q) = q[1]
      BY <2>2 DEF Receive
    <3>2. /\ screen[c] <= q[1].from /\ q[1].from <= q[1].to /\ q[1].to <= out
          /\ q[1].kind # "repaint" => q[1].from = screen[c]
          /\ q[1].kind # "data" => q[1].from = q[1].to
      BY <2>t, <3>1 DEF FeedInv, Linked, Pos
    <3>3. Shown(screen[c], q[1]) = q[1].to
      BY <3>1, <3>2 DEF Shown, Frame
    <3>4. screen' = [screen EXCEPT ![c] = q[1].to] /\ out' = out
      BY <2>2, <3>1, <3>3 DEF Receive
    <3>5. q[1].to \in screen[c]..out
      BY <2>t, <3>1, <3>2 DEF Frame, FeedInv
    <3> QED BY <3>4, <3>5 DEF Feed!Next, Feed!Show
  <2>3. CASE UNCHANGED <<out, screen>>
    BY <2>3 DEF Feed!vars
  <2>4. ReaderPublish \/ (\E c \in Conns : Receive(c)) \/ UNCHANGED <<out, screen>>
    BY DEF Next, vars, Agent, AgentWrite, LeaderExit, CloseTty, Reader, ReaderTop, ReaderWake,
       ReaderRead, ReaderEof, ReaderDone, Finalize, FinalizeSwap, FinalizeLockChild,
       FinalizeReaped, FinalizeAnnounce, Gc, GcSweep, GcTryWait, GcNotify, GcEscalate,
       GraceExpires, Kill, Client, Attach, Detach, Ack, Disconnect
  <2> QED BY <2>1, <2>2, <2>3, <2>4
<1> QED BY <1>1, <1>2, StreamInvariant, PTL DEF Spec, FeedSpec, Feed!Spec
HIDE DEF osVars, endVars, flowVars, connVars, Goto, Notified

-----------------------------------------------------------------------------
(* AttachClient.                                                           *)

USE DEF views, closes, gens, app, wires, daemon, session, taken, None

\* The steps of a view v.
Of(v) ==
  \/ Mount(v) \/ Unmount(v) \/ CloseFrame(v) \/ GiveUp(v) \/ Cut(v) \/ Learn(v)
  \/ LandClose(v) \/ LandBare(v) \/ Mint(v) \/ NeverAsks(v) \/ Ask(v) \/ Reply(v) \/ LastLook(v)
  \/ PumpSends(v) \/ PumpClosed(v) \/ PumpReads(v) \/ PumpCut(v)
  \/ ReadAttach(v) \/ ReadDetach(v) \/ ConnEnds(v)

LEMMA StepCases ==
  ASSUME [AttachNext]_attachVars
  PROVE  (\E v \in Views : Of(v)) \/ KillSession \/ Exits \/ Swept \/ UNCHANGED attachVars
BY DEF AttachNext, Of, Steps, Attaching, Pump, Conn

-----------------------------------------------------------------------------
(* Types, by what the variables are about.                                 *)

AppTypes ==
  /\ handle \in Views \cup {None} /\ queue \in [Views -> Seq({"detach"})] /\ silent \subseteq Views
  /\ told \in [Views -> SUBSET {"exit", "disconnected"}]

WireTypes ==
  /\ wire \in [Views -> Seq({"attach", "detach"})] /\ back \in [Views -> Seq({"ok", "error", "exited"})]
  /\ link \in [Views -> {"none", "up", "dropped", "down"}]

OtherTypes ==
  /\ view \in [Views -> {"new", "mounted", "gone"}] /\ known \subseteq Views
  /\ closing \subseteq Views /\ bare \subseteq Views
  /\ lastGen \in Nat /\ gen \in [Views -> Nat] /\ at \in [Views -> Points]
  /\ conn \subseteq Views /\ attached \in Views \cup {None}
  /\ alive \in BOOLEAN /\ listed \in BOOLEAN /\ killed \in BOOLEAN /\ cuts \in 0 .. MaxCuts
  /\ overtaken \subseteq Views /\ robbed \subseteq Views

LEMMA TypeParts == AttachTypeOK <=> AppTypes /\ WireTypes /\ OtherTypes
BY DEF AttachTypeOK, AppTypes, WireTypes, OtherTypes

LEMMA PutWire ==
  ASSUME WireTypes, NEW v \in Views, NEW m \in {"attach", "detach"}
  PROVE  Put(wire, v, m) \in [Views -> Seq({"attach", "detach"})]
BY DEF WireTypes, Put

LEMMA PutBack ==
  ASSUME WireTypes, NEW v \in Views, NEW m \in {"ok", "error", "exited"}
  PROVE  Put(back, v, m) \in [Views -> Seq({"ok", "error", "exited"})]
BY DEF WireTypes, Put

LEMMA TakeWire ==
  ASSUME WireTypes, NEW v \in Views, wire[v] # <<>>
  PROVE  [wire EXCEPT ![v] = Tail(@)] \in [Views -> Seq({"attach", "detach"})]
BY DEF WireTypes

LEMMA TakeBack ==
  ASSUME WireTypes, NEW v \in Views, back[v] # <<>>
  PROVE  [back EXCEPT ![v] = Tail(@)] \in [Views -> Seq({"ok", "error", "exited"})]
BY DEF WireTypes

LEMMA AppStep == AppTypes /\ [AttachNext]_attachVars => AppTypes'
<1> SUFFICES ASSUME AppTypes, [AttachNext]_attachVars PROVE AppTypes'
  OBVIOUS
<1> USE DEF AppTypes
<1>1. ASSUME TakeOut
      PROVE  handle' \in Views \cup {None} /\ queue' \in [Views -> Seq({"detach"})]
  BY <1>1 DEF TakeOut, Put
<1>2. ASSUME NEW v \in Views, LandClose(v) \/ LandBare(v) PROVE AppTypes'
  BY <1>1, <1>2 DEF LandClose, LandBare
<1>3. ASSUME NEW v \in Views, PumpSends(v) PROVE AppTypes'
  <2>1. queue' \in [Views -> Seq({"detach"})] /\ silent' \subseteq Views /\ handle' = handle
    BY <1>3 DEF PumpSends
  <2>2. \/ told' = told
        \/ \E news \in SUBSET {"exit", "disconnected"} : told' = [told EXCEPT ![v] = @ \cup news]
    BY <1>3 DEF PumpSends, Notice
  <2>3. told' \in [Views -> SUBSET {"exit", "disconnected"}]
    BY <2>2
  <2> QED BY <2>1, <2>3
<1>4. ASSUME NEW v \in Views, PumpClosed(v) \/ PumpReads(v) \/ PumpCut(v) PROVE AppTypes'
  <2>1. told' \in [Views -> SUBSET {"exit", "disconnected"}]
    BY <1>4 DEF PumpClosed, PumpReads, PumpCut, Notice
  <2>2. UNCHANGED <<handle, queue, silent>>
    BY <1>4 DEF PumpClosed, PumpReads, PumpCut
  <2> QED BY <2>1, <2>2
<1>5. ASSUME NEW v \in Views, LastLook(v) PROVE AppTypes'
  BY <1>5 DEF LastLook
<1>6. ASSUME NEW v \in Views,
             Mount(v) \/ Unmount(v) \/ CloseFrame(v) \/ Learn(v) \/ Mint(v) \/ NeverAsks(v)
               \/ GiveUp(v) \/ Cut(v) \/ Ask(v) \/ Reply(v) \/ ReadAttach(v) \/ ReadDetach(v) \/ ConnEnds(v)
      PROVE AppTypes'
  BY <1>6 DEF Mount, Unmount, CloseFrame, Learn, Mint, NeverAsks, GiveUp, Cut, Ask, Reply, ReadAttach, ReadDetach, ConnEnds
<1>7. CASE KillSession \/ Exits \/ Swept \/ UNCHANGED attachVars
  BY <1>7 DEF KillSession, Exits, Swept, attachVars
<1> QED BY <1>2, <1>3, <1>4, <1>5, <1>6, <1>7, StepCases DEF Of

LEMMA WireStep == AppTypes /\ WireTypes /\ OtherTypes /\ [AttachNext]_attachVars => WireTypes'
<1> SUFFICES ASSUME AppTypes, WireTypes, OtherTypes, [AttachNext]_attachVars PROVE WireTypes'
  OBVIOUS
<1> USE DEF WireTypes
<1>1. ASSUME NEW v \in Views, GiveUp(v) \/ Cut(v) \/ PumpClosed(v) \/ PumpCut(v) \/ ConnEnds(v)
      PROVE WireTypes'
  <2>1. /\ wire' = wire \/ wire' = [wire EXCEPT ![v] = <<>>]
        /\ back' = back
    BY <1>1 DEF GiveUp, Cut, PumpClosed, PumpCut, ConnEnds
  <2>2. link' \in [Views -> {"none", "up", "dropped", "down"}]
    BY <1>1 DEF GiveUp, Cut, PumpClosed, PumpCut, ConnEnds, Notice, Drop
  <2>3. wire' \in [Views -> Seq({"attach", "detach"})]
    <3>1. <<>> \in Seq({"attach", "detach"})
      OBVIOUS
    <3>2. CASE wire' = wire
      BY <3>2
    <3>3. CASE wire' = [wire EXCEPT ![v] = <<>>]
      <4> DEFINE S == Seq({"attach", "detach"})
      <4>1. <<>> \in S /\ wire \in [Views -> S]
        BY <3>1
      <4> HIDE DEF S
      <4>2. wire' \in [Views -> S]
        BY <3>3, <4>1
      <4> QED BY <4>2 DEF S
    <3> QED BY <2>1, <3>2, <3>3
  <2> QED BY <2>1, <2>2, <2>3
<1>2. ASSUME NEW v \in Views, Ask(v) \/ LastLook(v) PROVE WireTypes'
  <2>1. wire' \in [Views -> Seq({"attach", "detach"})] /\ back' = back
    BY <1>2, PutWire DEF Ask, LastLook
  <2>2. link' \in [Views -> {"none", "up", "dropped", "down"}]
    BY <1>2 DEF Ask, LastLook, Drop
  <2> QED BY <2>1, <2>2
<1>3. ASSUME NEW v \in Views, PumpSends(v) PROVE WireTypes'
  <2>1. Head(queue[v]) = "detach"
    BY <1>3 DEF AppTypes, PumpSends
  <2>2. wire' \in [Views -> Seq({"attach", "detach"})]
    BY <1>3, <2>1, PutWire DEF PumpSends
  <2>3. link' \in [Views -> {"none", "up", "dropped", "down"}] /\ back' = back
    BY <1>3 DEF PumpSends, Notice, Drop
  <2> QED BY <2>2, <2>3
<1>4. ASSUME NEW v \in Views, Reply(v) \/ PumpReads(v) PROVE WireTypes'
  <2>1. /\ wire' = wire
        /\ back' = back \/ (back[v] # <<>> /\ back' = [back EXCEPT ![v] = Tail(@)])
    BY <1>4 DEF Reply, PumpReads
  <2>2. back' \in [Views -> Seq({"ok", "error", "exited"})]
    BY <2>1, TakeBack
  <2>3. link' \in [Views -> {"none", "up", "dropped", "down"}]
    BY <1>4 DEF Reply, PumpReads, Notice, Drop
  <2> QED BY <2>1, <2>2, <2>3
<1>5. ASSUME NEW v \in Views, ReadAttach(v) \/ ReadDetach(v) PROVE WireTypes'
  <2>1. wire' \in [Views -> Seq({"attach", "detach"})] /\ link' = link
    BY <1>5, TakeWire DEF ReadAttach, ReadDetach
  <2>2. back' \in [Views -> Seq({"ok", "error", "exited"})]
    BY <1>5, PutBack DEF ReadAttach, ReadDetach
  <2> QED BY <2>1, <2>2
<1>6. ASSUME NEW v \in Views,
             Mount(v) \/ Unmount(v) \/ CloseFrame(v) \/ Learn(v) \/ LandClose(v) \/ LandBare(v)
               \/ Mint(v) \/ NeverAsks(v)
      PROVE WireTypes'
  BY <1>6 DEF Mount, Unmount, CloseFrame, Learn, LandClose, LandBare, Mint, NeverAsks
<1>7. CASE Exits
  <2>1. attached \in Views \cup {None}
    BY DEF OtherTypes
  <2>2. back' \in [Views -> Seq({"ok", "error", "exited"})]
    BY <1>7, <2>1, PutBack DEF Exits
  <2> QED BY <1>7, <2>2 DEF Exits
<1>8. CASE KillSession \/ Swept \/ UNCHANGED attachVars
  BY <1>8 DEF KillSession, Swept, attachVars
<1> QED BY <1>1, <1>2, <1>3, <1>4, <1>5, <1>6, <1>7, <1>8, StepCases DEF Of

LEMMA OtherStep == OtherTypes /\ [AttachNext]_attachVars => OtherTypes'
<1> SUFFICES ASSUME OtherTypes, [AttachNext]_attachVars PROVE OtherTypes'
  OBVIOUS
<1> USE DEF OtherTypes, Points
<1>1. ASSUME NEW v \in Views, Mount(v) \/ Unmount(v) \/ CloseFrame(v) \/ Learn(v) PROVE OtherTypes'
  <2>1. at' \in [Views -> Points] /\ closing' \subseteq Views /\ bare' \subseteq Views
    BY <1>1 DEF Mount, Unmount, CloseFrame, Learn, Go
  <2>2. view' \in [Views -> {"new", "mounted", "gone"}] /\ known' \subseteq Views
    BY <1>1 DEF Mount, Unmount, CloseFrame, Learn
  <2>3. UNCHANGED <<gens, daemon, session, taken>>
    BY <1>1 DEF Mount, Unmount, CloseFrame, Learn
  <2> QED BY <2>1, <2>2, <2>3
<1>2. ASSUME NEW v \in Views, GiveUp(v) \/ Cut(v) PROVE OtherTypes'
  BY <1>2, AttachAssumption DEF GiveUp, Cut, Go, LetGo
<1>3. ASSUME NEW v \in Views,
             Ask(v) \/ Reply(v) \/ LastLook(v) \/ PumpSends(v) \/ PumpClosed(v) \/ PumpReads(v)
               \/ PumpCut(v)
      PROVE OtherTypes'
  <2>1. at' \in [Views -> Points]
    BY <1>3 DEF Ask, Reply, LastLook, PumpSends, PumpClosed, PumpReads, PumpCut, Notice, Go
  <2>2. UNCHANGED <<views, closes, gens, daemon, session, taken>>
    BY <1>3 DEF Ask, Reply, LastLook, PumpSends, PumpClosed, PumpReads, PumpCut
  <2> QED BY <2>1, <2>2
<1>4. ASSUME NEW v \in Views, ReadAttach(v) \/ ReadDetach(v) \/ ConnEnds(v) PROVE OtherTypes'
  BY <1>4 DEF ReadAttach, ReadDetach, ConnEnds, LetGo
<1>5. CASE KillSession \/ Exits \/ Swept \/ UNCHANGED attachVars
  BY <1>5 DEF KillSession, Exits, Swept, attachVars
<1>6. ASSUME NEW v \in Views, LandClose(v) \/ LandBare(v) \/ Mint(v) \/ NeverAsks(v) PROVE OtherTypes'
  BY <1>6 DEF LandClose, LandBare, Mint, NeverAsks, Go
<1> QED BY <1>1, <1>2, <1>3, <1>4, <1>5, <1>6, StepCases DEF Of

LEMMA AttachTypeStep == AttachTypeOK /\ [AttachNext]_attachVars => AttachTypeOK'
<1>1. AttachTypeOK' <=> AppTypes' /\ WireTypes' /\ OtherTypes'
  BY DEF AttachTypeOK, AppTypes, WireTypes, OtherTypes
<1> QED BY <1>1, TypeParts, AppStep, WireStep, OtherStep

-----------------------------------------------------------------------------
(* The view on the screen is the newest.                                   *)

\* A step after its mount takes an attach no way back.
LEMMA PcMoves ==
  ASSUME AttachTypeOK, NEW v \in Views, Of(v), ~Mount(v)
  PROVE  \/ at' = at
         \/ at[v] # "off" /\ \E to \in Points \ {"off"} : at' = [at EXCEPT ![v] = to]
BY DEF Of, Unmount, CloseFrame, GiveUp, Cut, Learn, LandClose, LandBare, Mint, NeverAsks, Ask, Reply, LastLook, PumpSends, PumpClosed,
       PumpReads, PumpCut, ReadAttach, ReadDetach, ConnEnds, Notice, Go, Points

LEMMA NewestStep == AttachTypeOK /\ NewestInv /\ [AttachNext]_attachVars => NewestInv'
<1> SUFFICES ASSUME AttachTypeOK, NewestInv, [AttachNext]_attachVars PROVE NewestInv'
  OBVIOUS
<1>t. /\ Views \subseteq Nat /\ lastGen \in Nat /\ at \in [Views -> Points]
      /\ view \in [Views -> {"new", "mounted", "gone"}] /\ gen \in [Views -> Nat] /\ closing \subseteq Views /\ bare \subseteq Views
  BY AttachAssumption DEF AttachTypeOK, Views
<1>1. ASSUME NEW v \in Views, Mount(v) PROVE NewestInv'
  <2>1. /\ view[v] = "new" /\ \A w \in Views : ~Mounted(w) /\ (w < v => view[w] # "new")
        /\ view' = [view EXCEPT ![v] = "mounted"] /\ at' = [at EXCEPT ![v] = "mount"]
        /\ UNCHANGED <<closing, bare, lastGen, gen>>
    BY <1>1 DEF Mount, Go
  <2> SUFFICES ASSUME NEW w \in Views
               PROVE  /\ view'[w] \in {"new", "mounted"} => \A u \in Views : u > w => view'[u] = "new"
                      /\ at'[w] = "off" <=> view'[w] = "new"
                      /\ w \in closing \cup bare => view'[w] = "gone"
    BY <2>1 DEF NewestInv
  <2>2. view'[w] \in {"new", "mounted"} => view[w] = "new"
    BY <1>t, <2>1 DEF Mounted
  <2>3. ASSUME view'[w] \in {"new", "mounted"}, NEW u \in Views, u > w PROVE view'[u] = "new"
    <3>1. view[w] = "new" /\ view[u] = "new"
      BY <2>2, <2>3 DEF NewestInv
    <3>2. u # v
      BY <1>t, <2>1, <2>3, <3>1
    <3> QED BY <1>t, <2>1, <3>1, <3>2
  <2> QED BY <1>t, <2>1, <2>3 DEF NewestInv
<1>2. ASSUME NEW v \in Views, Unmount(v) \/ CloseFrame(v) PROVE NewestInv'
  <2>1. /\ view' = [view EXCEPT ![v] = "gone"] /\ view[v] = "mounted" /\ UNCHANGED <<at, lastGen, gen>>
        /\ closing' \subseteq closing \cup {v} /\ bare' \subseteq bare \cup {v}
    BY <1>2 DEF Unmount, CloseFrame, Mounted
  <2> QED BY <1>t, <2>1 DEF NewestInv, Mounted
<1>3. ASSUME NEW v \in Views, Of(v), ~Mount(v), view' = view,
             bare' \subseteq bare, \A w \in closing' : w \in closing \/ view[w] = "gone"
      PROVE NewestInv'
  <2>1. \/ gen' = gen /\ lastGen' = lastGen
        \/ lastGen' = lastGen + 1 /\ gen' = [gen EXCEPT ![v] = lastGen + 1]
    BY <1>3 DEF Of, Unmount, CloseFrame, GiveUp, Cut, Learn, LandClose, LandBare, Mint, NeverAsks, Ask, Reply,
            LastLook, PumpSends, PumpClosed, PumpReads, PumpCut, ReadAttach, ReadDetach, ConnEnds
  <2>2. \A w \in Views : gen'[w] <= lastGen'
    BY <1>t, <2>1 DEF NewestInv
  <2>3. \A w \in Views : at'[w] = "off" <=> at[w] = "off"
    BY <1>3, <1>t, PcMoves
  <2> QED BY <1>3, <1>t, <2>2, <2>3 DEF NewestInv, Mounted
<1>4. ASSUME NEW v \in Views, Of(v), ~Mount(v), ~Unmount(v), ~CloseFrame(v)
      PROVE  view' = view /\ bare' \subseteq bare /\ \A w \in closing' : w \in closing \/ view[w] = "gone"
  <2>1. CASE Learn(v)
    <3>1. at[v] # "off" /\ view' = view /\ bare' = bare /\ closing' = IF Mounted(v) THEN closing ELSE closing \cup {v}
      BY <2>1 DEF Learn
    <3>2. view[v] # "new"
      BY <3>1 DEF NewestInv
    <3> QED BY <1>t, <3>1, <3>2 DEF Mounted
  <2>2. CASE ~Learn(v)
    BY <1>4, <2>2 DEF Of, GiveUp, Cut, LandClose, LandBare, Mint, NeverAsks, Ask, Reply, LastLook, PumpSends,
            PumpClosed, PumpReads, PumpCut, ReadAttach, ReadDetach, ConnEnds
  <2> QED BY <2>1, <2>2
<1>5. CASE KillSession \/ Exits \/ Swept \/ UNCHANGED attachVars
  BY <1>5 DEF NewestInv, Mounted, KillSession, Exits, Swept, attachVars
<1> QED BY <1>1, <1>2, <1>3, <1>4, <1>5, StepCases

-----------------------------------------------------------------------------
(* A handle is of an attach that came through, and has not been closed.    *)

\* What the steps of a view and of its closes do to the handle and the queues.
LEMMA CloseEffect ==
  ASSUME NEW v \in Views, AttachTypeOK,
         Unmount(v) \/ CloseFrame(v) \/ Learn(v) \/ LandClose(v) \/ LandBare(v)
  PROVE  /\ \/ handle' = handle /\ queue' = queue
            \/ handle' = None /\ \A w \in Views : w # handle => queue'[w] = queue[w]
         /\ UNCHANGED <<at, gens, wires, daemon, session, overtaken>>
         /\ \A w \in Views : Mounted(w)' => Mounted(w)
<1>1. ASSUME TakeOut
      PROVE  handle' = None /\ \A w \in Views : w # handle => queue'[w] = queue[w]
  BY <1>1 DEF TakeOut, Put, AttachTypeOK
<1>2. view' = view \/ view' = [view EXCEPT ![v] = "gone"]
  BY DEF Unmount, CloseFrame, Learn, LandClose, LandBare
<1>3. \A w \in Views : Mounted(w)' => Mounted(w)
  BY <1>2 DEF Mounted, AttachTypeOK
<1>4. CASE Unmount(v) \/ CloseFrame(v) \/ Learn(v)
  BY <1>3, <1>4 DEF Unmount, CloseFrame, Learn
<1>5. CASE LandClose(v) \/ LandBare(v)
  BY <1>1, <1>3, <1>5 DEF LandClose, LandBare
<1> QED BY <1>4, <1>5

LEMMA OnlyAttach ==
  /\ <<>> \in Seq({"attach"})
  /\ \A s \in Seq({"attach"}) : Append(s, "attach") \in Seq({"attach"})
OBVIOUS

LEMMA HandleStep == AttachTypeOK /\ NewestInv /\ HandleInv /\ [AttachNext]_attachVars => HandleInv'
<1> SUFFICES ASSUME AttachTypeOK, NewestInv, HandleInv, [AttachNext]_attachVars PROVE HandleInv'
  OBVIOUS
<1> DEFINE Early == {"off", "mount", "connect", "await", "look"}
           Kept(w) == queue[w] = <<>> /\ wire[w] \in Seq({"attach"})
<1>t. /\ at \in [Views -> Points] /\ 0 \notin Views
      /\ wire \in [Views -> Seq({"attach", "detach"})] /\ queue \in [Views -> Seq({"detach"})]
  BY AttachAssumption DEF AttachTypeOK, Views
<1>s. ASSUME NEW w \in Views
      PROVE  (handle = w => at[w] \in {"open", "ended"}) /\ (at[w] \in Early \/ handle = w => Kept(w))
  BY DEF HandleInv
<1>1. ASSUME NEW v \in Views,
             Mount(v) \/ Mint(v) \/ NeverAsks(v) \/ Ask(v) \/ Reply(v) \/ GiveUp(v) \/ Cut(v) \/ ConnEnds(v)
      PROVE HandleInv'
  <2> SUFFICES ASSUME NEW w \in Views
               PROVE  /\ handle' = w => at'[w] \in {"open", "ended"}
                      /\ at'[w] \in Early \/ handle' = w => Kept(w)'
    BY DEF HandleInv
  <2>1. /\ handle' = handle /\ queue' = queue
        /\ \/ at' = at
           \/ at[v] \in Early /\ \E to \in Early \cup {"failed"} : at' = [at EXCEPT ![v] = to]
    <3>1. CASE Mount(v)
      <4>1. at[v] = "off"
        BY <3>1 DEF Mount, NewestInv
      <4> QED BY <3>1, <4>1 DEF Mount, Go
    <3>2. CASE ~Mount(v)
      BY <1>1, <3>2 DEF Mint, NeverAsks, Ask, Reply, GiveUp, Cut, ConnEnds, Go
    <3> QED BY <3>1, <3>2
  <2>2. \/ wire' = wire
        \/ wire' = [wire EXCEPT ![v] = Append(@, "attach")]
        \/ wire' = [wire EXCEPT ![v] = <<>>]
    BY <1>1 DEF Mount, Mint, NeverAsks, Ask, Reply, GiveUp, Cut, ConnEnds, Put
  <2>3. wire[w] \in Seq({"attach"}) => wire'[w] \in Seq({"attach"})
    <3>1. wire'[w] \in {wire[w], Append(wire[w], "attach"), <<>>}
      BY <1>t, <2>2
    <3> QED BY <3>1, OnlyAttach
  <2>4. at'[w] \in Early => at[w] \in Early
    BY <1>t, <2>1
  <2>5. at[w] \in {"open", "ended"} => at'[w] \in {"open", "ended"}
    BY <1>t, <2>1
  <2> QED BY <1>s, <2>1, <2>3, <2>4, <2>5
<1>2. ASSUME NEW v \in Views, Unmount(v) \/ CloseFrame(v) \/ Learn(v) \/ LandClose(v) \/ LandBare(v) PROVE HandleInv'
  BY <1>2, <1>s, <1>t, CloseEffect DEF HandleInv
<1>3. ASSUME NEW v \in Views, LastLook(v) PROVE HandleInv'
  <2> SUFFICES ASSUME NEW w \in Views
               PROVE  /\ handle' = w => at'[w] \in {"open", "ended"}
                      /\ at'[w] \in Early \/ handle' = w => Kept(w)'
    BY DEF HandleInv
  <2>1. at[v] = "look" /\ queue' = queue
    BY <1>3 DEF LastLook
  <2>2. CASE w # v
    <3>1. at'[w] = at[w] /\ wire'[w] = wire[w] /\ (handle' = w => handle = w)
      BY <1>3, <1>t, <2>2 DEF LastLook, Go, Put
    <3> QED BY <1>s, <2>1, <3>1
  <2>3. CASE w = v
    <3>1. CASE Superseded(v)
      BY <1>3, <1>s, <1>t, <2>1, <2>3, <3>1 DEF LastLook, Go
    <3>2. CASE ~Superseded(v)
      BY <1>3, <1>s, <1>t, <2>1, <2>3, <3>2 DEF LastLook, Go
    <3> QED BY <3>1, <3>2
  <2> QED BY <2>2, <2>3
<1>4. ASSUME NEW v \in Views, PumpSends(v) \/ PumpClosed(v) \/ PumpReads(v) \/ PumpCut(v) PROVE HandleInv'
  <2> SUFFICES ASSUME NEW w \in Views
               PROVE  /\ handle' = w => at'[w] \in {"open", "ended"}
                      /\ at'[w] \in Early \/ handle' = w => Kept(w)'
    BY DEF HandleInv
  <2>1. /\ handle' = handle /\ at[v] = "open"
        /\ at' = at \/ at' = [at EXCEPT ![v] = "ended"]
    BY <1>4 DEF PumpSends, PumpClosed, PumpReads, PumpCut, Notice, Go
  <2>2. CASE w # v
    <3>1. wire'[w] = wire[w] /\ queue'[w] = queue[w]
      BY <1>4, <1>t, <2>2 DEF PumpSends, PumpClosed, PumpReads, PumpCut, Put
    <3> QED BY <1>s, <1>t, <2>1, <2>2, <3>1
  <2>3. CASE w = v
    <3>1. at'[v] \in {"open", "ended"}
      BY <1>t, <2>1
    <3>2. handle = v => wire' = wire /\ queue' = queue
      BY <1>4, <1>s DEF PumpSends, PumpClosed, PumpReads, PumpCut
    <3> QED BY <1>s, <2>1, <2>3, <3>1, <3>2
  <2> QED BY <2>2, <2>3
<1>5. ASSUME NEW v \in Views, ReadAttach(v) \/ ReadDetach(v) PROVE HandleInv'
  <2>1. /\ UNCHANGED <<handle, queue, at>>
        /\ wire[v] # <<>> /\ wire' = [wire EXCEPT ![v] = Tail(@)]
    BY <1>5 DEF ReadAttach, ReadDetach
  <2>2. \A w \in Views : wire[w] \in Seq({"attach"}) => wire'[w] \in Seq({"attach"})
    BY <1>t, <2>1
  <2> QED BY <1>s, <2>1, <2>2 DEF HandleInv
<1>6. CASE KillSession \/ Exits \/ Swept \/ UNCHANGED attachVars
  BY <1>6, <1>t DEF HandleInv, KillSession, Exits, Swept, attachVars
<1> QED BY <1>1, <1>2, <1>3, <1>4, <1>5, <1>6, StepCases DEF Of

-----------------------------------------------------------------------------
(* What the daemon has of each attach.                                     *)

\* ConnInv of one view.
ConnOf(v) ==
  /\ at[v] \in {"off", "mount", "connect"} => wire[v] = <<>> /\ back[v] = <<>> /\ v \notin conn
  /\ at[v] = "await" /\ link[v] = "up" /\ v \notin conn => back[v] \in Seq({"error", "exited"})
  /\ at[v] = "look" /\ link[v] = "up" => v \in conn
  /\ at[v] = "open" /\ handle = v /\ link[v] = "up" => v \in conn
  /\ v \in conn /\ Mounted(v) /\ v \notin overtaken => attached = v

LEMMA ConnParts == ConnInv <=> \A v \in Views : ConnOf(v)
BY DEF ConnInv, ConnOf

\* A step that takes nothing from a view and adds nothing to it.
LEMMA ConnFrame ==
  ASSUME NEW w \in Views, ConnOf(w),
         at'[w] = at[w], wire'[w] = wire[w], back'[w] = back[w],
         link'[w] = "up" => link[w] = "up",
         w \in conn' <=> w \in conn,
         handle' = w => handle = w,
         Mounted(w)' => Mounted(w),
         w \in overtaken => w \in overtaken',
         attached = w => attached' = w \/ w \in overtaken'
  PROVE  ConnOf(w)'
BY DEF ConnOf

\* Views are never 0, and each box is a function on them.
LEMMA Boxes ==
  ASSUME AttachTypeOK
  PROVE  /\ Views \subseteq Nat /\ 0 \notin Views
         /\ lastGen \in Nat /\ gen \in [Views -> Nat] /\ at \in [Views -> Points]
         /\ wire \in [Views -> Seq({"attach", "detach"})]
         /\ back \in [Views -> Seq({"ok", "error", "exited"})]
         /\ link \in [Views -> {"none", "up", "dropped", "down"}]
         /\ view \in [Views -> {"new", "mounted", "gone"}]
BY AttachAssumption DEF AttachTypeOK, Views

\* The daemon lets a connection go: the others keep what they have.
LEMMA LetGoKeeps ==
  ASSUME NEW v \in Views, NEW w \in Views, w # v,
         conn' = conn \ {v}, IF v \in conn THEN LetGo(v) ELSE UNCHANGED attached
  PROVE  (w \in conn' <=> w \in conn) /\ (attached = w => attached' = w)
BY DEF LetGo

LEMMA ConnStep == AttachTypeOK /\ NewestInv /\ HandleInv /\ ConnInv /\ [AttachNext]_attachVars => ConnInv'
<1> SUFFICES ASSUME AttachTypeOK, NewestInv, HandleInv, ConnInv, [AttachNext]_attachVars,
                    NEW w \in Views
             PROVE  ConnOf(w)'
  BY ConnParts DEF ConnInv, ConnOf
<1>t. /\ Views \subseteq Nat /\ 0 \notin Views
      /\ lastGen \in Nat /\ at \in [Views -> Points]
      /\ wire \in [Views -> Seq({"attach", "detach"})]
      /\ back \in [Views -> Seq({"ok", "error", "exited"})]
      /\ link \in [Views -> {"none", "up", "dropped", "down"}]
      /\ view \in [Views -> {"new", "mounted", "gone"}]
  BY Boxes
<1>c. \A v \in Views : ConnOf(v)
  BY ConnParts
<1>1. ASSUME NEW v \in Views, Mount(v) PROVE ConnOf(w)'
  <2>1. /\ UNCHANGED <<app, wires, daemon, overtaken>>
        /\ at' = [at EXCEPT ![v] = "mount"] /\ view' = [view EXCEPT ![v] = "mounted"]
    BY <1>1 DEF Mount, Go
  <2>2. at[v] = "off"
    BY <1>1 DEF Mount, NewestInv
  <2>3. CASE w = v
    BY <1>c, <1>t, <2>1, <2>2, <2>3 DEF ConnOf
  <2>4. CASE w # v
    BY <1>c, <1>t, <2>1, <2>4, ConnFrame DEF Mounted
  <2> QED BY <2>3, <2>4
<1>2. ASSUME NEW v \in Views, Unmount(v) \/ CloseFrame(v) \/ Learn(v) \/ LandClose(v) \/ LandBare(v) PROVE ConnOf(w)'
  <2>1. /\ UNCHANGED <<at, wires, daemon, overtaken>>
        /\ Mounted(w)' => Mounted(w)
        /\ handle' = handle \/ handle' = None
    BY <1>2, CloseEffect
  <2> QED BY <1>c, <1>t, <2>1, ConnFrame
<1>3. ASSUME NEW v \in Views, Ask(v) PROVE ConnOf(w)'
  <2>1. UNCHANGED <<views, app, back, daemon, overtaken>> /\ at[v] = "connect"
    BY <1>3 DEF Ask
  <2>2. CASE w = v
    <3>1. back[v] = <<>> /\ v \notin conn
      BY <1>c, <2>1 DEF ConnOf
    <3>2. at'[v] \in {"failed", "await"}
      BY <1>3, <1>t DEF Ask, Go
    <3>3. back'[v] \in Seq({"error", "exited"})
      BY <2>1, <3>1
    <3> QED BY <2>1, <2>2, <3>1, <3>2, <3>3 DEF ConnOf
  <2>3. CASE w # v
    <3>1. at'[w] = at[w] /\ wire'[w] = wire[w] /\ link'[w] = link[w]
      BY <1>3, <1>t, <2>3 DEF Ask, Go, Put
    <3> QED BY <1>c, <2>1, <3>1, ConnFrame DEF Mounted
  <2> QED BY <2>2, <2>3
<1>4. ASSUME NEW v \in Views, Reply(v) PROVE ConnOf(w)'
  <2>1. UNCHANGED <<views, app, wire, daemon, overtaken>> /\ at[v] = "await"
    BY <1>4 DEF Reply
  <2>2. CASE w = v
    <3>1. \/ at'[v] = "failed"
          \/ at'[v] = "look" /\ link' = link /\ back[v] # <<>> /\ Head(back[v]) = "ok"
      BY <1>4, <1>t DEF Reply, Go
    <3>2. ASSUME link[v] = "up", v \notin conn, back[v] # <<>> PROVE Head(back[v]) # "ok"
      <4>1. back[v] \in Seq({"error", "exited"})
        BY <1>c, <2>1, <3>2 DEF ConnOf
      <4>2. Head(back[v]) \in {"error", "exited"}
        BY <3>2, <4>1
      <4> QED BY <4>2
    <3>3. v \in conn /\ Mounted(v) /\ v \notin overtaken => attached = v
      BY <1>c DEF ConnOf
    <3> QED BY <2>1, <2>2, <3>1, <3>2, <3>3 DEF ConnOf, Mounted
  <2>3. CASE w # v
    <3>1. at'[w] = at[w] /\ back'[w] = back[w] /\ link'[w] = link[w]
      BY <1>4, <1>t, <2>3 DEF Reply, Go, Drop
    <3> QED BY <1>c, <2>1, <3>1, ConnFrame DEF Mounted
  <2> QED BY <2>2, <2>3
<1>5. ASSUME NEW v \in Views, GiveUp(v) PROVE ConnOf(w)'
  <2>1. UNCHANGED <<views, app, wire, back, daemon, overtaken>>
        /\ at' = [at EXCEPT ![v] = "failed"] /\ Drop(v)
    BY <1>5 DEF GiveUp, Go
  <2>2. CASE w = v
    BY <1>c, <1>t, <2>1, <2>2 DEF ConnOf, Mounted
  <2>3. CASE w # v
    <3>1. at'[w] = at[w] /\ link'[w] = link[w]
      BY <1>t, <2>1, <2>3 DEF Drop
    <3> QED BY <1>c, <2>1, <3>1, ConnFrame DEF Mounted
  <2> QED BY <2>2, <2>3
<1>6. ASSUME NEW v \in Views, LastLook(v) PROVE ConnOf(w)'
  <2>1. UNCHANGED <<views, back, daemon, overtaken>> /\ at[v] = "look"
    BY <1>6 DEF LastLook
  <2>2. CASE w = v
    <3>1. at'[v] = "failed" \/ (at'[v] = "open" /\ link' = link)
      BY <1>6, <1>t DEF LastLook, Go
    <3>2. link[v] = "up" => v \in conn
      BY <1>c, <2>1 DEF ConnOf
    <3>3. v \in conn /\ Mounted(v) /\ v \notin overtaken => attached = v
      BY <1>c DEF ConnOf
    <3> QED BY <2>1, <2>2, <3>1, <3>2, <3>3 DEF ConnOf, Mounted
  <2>3. CASE w # v
    <3>1. /\ at'[w] = at[w] /\ wire'[w] = wire[w] /\ link'[w] = link[w]
          /\ handle' = w => handle = w
      BY <1>6, <1>t, <2>3 DEF LastLook, Go, Drop, Put
    <3> QED BY <1>c, <2>1, <3>1, ConnFrame DEF Mounted
  <2> QED BY <2>2, <2>3
<1>7. ASSUME NEW v \in Views, PumpSends(v) \/ PumpClosed(v) \/ PumpReads(v) \/ PumpCut(v)
      PROVE ConnOf(w)'
  <2>1. UNCHANGED <<views, handle, daemon, overtaken>> /\ at[v] = "open"
    BY <1>7 DEF PumpSends, PumpClosed, PumpReads, PumpCut
  <2>2. CASE w = v
    <3>1. at'[v] = "ended" \/ (at'[v] = "open" /\ link' = link)
      BY <1>7, <1>t, <2>1 DEF PumpSends, PumpClosed, PumpReads, PumpCut, Notice, Go
    <3> QED BY <1>c, <2>1, <2>2, <3>1 DEF ConnOf, Mounted
  <2>3. CASE w # v
    <3>1. at'[w] = at[w] /\ link'[w] = link[w]
      BY <1>7, <1>t, <2>3 DEF PumpSends, PumpClosed, PumpReads, PumpCut, Notice, Go, Drop
    <3>2. wire'[w] = wire[w] /\ back'[w] = back[w]
      BY <1>7, <1>t, <2>3 DEF PumpSends, PumpClosed, PumpReads, PumpCut, Put
    <3> QED BY <1>c, <2>1, <3>1, <3>2, ConnFrame DEF Mounted
  <2> QED BY <2>2, <2>3
<1>8. ASSUME NEW v \in Views, ReadAttach(v) PROVE ConnOf(w)'
  <2>1. UNCHANGED <<views, at, app, link>> /\ wire[v] # <<>>
        /\ wire' = [wire EXCEPT ![v] = Tail(@)]
    BY <1>8 DEF ReadAttach
  <2>2. at[v] \notin {"off", "mount", "connect"}
    BY <1>c, <2>1 DEF ConnOf
  <2>3. CASE listed
    <3>1. /\ back' = Put(back, v, "ok") /\ attached' = v /\ conn' = conn \cup {v}
          /\ overtaken' = overtaken \cup {u \in Views : u = attached /\ u > v}
      BY <1>8, <2>3 DEF ReadAttach
    <3>2. CASE w = v
      BY <2>1, <2>2, <3>1, <3>2 DEF ConnOf
    <3>3. CASE w # v
      <4>1. wire'[w] = wire[w] /\ back'[w] = back[w]
        BY <1>t, <2>1, <3>1, <3>3 DEF Put
      <4>2. view[v] # "new"
        BY <2>2 DEF NewestInv
      <4>3. Mounted(w) => w > v
        BY <1>t, <3>3, <4>2 DEF NewestInv, Mounted
      <4>4. ASSUME w \in conn', Mounted(w)', w \notin overtaken' PROVE attached' = w
        <5>1. w \in conn /\ Mounted(w) /\ w \notin overtaken
          BY <2>1, <3>1, <3>3, <4>4 DEF Mounted
        <5>2. attached = w
          BY <1>c, <5>1 DEF ConnOf
        <5> QED BY <3>1, <4>3, <4>4, <5>1, <5>2
      <4> QED BY <1>c, <2>1, <3>1, <3>3, <4>1, <4>4 DEF ConnOf
    <3> QED BY <3>2, <3>3
  <2>4. CASE ~listed
    <3>1. back' = Put(back, v, "error") /\ UNCHANGED <<daemon, overtaken>>
      BY <1>8, <2>4 DEF ReadAttach
    <3>2. CASE w = v
      <4>1. back'[v] = Append(back[v], "error")
        BY <1>t, <3>1 DEF Put
      <4>2. back[v] \in Seq({"error", "exited"}) => back'[v] \in Seq({"error", "exited"})
        BY <4>1
      <4> QED BY <1>c, <2>1, <2>2, <3>1, <3>2, <4>2 DEF ConnOf, Mounted
    <3>3. CASE w # v
      <4>1. wire'[w] = wire[w] /\ back'[w] = back[w]
        BY <1>t, <2>1, <3>1, <3>3 DEF Put
      <4> QED BY <1>c, <2>1, <3>1, <4>1, ConnFrame DEF Mounted
    <3> QED BY <3>2, <3>3
  <2> QED BY <2>3, <2>4
<1>9. ASSUME NEW v \in Views, ReadDetach(v) PROVE ConnOf(w)'
  <2>1. /\ UNCHANGED <<views, at, app, back, link, overtaken>>
        /\ wire[v] # <<>> /\ Head(wire[v]) = "detach" /\ wire' = [wire EXCEPT ![v] = Tail(@)]
        /\ conn' = conn \ {v} /\ IF v \in conn THEN LetGo(v) ELSE UNCHANGED attached
    BY <1>9 DEF ReadDetach
  <2>2. CASE w = v
    <3>1. wire[v] \notin Seq({"attach"})
      <4> SUFFICES ASSUME wire[v] \in Seq({"attach"}) PROVE FALSE
        OBVIOUS
      <4>1. Head(wire[v]) \in {"attach"}
        BY <2>1
      <4> QED BY <2>1, <4>1
    <3>2. at[v] \notin {"off", "mount", "connect", "await", "look"} /\ handle # v
      BY <3>1 DEF HandleInv
    <3> QED BY <2>1, <2>2, <3>2 DEF ConnOf
  <2>3. CASE w # v
    <3>1. wire'[w] = wire[w]
      BY <1>t, <2>1, <2>3
    <3> QED BY <1>c, <2>1, <2>3, <3>1, ConnFrame, LetGoKeeps DEF Mounted
  <2> QED BY <2>2, <2>3
<1>10. ASSUME NEW v \in Views, ConnEnds(v) \/ Cut(v) PROVE ConnOf(w)'
  <2>1. /\ UNCHANGED <<views, at, app, back, overtaken>>
        /\ link' = [link EXCEPT ![v] = "down"]
        /\ wire' = wire \/ wire' = [wire EXCEPT ![v] = <<>>]
        /\ conn' = conn \ {v} /\ IF v \in conn THEN LetGo(v) ELSE UNCHANGED attached
    BY <1>10 DEF ConnEnds, Cut
  <2>2. CASE w = v
    <3>1. link'[v] = "down" /\ v \notin conn' /\ (wire'[v] = wire[v] \/ wire'[v] = <<>>)
      BY <1>t, <2>1
    <3> QED BY <1>c, <2>1, <2>2, <3>1 DEF ConnOf
  <2>3. CASE w # v
    <3>1. wire'[w] = wire[w] /\ link'[w] = link[w]
      BY <1>t, <2>1, <2>3
    <3> QED BY <1>c, <2>1, <2>3, <3>1, ConnFrame, LetGoKeeps DEF Mounted
  <2> QED BY <2>2, <2>3
<1>11. CASE Exits
  <2>1. UNCHANGED <<views, at, app, wire, link, daemon, overtaken>>
    BY <1>11 DEF Exits
  <2>2. \/ back'[w] = back[w]
        \/ w = attached /\ w \in conn
    BY <1>11, <1>t DEF Exits, Put, AttachTypeOK
  <2> QED BY <1>c, <2>1, <2>2 DEF ConnOf, Mounted
<1>12. CASE KillSession \/ Swept \/ UNCHANGED attachVars
  <2>1. /\ UNCHANGED <<views, at, wires, daemon, overtaken>>
        /\ handle' = handle \/ handle' = None
    BY <1>12 DEF KillSession, Swept, attachVars
  <2> QED BY <1>c, <1>t, <2>1, ConnFrame DEF Mounted
<1>13. ASSUME NEW v \in Views, Mint(v) \/ NeverAsks(v) PROVE ConnOf(w)'
  <2>1. /\ UNCHANGED <<views, app, wires, daemon, overtaken>> /\ at[v] = "mount"
        /\ \E to \in {"connect", "failed"} : at' = [at EXCEPT ![v] = to]
    BY <1>13 DEF Mint, NeverAsks, Go
  <2>2. CASE w = v
    BY <1>c, <1>t, <2>1, <2>2 DEF ConnOf, Mounted
  <2>3. CASE w # v
    BY <1>c, <1>t, <2>1, <2>3, ConnFrame DEF Mounted
  <2> QED BY <2>2, <2>3
<1> QED BY <1>1, <1>2, <1>3, <1>4, <1>5, <1>6, <1>7, <1>8, <1>9, <1>10, <1>11, <1>12, <1>13, StepCases DEF Of

-----------------------------------------------------------------------------
(* A view on the screen keeps its attach.                                  *)

LEMMA OpenStep ==
  AttachTypeOK /\ NewestInv /\ OpenStaysOpen /\ [AttachNext]_attachVars => OpenStaysOpen'
<1> SUFFICES ASSUME AttachTypeOK, NewestInv, OpenStaysOpen, [AttachNext]_attachVars,
                    NEW w \in Views, Mounted(w)', at'[w] = "open", ~killed', w \notin robbed', InOrder(w)'
             PROVE  handle' = w
  BY DEF OpenStaysOpen
<1>t. /\ Views \subseteq Nat /\ 0 \notin Views
      /\ lastGen \in Nat /\ gen \in [Views -> Nat] /\ at \in [Views -> Points]
      /\ view \in [Views -> {"new", "mounted", "gone"}]
  BY Boxes
\* What was true of w as it stood before the step.
<1>h. ASSUME Mounted(w), at[w] = "open", ~killed, w \notin robbed, UNCHANGED gen PROVE handle = w
  <2>1. InOrder(w)
    BY <1>h DEF InOrder
  <2> QED BY <1>h, <2>1 DEF OpenStaysOpen
<1>1. ASSUME NEW v \in Views, Mount(v) PROVE FALSE
  <2>1. view' = [view EXCEPT ![v] = "mounted"] /\ ~Mounted(w) /\ at' = [at EXCEPT ![v] = "mount"]
    BY <1>1 DEF Mount, Go
  <2>2. w = v
    BY <1>t, <2>1 DEF Mounted
  <2> QED BY <1>t, <2>1, <2>2
<1>2. ASSUME NEW v \in Views, Unmount(v) \/ CloseFrame(v) PROVE handle' = w
  <2>1. view' = [view EXCEPT ![v] = "gone"] /\ UNCHANGED <<gen, at, handle, killed, robbed>>
    BY <1>2 DEF Unmount, CloseFrame
  <2>2. Mounted(w)
    BY <1>t, <2>1 DEF Mounted
  <2> QED BY <1>h, <2>1, <2>2
<1>3. ASSUME NEW v \in Views, LandClose(v) PROVE handle' = w
  <2>1. UNCHANGED <<view, gen, at, killed, robbed>> /\ v \in closing
    BY <1>3 DEF LandClose
  <2>2. handle = w /\ Mounted(w)
    BY <1>h, <2>1 DEF Mounted
  <2>3. v # w
    BY <2>1, <2>2 DEF NewestInv, Mounted
  <2> QED BY <1>3, <2>2, <2>3 DEF LandClose
<1>4. ASSUME NEW v \in Views, LandBare(v) PROVE handle' = w
  <2>1. /\ UNCHANGED <<view, gen, at, killed>> /\ bare' = bare \ {v}
        /\ robbed' = robbed \cup {u \in Views : u = handle /\ u # v}
    BY <1>4 DEF LandBare
  <2>2. v \in bare /\ w # v /\ Mounted(w)
    BY <1>4, <2>1 DEF LandBare, NewestInv, Mounted
  <2>3. handle = w
    BY <1>h, <2>1, <2>2 DEF Mounted
  <2> QED BY <2>1, <2>2, <2>3
<1>5. ASSUME NEW v \in Views, LastLook(v) PROVE handle' = w
  <2>1. UNCHANGED <<view, gen, killed, robbed>> /\ at[v] = "look"
    BY <1>5 DEF LastLook
  <2>2. CASE w = v
    BY <1>5, <1>t, <2>2 DEF LastLook, Go
  <2>3. CASE w # v
    <3>1. handle = w /\ Mounted(w)
      BY <1>5, <1>h, <1>t, <2>1, <2>3 DEF Mounted, LastLook, Go
    <3>2. v < w
      BY <1>t, <2>1, <2>3, <3>1 DEF NewestInv, Mounted
    <3>3. Superseded(v)
      BY <1>t, <2>1, <3>1, <3>2 DEF Superseded, InOrder
    <3> QED BY <1>5, <3>1, <3>3 DEF LastLook
  <2> QED BY <2>2, <2>3
<1>6. ASSUME NEW v \in Views, Mint(v) PROVE handle' = w
  <2>1. /\ at' = [at EXCEPT ![v] = "connect"] /\ gen' = [gen EXCEPT ![v] = lastGen + 1]
        /\ UNCHANGED <<view, handle, killed, robbed>>
    BY <1>6 DEF Mint, Go
  <2>2. w # v /\ at[w] = "open" /\ Mounted(w)
    BY <1>t, <2>1 DEF Mounted
  <2>3. InOrder(w)
    BY <1>t, <2>1, <2>2 DEF InOrder, NewestInv
  <2> QED BY <2>1, <2>2, <2>3 DEF OpenStaysOpen
<1>7. ASSUME NEW v \in Views,
             \/ Learn(v) \/ NeverAsks(v) \/ Ask(v) \/ Reply(v) \/ GiveUp(v)
             \/ PumpSends(v) \/ PumpClosed(v) \/ PumpReads(v) \/ PumpCut(v)
             \/ Cut(v) \/ ReadAttach(v) \/ ReadDetach(v) \/ ConnEnds(v)
      PROVE handle' = w
  <2>1. /\ UNCHANGED <<view, handle, killed, gen, robbed>>
        /\ \/ at' = at
           \/ \E to \in {"await", "look", "failed", "ended"} : at' = [at EXCEPT ![v] = to]
    BY <1>7 DEF Learn, NeverAsks, Ask, Reply, GiveUp, PumpSends, PumpClosed, PumpReads, PumpCut, Notice, Go,
            Cut, ReadAttach, ReadDetach, ConnEnds
  <2>2. at[w] = "open"
    BY <1>t, <2>1
  <2> QED BY <1>h, <2>1, <2>2 DEF Mounted
<1>8. CASE KillSession
  BY <1>8 DEF KillSession
<1>9. CASE Exits \/ Swept \/ UNCHANGED attachVars
  <2>1. UNCHANGED <<view, handle, at, killed, gen, robbed>>
    BY <1>9 DEF Exits, Swept, attachVars
  <2> QED BY <1>h, <2>1 DEF Mounted
<1> QED BY <1>1, <1>2, <1>3, <1>4, <1>5, <1>6, <1>7, <1>8, <1>9, StepCases DEF Of

-----------------------------------------------------------------------------
(* The theorems.                                                           *)

LEMMA AttachStarts == AttachInit => AttachInv
<1> SUFFICES ASSUME AttachInit PROVE AttachInv
  OBVIOUS
<1> USE DEF AttachInit
<1>0. Views \subseteq Nat /\ 0 \notin Views /\ \A v \in Views : v > 0
  BY AttachAssumption DEF Views
<1>1. AttachTypeOK
  <2>1. AppTypes
    BY DEF AppTypes
  <2>2. WireTypes
    BY DEF WireTypes
  <2>3. OtherTypes
    <3>1. view \in [Views -> {"new", "mounted", "gone"}] /\ at \in [Views -> Points]
      BY DEF Points
    <3>2. cuts \in 0 .. MaxCuts /\ lastGen \in Nat
      BY AttachAssumption
    <3>3. /\ known \subseteq Views /\ conn \subseteq Views /\ overtaken \subseteq Views /\ robbed \subseteq Views
          /\ closing \subseteq Views /\ bare \subseteq Views /\ gen \in [Views -> Nat]
      OBVIOUS
    <3>4. attached \in Views \cup {None} /\ alive \in BOOLEAN /\ listed \in BOOLEAN /\ killed \in BOOLEAN
      OBVIOUS
    <3> HIDE DEF AttachInit
    <3> QED BY <3>1, <3>2, <3>3, <3>4 DEF OtherTypes
  <2> QED BY <2>1, <2>2, <2>3, TypeParts
<1>2. NewestInv
  BY <1>0 DEF NewestInv, Mounted
<1>3. HandleInv
  BY <1>0, OnlyAttach DEF HandleInv
<1>4. ConnInv
  <2>1. \A v \in Views : at[v] = "off" /\ wire[v] = <<>> /\ back[v] = <<>> /\ v \notin conn
    OBVIOUS
  <2> QED BY <2>1 DEF ConnInv
<1>5. OpenStaysOpen
  BY DEF OpenStaysOpen, Mounted
<1> QED BY <1>1, <1>2, <1>3, <1>4, <1>5 DEF AttachInv

LEMMA AttachStep == AttachInv /\ [AttachNext]_attachVars => AttachInv'
BY AttachTypeStep, NewestStep, HandleStep, ConnStep, OpenStep DEF AttachInv

(* The inductive invariant of the attach: the app's map of handles and the *)
(* daemon's attachments fit together (daemon.rs attach and detach, conn.rs *)
(* handle), whatever order the views, the pumps and the connections run in.*)
THEOREM AttachInvariant == AttachSpec => []AttachInv
<1>1. AttachInit => AttachInv
  BY AttachStarts
<1>2. AttachInv /\ [AttachNext]_attachVars => AttachInv'
  BY AttachStep
<1> QED BY <1>1, <1>2, PTL DEF AttachSpec

(* A mounted view whose attach came through, minted after those of the     *)
(* views before it, keeps its handle until it closes or the user kills the *)
(* session: no late attach of another view, and no late close of its       *)
(* generation, takes it away (daemon.rs attach and detach).  The close of  *)
(* another frame does: it names no generation.                             *)
THEOREM OpenSafety == AttachSpec => []OpenStaysOpen
<1>1. AttachInv => OpenStaysOpen
  BY DEF AttachInv
<1> QED BY <1>1, AttachInvariant, PTL

(* The live view is the one the session streams to, unless the attach of   *)
(* an earlier view overtook it (conn.rs Attach and Detach).                *)
THEOREM FedSafety == AttachSpec => []LiveIsFed
<1>1. AttachInv => LiveIsFed
  <2> SUFFICES ASSUME AttachInv, NEW v \in Views, Live(v), v \notin overtaken
               PROVE  attached = v
    BY DEF LiveIsFed
  <2>1. v \in conn /\ Mounted(v)
    BY DEF AttachInv, ConnInv, Live
  <2> QED BY <2>1 DEF AttachInv, ConnInv
<1> QED BY <1>1, AttachInvariant, PTL
=============================================================================
