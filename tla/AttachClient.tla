---------------------------- MODULE AttachClient ----------------------------
(***************************************************************************)
(* The app's side of one session: its views come and go, each opens a      *)
(* connection of its own and attaches (the app's daemon.rs attach, detach, *)
(* kill and the pump; the daemon's conn.rs handle; TerminalViewRustPty.tsx,*)
(* store.ts).  Generations say which attach is the newest: "newest attach  *)
(* wins" (daemon.rs AttachHandle::gen); attach() mints one as it begins,   *)
(* some time after its view mounts.  The daemon knows no generation: there *)
(* the last Attach wins.  A view closes its attach by generation; the frame *)
(* that closes sends a close of its own, without one.                      *)
(*                                                                         *)
(* The bytes of the stream are SessionStream's; here a message is a name.  *)
(***************************************************************************)
EXTENDS Naturals, Sequences

CONSTANTS
  MaxViews,     \* bound of the model: terminal views of the session, each mounted once
  MaxCuts       \* bound of the model: connections that break, attaches that time out

ASSUME AttachAssumption == MaxViews \in Nat /\ MaxCuts \in Nat

\* Views are numbered in the order they mount.
Views == 1 .. MaxViews
None == 0

VARIABLES
  view, known,          \* each view: not yet, mounted, gone; that its attach has returned to it
  closing, bare,        \* views whose close is under way: of their generation, of their frame
  lastGen, gen,         \* attach_counter; the generation of each view's attach, 0 if it has none
  at,                   \* how far each attach is
  handle, queue, silent,\* the handle in the map; what each pump must send; that it ends on purpose
  told,                 \* what each view was told: "exit", "disconnected"
  wire, back,           \* each connection: what the daemon has not read, what the app has not read
  link,                 \* each connection: "none", "up", "dropped" by the app, "down"
  conn, attached,       \* connections whose loop has the session; the one the session streams to
  alive, listed,        \* the process runs; the session is in the daemon's map
  killed, cuts,
  overtaken,            \* history: views whose attachment the attach of an earlier view took over
  robbed                \* history: views whose handle the closing frame of another took out

views == <<view, known>>
closes == <<closing, bare>>
gens == <<lastGen, gen>>
app == <<handle, queue, silent, told>>
wires == <<wire, back, link>>
daemon == <<conn, attached>>
session == <<alive, listed, killed, cuts>>
taken == <<overtaken, robbed>>
attachVars == <<views, closes, gens, at, app, wires, daemon, session, taken>>

-----------------------------------------------------------------------------
Points == {"off", "mount", "connect", "await", "look", "open", "failed", "ended"}

AttachInit ==
  /\ view = [v \in Views |-> "new"] /\ known = {}
  /\ closing = {} /\ bare = {}
  /\ lastGen = 0 /\ gen = [v \in Views |-> 0]
  /\ at = [v \in Views |-> "off"]
  /\ handle = None /\ queue = [v \in Views |-> <<>>] /\ silent = {} /\ told = [v \in Views |-> {}]
  /\ wire = [v \in Views |-> <<>>] /\ back = [v \in Views |-> <<>>] /\ link = [v \in Views |-> "none"]
  /\ conn = {} /\ attached = None
  /\ alive = TRUE /\ listed = TRUE /\ killed = FALSE /\ cuts = 0
  /\ overtaken = {} /\ robbed = {}

Mounted(v) == view[v] = "mounted"
Put(box, v, m) == [box EXCEPT ![v] = Append(@, m)]
Go(v, to) == at' = [at EXCEPT ![v] = to]

-----------------------------------------------------------------------------
(* The views.                                                              *)

Mount(v) ==
  /\ view[v] = "new"
  /\ \A w \in Views : ~Mounted(w) /\ (w < v => view[w] # "new")
  /\ view' = [view EXCEPT ![v] = "mounted"] /\ Go(v, "mount")
  /\ UNCHANGED <<known, closes, gens, app, wires, daemon, session, taken>>

\* It goes. Its cleanup closes the attach it knows of.
Unmount(v) ==
  /\ Mounted(v) /\ view' = [view EXCEPT ![v] = "gone"]
  /\ closing' = closing \cup ({v} \cap known)
  /\ UNCHANGED <<known, bare, gens, at, app, wires, daemon, session, taken>>

\* closeFrame: the frame goes, and its view with it; then the frame sends a close.
CloseFrame(v) ==
  /\ Mounted(v) /\ view' = [view EXCEPT ![v] = "gone"]
  /\ closing' = closing \cup ({v} \cap known) /\ bare' = bare \cup {v}
  /\ UNCHANGED <<known, gens, at, app, wires, daemon, session, taken>>

\* The attach returns; to a view that is gone, and it closes what it opened.
\* Mutant: the view is gone, so nothing is done.
LearnNothing(v) ==
  /\ at[v] \in {"open", "ended"} /\ v \notin known /\ known' = known \cup {v}
  /\ UNCHANGED <<view, closes, gens, at, app, wires, daemon, session, taken>>
Learn(v) ==
  /\ at[v] \in {"open", "ended"} /\ v \notin known /\ known' = known \cup {v}
  /\ closing' = IF Mounted(v) THEN closing ELSE closing \cup {v}
  /\ UNCHANGED <<view, bare, gens, at, app, wires, daemon, session, taken>>

\* detach: the handle goes first, a Detach is sent through it.
TakeOut ==
  /\ handle' = None
  /\ queue' = IF handle = None THEN queue ELSE Put(queue, handle, "detach")

\* A close of a generation is of that attach only: each is minted once.
LandClose(v) ==
  /\ v \in closing /\ closing' = closing \ {v}
  /\ IF handle = v THEN TakeOut ELSE UNCHANGED <<handle, queue>>
  /\ UNCHANGED <<views, bare, gens, at, silent, told, wires, daemon, session, taken>>

\* The close of a frame is of whatever handle there is.
LandBare(v) ==
  /\ v \in bare /\ bare' = bare \ {v}
  /\ TakeOut
  /\ robbed' = robbed \cup {w \in Views : w = handle /\ w # v}
  /\ UNCHANGED <<views, closing, gens, at, silent, told, wires, daemon, session, overtaken>>

-----------------------------------------------------------------------------
(* attach().                                                               *)

\* After an animation frame and a call to the backend, whether the view is still there or not.
Mint(v) ==
  /\ at[v] = "mount" /\ Go(v, "connect")
  /\ lastGen' = lastGen + 1 /\ gen' = [gen EXCEPT ![v] = lastGen + 1]
  /\ UNCHANGED <<views, closes, app, wires, daemon, session, taken>>

\* The view has gone before that frame.
NeverAsks(v) ==
  /\ at[v] = "mount" /\ ~Mounted(v) /\ Go(v, "failed")
  /\ UNCHANGED <<views, closes, gens, app, wires, daemon, session, taken>>

Superseded(v) == handle # None /\ gen[handle] > gen[v]

\* Connected at last: one look at the map, then the Attach is sent.
Ask(v) ==
  /\ at[v] = "connect"
  /\ IF Superseded(v) THEN Go(v, "failed") /\ UNCHANGED <<wire, link>>
     ELSE Go(v, "await") /\ wire' = Put(wire, v, "attach") /\ link' = [link EXCEPT ![v] = "up"]
  /\ UNCHANGED <<views, closes, gens, app, back, daemon, session, taken>>

Drop(v) == link' = [link EXCEPT ![v] = IF @ = "up" THEN "dropped" ELSE @]

\* The first reply.  A failed attach drops its connection.
Reply(v) ==
  /\ at[v] = "await"
  /\ \/ /\ back[v] # <<>> /\ back' = [back EXCEPT ![v] = Tail(@)]
        /\ IF Head(back[v]) = "ok" THEN Go(v, "look") /\ UNCHANGED link
           ELSE Go(v, "failed") /\ Drop(v)
     \/ /\ back[v] = <<>> /\ link[v] = "down" /\ Go(v, "failed") /\ UNCHANGED <<back, link>>
  /\ UNCHANGED <<views, closes, gens, app, wire, daemon, session, taken>>

\* It cannot connect, or RPC_TIMEOUT goes by.
GiveUp(v) ==
  /\ at[v] \in {"connect", "await"} /\ cuts < MaxCuts /\ cuts' = cuts + 1
  /\ Go(v, "failed") /\ Drop(v)
  /\ UNCHANGED <<views, closes, gens, app, wire, back, daemon, alive, listed, killed, taken>>

\* The last look, under the lock of the map.  Mutant: there is none.
InsertAlways(v) ==
  /\ at[v] = "look" /\ Go(v, "open") /\ handle' = v
  /\ UNCHANGED <<views, closes, gens, queue, silent, told, wires, daemon, session, taken>>
LastLook(v) ==
  /\ at[v] = "look"
  /\ IF Superseded(v)
     THEN Go(v, "failed") /\ wire' = Put(wire, v, "detach") /\ Drop(v) /\ UNCHANGED handle
     ELSE Go(v, "open") /\ handle' = v /\ UNCHANGED <<wire, link>>
  /\ UNCHANGED <<views, closes, gens, queue, silent, told, back, daemon, session, taken>>

Attaching(v) == Mint(v) \/ NeverAsks(v) \/ Ask(v) \/ Reply(v) \/ LastLook(v)

-----------------------------------------------------------------------------
(* The pump of an attached view.  A handle dropped closes its queue.       *)

\* The pump ends: drops the connection and says so, unless it ended on purpose.
Notice(v, purpose, news) ==
  /\ Go(v, "ended") /\ Drop(v)
  /\ told' = [told EXCEPT ![v] = @ \cup (IF purpose THEN {} ELSE news)]

PumpSends(v) ==
  /\ at[v] = "open" /\ queue[v] # <<>>
  /\ queue' = [queue EXCEPT ![v] = Tail(@)]
  /\ silent' = IF Head(queue[v]) = "detach" THEN silent \cup {v} ELSE silent
  /\ IF link[v] = "up" THEN wire' = Put(wire, v, Head(queue[v])) /\ UNCHANGED <<at, link, told>>
     ELSE Notice(v, v \in silent' \/ handle # v, {"disconnected"}) /\ UNCHANGED wire
  /\ UNCHANGED <<views, closes, gens, handle, back, daemon, session, taken>>

PumpClosed(v) ==
  /\ at[v] = "open" /\ queue[v] = <<>> /\ handle # v
  /\ Notice(v, TRUE, {})
  /\ UNCHANGED <<views, closes, gens, handle, queue, silent, wire, back, daemon, session, taken>>

PumpReads(v) ==
  /\ at[v] = "open" /\ back[v] # <<>>
  /\ back' = [back EXCEPT ![v] = Tail(@)]
  /\ IF Head(back[v]) = "exited" THEN Notice(v, FALSE, {"exit"}) ELSE UNCHANGED <<at, link, told>>
  /\ UNCHANGED <<views, closes, gens, handle, queue, silent, wire, daemon, session, taken>>

\* The stream ends.
PumpCut(v) ==
  /\ at[v] = "open" /\ back[v] = <<>> /\ link[v] = "down"
  /\ Notice(v, v \in silent \/ handle # v, {"disconnected"})
  /\ UNCHANGED <<views, closes, gens, handle, queue, silent, wire, back, daemon, session, taken>>

Pump(v) == PumpSends(v) \/ PumpClosed(v) \/ PumpReads(v) \/ PumpCut(v)

\* kill(): the handle is dropped without a Detach, then the daemon is told.
KillSession ==
  /\ ~killed /\ listed
  /\ killed' = TRUE /\ handle' = None
  /\ UNCHANGED <<views, closes, gens, at, queue, silent, told, wires, daemon, alive, listed, cuts, taken>>

-----------------------------------------------------------------------------
(* The daemon.                                                             *)

\* Session::detach: of this connection only.  Mutant: of any.
LetGoOfAny(v) == attached' = None
LetGo(v) == attached' = IF attached = v THEN None ELSE attached

ReadAttach(v) ==
  /\ wire[v] # <<>> /\ Head(wire[v]) = "attach" /\ link[v] # "down"
  /\ wire' = [wire EXCEPT ![v] = Tail(@)]
  /\ IF listed
     THEN /\ back' = Put(back, v, "ok") /\ attached' = v /\ conn' = conn \cup {v}
          /\ overtaken' = overtaken \cup {w \in Views : w = attached /\ w > v}
     ELSE back' = Put(back, v, "error") /\ UNCHANGED <<daemon, overtaken>>
  /\ UNCHANGED <<views, closes, gens, at, app, link, session, robbed>>

ReadDetach(v) ==
  /\ wire[v] # <<>> /\ Head(wire[v]) = "detach" /\ link[v] # "down"
  /\ wire' = [wire EXCEPT ![v] = Tail(@)]
  /\ conn' = conn \ {v} /\ IF v \in conn THEN LetGo(v) ELSE UNCHANGED attached
  /\ UNCHANGED <<views, closes, gens, at, app, back, link, session, taken>>

\* All read and the app gone.
ConnEnds(v) ==
  /\ link[v] = "dropped" /\ wire[v] = <<>>
  /\ link' = [link EXCEPT ![v] = "down"]
  /\ conn' = conn \ {v} /\ IF v \in conn THEN LetGo(v) ELSE UNCHANGED attached
  /\ UNCHANGED <<views, closes, gens, at, app, wire, back, session, taken>>

\* A frame that cannot be read, or the cap of unsent responses: the daemon closes.
Cut(v) ==
  /\ link[v] = "up" /\ cuts < MaxCuts /\ cuts' = cuts + 1
  /\ link' = [link EXCEPT ![v] = "down"] /\ wire' = [wire EXCEPT ![v] = <<>>]
  /\ conn' = conn \ {v} /\ IF v \in conn THEN LetGo(v) ELSE UNCHANGED attached
  /\ UNCHANGED <<views, closes, gens, at, app, back, alive, listed, killed, taken>>

Conn(v) == ReadAttach(v) \/ ReadDetach(v) \/ ConnEnds(v)

\* finalize_exit tells whoever is attached; the next tick takes the session out of the map.
Exits ==
  /\ alive /\ alive' = FALSE
  /\ back' = IF attached = None \/ attached \notin conn THEN back ELSE Put(back, attached, "exited")
  /\ UNCHANGED <<views, closes, gens, at, app, wire, link, daemon, listed, killed, cuts, taken>>

Swept ==
  /\ ~alive /\ listed /\ listed' = FALSE
  /\ UNCHANGED <<views, closes, gens, at, app, wires, daemon, alive, killed, cuts, taken>>

-----------------------------------------------------------------------------
Steps(v) == Learn(v) \/ LandClose(v) \/ LandBare(v) \/ Attaching(v) \/ Pump(v) \/ Conn(v)

AttachNext ==
  \/ \E v \in Views : Mount(v) \/ Unmount(v) \/ CloseFrame(v) \/ GiveUp(v) \/ Cut(v) \/ Steps(v)
  \/ KillSession \/ Exits \/ Swept

\* Tasks of the runtime and of the webview; what the user, the process and the network do is not owed.
AttachFairness == \A v \in Views : WF_attachVars(Steps(v))

AttachSpec == AttachInit /\ [][AttachNext]_attachVars /\ AttachFairness

-----------------------------------------------------------------------------
(* Types.                                                                  *)
AttachTypeOK ==
  /\ view \in [Views -> {"new", "mounted", "gone"}] /\ known \subseteq Views
  /\ closing \subseteq Views /\ bare \subseteq Views
  /\ lastGen \in Nat /\ gen \in [Views -> Nat] /\ at \in [Views -> Points]
  /\ handle \in Views \cup {None} /\ queue \in [Views -> Seq({"detach"})] /\ silent \subseteq Views
  /\ told \in [Views -> SUBSET {"exit", "disconnected"}]
  /\ wire \in [Views -> Seq({"attach", "detach"})] /\ back \in [Views -> Seq({"ok", "error", "exited"})]
  /\ link \in [Views -> {"none", "up", "dropped", "down"}]
  /\ conn \subseteq Views /\ attached \in Views \cup {None}
  /\ alive \in BOOLEAN /\ listed \in BOOLEAN /\ killed \in BOOLEAN /\ cuts \in 0 .. MaxCuts
  /\ overtaken \subseteq Views /\ robbed \subseteq Views

\* The view is on the screen and its pump runs over a connection in order.
Live(v) == Mounted(v) /\ at[v] = "open" /\ handle = v /\ link[v] = "up" /\ queue[v] = <<>>

(* A live view is the one the session streams to, unless the attach of an   *)
(* earlier view overtook it at the daemon (conn.rs, "last Attach wins").   *)
LiveIsFed == \A v \in Views : Live(v) /\ v \notin overtaken => attached = v

\* The views before v minted theirs before it.
InOrder(v) == \A u \in Views : u < v => gen[u] < gen[v]

(* A view keeps its attach until it closes or the user kills: no late      *)
(* attach of another view and no late close of its generation takes it     *)
(* away (daemon.rs attach, detach).  What may: the close of another frame, *)
(* which names no generation, and an earlier view's attach that was minted *)
(* after its own.                                                          *)
OpenStaysOpen ==
  \A v \in Views :
    Mounted(v) /\ at[v] = "open" /\ ~killed /\ v \notin robbed /\ InOrder(v) => handle = v

(* "A stale view can never detach a newer attach" (commands.rs             *)
(* daemon_attach): only the user's kill takes out the handle of a view on  *)
(* the screen.  The close of a frame does.                                 *)
DetachSparesLive ==
  [][handle # None /\ handle' = None /\ ~killed' => ~Mounted(handle)]_attachVars

(* Once no view is on the screen the session streams to nobody: no phantom *)
(* attachment without an acker (TerminalViewRustPty.tsx).                  *)
NoPhantom == <>[](\A v \in Views : ~Mounted(v)) => <>[](attached = None)

-----------------------------------------------------------------------------
(* The inductive invariant behind LiveIsFed and OpenStaysOpen.             *)

\* The views mount one after the other; no view has a close under way before it goes.
NewestInv ==
  \A v \in Views :
    /\ view[v] \in {"new", "mounted"} => \A w \in Views : w > v => view[w] = "new"
    /\ at[v] = "off" <=> view[v] = "new"
    /\ v \in closing \cup bare => view[v] = "gone"
    /\ gen[v] <= lastGen

\* A handle is of an attach that came through, and has not been closed.
HandleInv ==
  \A v \in Views :
    /\ handle = v => at[v] \in {"open", "ended"}
    /\ at[v] \in {"off", "mount", "connect", "await", "look"} \/ handle = v
         => queue[v] = <<>> /\ wire[v] \in Seq({"attach"})

\* What the daemon has of an attach that is on its way, or that has a handle.
ConnInv ==
  \A v \in Views :
    /\ at[v] \in {"off", "mount", "connect"} => wire[v] = <<>> /\ back[v] = <<>> /\ v \notin conn
    /\ at[v] = "await" /\ link[v] = "up" /\ v \notin conn => back[v] \in Seq({"error", "exited"})
    /\ at[v] = "look" /\ link[v] = "up" => v \in conn
    /\ at[v] = "open" /\ handle = v /\ link[v] = "up" => v \in conn
    /\ v \in conn /\ Mounted(v) /\ v \notin overtaken => attached = v

AttachInv == AttachTypeOK /\ NewestInv /\ HandleInv /\ ConnInv /\ OpenStaysOpen
=============================================================================
