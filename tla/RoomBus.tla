------------------------------ MODULE RoomBus ------------------------------
(***************************************************************************)
(* The broadcast rooms of one drust host: the shared RoomBus               *)
(* (tenant/rooms/bus.rs), the event loop of every WebSocket connection     *)
(* (tenant/rooms/ws.rs, ws_auth.rs), REST publishes (rest.rs), the sweeper *)
(* and the evictions that admins and revocations perform.                  *)
(*                                                                         *)
(* A receiver is "live" while the Sender it was made from is in the map    *)
(* and "cut" once that Sender was dropped; the Senders have no other home. *)
(* Epoch cells are shared by reference: `epochs' names the cell the map    *)
(* holds for a tenant, a connection keeps the cell it was given.           *)
(*                                                                         *)
(* Each await of the loop that a step of another task can fall into is a   *)
(* control point: "captured" (the baseline is taken, the upgrade not yet   *)
(* run), "loop" (in select!), "checked" (the frame passed its epoch check, *)
(* its operation has not run), "joining" (ROOM_FULL was checked, subscribe *)
(* has not run) and "sending" (awaiting the peer's socket).                *)
(***************************************************************************)
EXTENDS Integers, FiniteSets

CONSTANTS
    Tenants, Rooms, Conns,
    Evictors,            \* evictions of a tenant or of the host, one call each
    Buffer,              \* broadcast::channel(BUFFER)
    ClientRoomMax,       \* RoomsConfig.client_room_max
    RoomSubscriberMax,   \* RoomsConfig.room_subscriber_max
    Deadlines,           \* the credentials that connect: expiring or not
    MaxConnect,          \* bound: connections opened per client
    MaxHandle            \* bound: epoch cells ever allocated

ASSUME RoomAssumption ==
    /\ Buffer \in Nat \ {0}
    /\ ClientRoomMax \in Nat /\ RoomSubscriberMax \in Nat
    /\ MaxConnect \in Nat /\ MaxHandle \in Nat
    /\ Deadlines \subseteq {"none", "future"}
    /\ "noroom" \notin Rooms

VARIABLES
    epochs,    \* RoomBus.epochs: the cell of each tenant, 0 before the first
    cell,      \* the value of each cell
    handles,   \* how many cells were allocated
    chan,      \* RoomBus.channels: is a Sender stored for (tenant, room)
    conn,      \* the connections
    opened,    \* how often each client connected
    ev         \* the evictions in flight

bus == <<epochs, cell, handles, chan>>
vars == <<epochs, cell, handles, chan, conn, opened, ev>>

Cells == 1 .. MaxHandle

Away == [pc |-> "away", t |-> "none", h |-> 0, base |-> 0,
         sub |-> [r \in Rooms |-> "no"], q |-> [r \in Rooms |-> 0],
         due |-> FALSE, dl |-> "none", then |-> "loop", arg |-> "noroom",
         late |-> 0]

ConnRows ==
    [pc : {"away", "captured", "loop", "checked", "joining", "sending"},
     t : Tenants \cup {"none"}, h : 0 .. MaxHandle, base : Nat,
     sub : [Rooms -> {"no", "live", "cut"}], q : [Rooms -> 0 .. Buffer + 1],
     due : BOOLEAN, dl : {"none", "future", "past"}, then : {"loop", "away"},
     arg : Rooms \cup {"noroom"}, late : 0 .. 2]

EvRows == [pc : {"idle", "half", "walking", "done"}, t : Tenants \cup {"none"},
           left : SUBSET Tenants, seen : SUBSET Tenants,
           mark : SUBSET (Conns \X (0 .. MaxConnect))]

Init ==
    /\ epochs = [t \in Tenants |-> 0]
    /\ cell = [h \in Cells |-> 0]
    /\ handles = 0
    /\ chan = [t \in Tenants |-> [r \in Rooms |-> FALSE]]
    /\ conn = [c \in Conns |-> Away]
    /\ opened = [c \in Conns |-> 0]
    /\ ev = [e \in Evictors |-> [pc |-> "idle", t |-> "none", left |-> {},
                                 seen |-> {}, mark |-> {}]]

----------------------------------------------------------------------------
(* The bus. *)

(* The receivers of a room: those the stored Sender still counts. *)
Receivers(t, r) ==
    {c \in Conns : conn[c].t = t /\ conn[c].sub[r] = "live"}

(* entry(t).or_default(): the cell of t, a new one where there is none.    *)
Entry(t) == IF epochs[t] = 0 THEN handles + 1 ELSE epochs[t]
TakeEntry(t) ==
    /\ Entry(t) \in Cells
    /\ epochs' = [epochs EXCEPT ![t] = Entry(t)]
    /\ handles' = IF epochs[t] = 0 THEN handles + 1 ELSE handles

(* What dropping the Senders D leaves of a connection's receivers. *)
CutSubs(k, D) ==
    [k EXCEPT !.sub = [r \in Rooms |->
        IF k.sub[r] = "live" /\ <<k.t, r>> \in D THEN "cut" ELSE k.sub[r]]]
DropSenders(D) ==
    /\ chan' = [t \in Tenants |-> [r \in Rooms |->
                    chan[t][r] /\ <<t, r>> \notin D]]
    /\ conn' = [c \in Conns |-> CutSubs(conn[c], D)]

(* broadcast::Sender::send: one more message for every receiver; Buffer+1  *)
(* unread messages stand for "has lagged".                                 *)
Deliver(cn, t, r) ==
    [c \in Conns |->
        IF cn[c].t = t /\ cn[c].sub[r] = "live" /\ cn[c].q[r] <= Buffer
        THEN [cn[c] EXCEPT !.q[r] = @ + 1] ELSE cn[c]]

(* The admin route that drops one room; it leaves the epoch alone. *)
EvictRoom(t, r) ==
    /\ DropSenders({<<t, r>>})
    /\ UNCHANGED <<epochs, cell, handles, opened, ev>>

(* sweep_empty: Senders without receivers go, the epochs stay. *)
FaultSweepEmpty(t) ==
    /\ DropSenders({<<t, r>> : r \in {x \in Rooms : Receivers(t, x) = {}}})
    /\ epochs' = IF \A r \in Rooms : Receivers(t, r) = {}
                 THEN [epochs EXCEPT ![t] = 0] ELSE epochs
    /\ UNCHANGED <<cell, handles, opened, ev>>
FaultSweepBusy(t) ==
    /\ DropSenders({<<t, r>> : r \in {x \in Rooms :
                                        Cardinality(Receivers(t, x)) <= 1}})
    /\ UNCHANGED <<epochs, cell, handles, opened, ev>>
SweepEmpty(t) ==
    /\ DropSenders({<<t, r>> : r \in {x \in Rooms : Receivers(t, x) = {}}})
    /\ UNCHANGED <<epochs, cell, handles, opened, ev>>

(* publish_handler: a REST publish that passed its gates. *)
RestPublish(t, r) ==
    /\ conn' = Deliver(conn, t, r)
    /\ UNCHANGED <<epochs, cell, handles, chan, opened, ev>>

(* The MCP tool broadcast goes through the same gates. *)
BroadcastTool(t, r) == RestPublish(t, r)

----------------------------------------------------------------------------
(* Evictions. *)

OpenConns == {c \in Conns : conn[c].pc # "away"}

BumpEpoch(t) ==
    /\ TakeEntry(t)
    /\ cell' = [cell EXCEPT ![Entry(t)] = @ + 1]

(* evict_tenant: the bump, then channels.remove(tenant); `mark' is history. *)
EvictBegins(e, t) ==
    /\ ev[e].pc = "idle"
    /\ ev' = [ev EXCEPT ![e].pc = "half", ![e].t = t,
                        ![e].mark = {<<c, opened[c]>> : c \in
                                        {d \in Conns : conn[d].t = t}}]
    /\ UNCHANGED opened
EvictEnds(e, t) ==
    /\ ev[e].pc = "half" /\ ev[e].t = t
    /\ ev' = [ev EXCEPT ![e].pc = "done"]
    /\ UNCHANGED opened
FaultEvictTenant(e, t) ==
    \/ /\ EvictBegins(e, t)
       /\ DropSenders({t} \X Rooms) /\ UNCHANGED <<epochs, cell, handles>>
    \/ /\ EvictEnds(e, t)
       /\ BumpEpoch(t) /\ UNCHANGED <<chan, conn>>
EvictTenant(e, t) ==
    \/ /\ EvictBegins(e, t)
       /\ BumpEpoch(t) /\ UNCHANGED <<chan, conn>>
    \/ /\ EvictEnds(e, t)
       /\ DropSenders({t} \X Rooms) /\ UNCHANGED <<epochs, cell, handles>>

(* evict_all_tenants: the walk over the epoch entries starts; an entry     *)
(* inserted while it runs may or may not be visited.                       *)
EvictAllStart(e) ==
    /\ ev[e].pc = "idle"
    /\ ev' = [ev EXCEPT ![e].pc = "walking",
                        ![e].left = {t \in Tenants : epochs[t] # 0},
                        ![e].mark = {<<c, opened[c]>> : c \in OpenConns}]
    /\ UNCHANGED <<epochs, cell, handles, chan, conn, opened>>
EvictAllBump(e, t) ==
    /\ ev[e].pc = "walking" /\ epochs[t] # 0 /\ t \notin ev[e].seen
    /\ cell' = [cell EXCEPT ![epochs[t]] = @ + 1]
    /\ ev' = [ev EXCEPT ![e].seen = @ \cup {t}]
    /\ UNCHANGED <<epochs, handles, chan, conn, opened>>
EvictAllClear(e) ==
    /\ ev[e].pc = "walking" /\ ev[e].left \subseteq ev[e].seen
    /\ ev' = [ev EXCEPT ![e].pc = "done"]
    /\ DropSenders(Tenants \X Rooms)
    /\ UNCHANGED <<epochs, cell, handles, opened>>

----------------------------------------------------------------------------
(* A connection. *)

Update(c, k) == conn' = [conn EXCEPT ![c] = k]
Evicted(k) == k.pc # "away" /\ cell[k.h] # k.base
Sending(k, then, arg) ==
    [k EXCEPT !.pc = "sending", !.then = then, !.arg = arg]
InLoop(k) == [k EXCEPT !.pc = "loop", !.arg = "noroom"]
(* An operation took effect; those of an evicted connection are counted.   *)
Landed(k) == IF Evicted(k) /\ k.late < 2 THEN [k EXCEPT !.late = @ + 1] ELSE k
SubCount(k) == Cardinality({r \in Rooms : k.sub[r] # "no"})
WithoutRoom(k, r) == [k EXCEPT !.sub[r] = "no", !.q[r] = 0]
OnlyConn == UNCHANGED <<epochs, cell, handles, chan, opened, ev>>

(* ws_baseline_capture, inside the auth layer: the baseline of a connect.  *)
Capture(c, t, d) ==
    /\ conn[c].pc = "away" /\ opened[c] < MaxConnect
    /\ TakeEntry(t)
    /\ opened' = [opened EXCEPT ![c] = @ + 1]
    /\ Update(c, [Away EXCEPT !.pc = "captured", !.t = t, !.h = Entry(t),
                              !.base = cell[Entry(t)], !.dl = d])
    /\ UNCHANGED <<cell, chan, ev>>

(* on_upgrade runs: handle_socket enters its loop. *)
OpenSocket(c) ==
    /\ conn[c].pc = "captured"
    /\ Update(c, InLoop(conn[c]))
    /\ OnlyConn

(* The timers. *)
KeepaliveDue(c) ==
    /\ conn[c].pc \notin {"away", "captured"} /\ ~ conn[c].due
    /\ Update(c, [conn[c] EXCEPT !.due = TRUE])
    /\ OnlyConn
DeadlinePasses(c) ==
    /\ conn[c].dl = "future"
    /\ Update(c, [conn[c] EXCEPT !.dl = "past"])
    /\ OnlyConn

(* select! is biased: expiry, then keepalive, then frames, then fan-out.   *)
ExpiryArm(c) ==
    /\ conn[c].pc = "loop" /\ conn[c].dl = "past"
    /\ Update(c, Sending(conn[c], "away", "noroom"))
    /\ OnlyConn

FaultKeepaliveArm(c) ==
    /\ conn[c].pc = "loop" /\ conn[c].dl # "past" /\ conn[c].due
    /\ Update(c, Sending([conn[c] EXCEPT !.due = FALSE], "loop", "noroom"))
    /\ OnlyConn
KeepaliveArm(c) ==
    /\ conn[c].pc = "loop" /\ conn[c].dl # "past" /\ conn[c].due
    /\ Update(c, Sending([conn[c] EXCEPT !.due = FALSE],
                         IF Evicted(conn[c]) THEN "away" ELSE "loop", "noroom"))
    /\ OnlyConn

FrameArm(c) ==
    /\ conn[c].pc = "loop" /\ conn[c].dl # "past" /\ ~ conn[c].due
    /\ Update(c, IF Evicted(conn[c]) THEN Sending(conn[c], "away", "noroom")
                 ELSE [conn[c] EXCEPT !.pc = "checked"])
    /\ OnlyConn

(* The answer of an operation: an ack is sent only to a client_ref. *)
Answers(k) == {InLoop(k), Sending(k, "loop", "noroom")}

(* ClientOp::Subscribe up to the ROOM_FULL check. *)
Subscribe(c, r) ==
    /\ conn[c].pc = "checked"
    /\ IF \/ conn[c].sub[r] # "no"
          \/ SubCount(conn[c]) >= ClientRoomMax
          \/ Cardinality(Receivers(conn[c].t, r)) >= RoomSubscriberMax
       THEN \E k \in Answers(conn[c]) : Update(c, k)
       ELSE Update(c, [conn[c] EXCEPT !.pc = "joining", !.arg = r])
    /\ OnlyConn

(* bus.subscribe and the StreamMap insert. *)
Join(c) ==
    LET r == conn[c].arg
        k == Landed([conn[c] EXCEPT !.sub[r] = "live", !.q[r] = 0])
    IN  /\ conn[c].pc = "joining"
        /\ chan' = [chan EXCEPT ![conn[c].t][r] = TRUE]
        /\ \E a \in Answers(k) : Update(c, a)
        /\ UNCHANGED <<epochs, cell, handles, opened, ev>>

Unsubscribe(c, r) ==
    /\ conn[c].pc = "checked"
    /\ \E a \in Answers(Landed(WithoutRoom(conn[c], r))) : Update(c, a)
    /\ OnlyConn

(* ClientOp::Publish that passed its gates. *)
Publish(c, r) ==
    /\ conn[c].pc = "checked"
    /\ \E a \in Answers(Landed(conn[c])) :
          conn' = Deliver([conn EXCEPT ![c] = a], conn[c].t, r)
    /\ OnlyConn

(* Pings, malformed frames, refused publishes: an answer and nothing else. *)
AnswerOnly(c) ==
    /\ conn[c].pc = "checked"
    /\ \E a \in Answers(conn[c]) : Update(c, a)
    /\ OnlyConn

(* Fan-out: the next message of a room; a room that lagged is removed once *)
(* the client was told; a stream whose Sender is gone ends when drained.   *)
FanOut(c, r) ==
    LET k == conn[c] IN
    /\ k.pc = "loop" /\ k.dl # "past" /\ ~ k.due /\ k.sub[r] # "no"
    /\ \/ /\ k.q[r] \in 1 .. Buffer
          /\ Update(c, Sending([k EXCEPT !.q[r] = @ - 1], "loop", "noroom"))
       \/ /\ k.q[r] > Buffer
          /\ Update(c, Sending(k, "loop", r))
       \/ /\ k.q[r] = 0 /\ k.sub[r] = "cut"
          /\ Update(c, WithoutRoom(k, r))
    /\ OnlyConn

(* The peer took what was sent: the awaited send returns. *)
Sent(c) ==
    LET k == conn[c] IN
    /\ k.pc = "sending"
    /\ Update(c, CASE k.then = "away" -> Away
                   [] k.then = "loop" /\ k.arg = "noroom" -> InLoop(k)
                   [] OTHER -> InLoop(WithoutRoom(k, k.arg)))
    /\ OnlyConn

(* The peer disconnects, a send fails, or the upgrade is abandoned. *)
Hangup(c) ==
    /\ conn[c].pc \in {"captured", "loop", "sending"}
    /\ Update(c, Away)
    /\ OnlyConn

----------------------------------------------------------------------------
Dispatch(c) ==
    \/ \E r \in Rooms : Subscribe(c, r) \/ Unsubscribe(c, r) \/ Publish(c, r)
    \/ AnswerOnly(c)

LoopStep(c) ==
    \/ OpenSocket(c) \/ ExpiryArm(c) \/ KeepaliveArm(c)
    \/ Dispatch(c) \/ Join(c)

Next ==
    \/ \E c \in Conns :
          \/ \E t \in Tenants, d \in Deadlines : Capture(c, t, d)
          \/ LoopStep(c) \/ FrameArm(c)
          \/ \E r \in Rooms : FanOut(c, r)
          \/ KeepaliveDue(c) \/ DeadlinePasses(c) \/ Sent(c) \/ Hangup(c)
    \/ \E e \in Evictors :
          \/ \E t \in Tenants : EvictTenant(e, t) \/ EvictAllBump(e, t)
          \/ EvictAllStart(e) \/ EvictAllClear(e)
    \/ \E t \in Tenants :
          \/ SweepEmpty(t)
          \/ \E r \in Rooms : EvictRoom(t, r) \/ RestPublish(t, r) \/ BroadcastTool(t, r)

Spec == Init /\ [][Next]_vars

(* The loop runs and its timers fire; nothing is assumed of the clients or *)
(* of the evictors.                                                        *)
LoopFairness ==
    \A c \in Conns :
        /\ WF_vars(OpenSocket(c)) /\ WF_vars(ExpiryArm(c))
        /\ WF_vars(KeepaliveArm(c)) /\ WF_vars(Dispatch(c)) /\ WF_vars(Join(c))
        /\ WF_vars(KeepaliveDue(c)) /\ WF_vars(DeadlinePasses(c))

(* In addition every peer keeps reading, so an awaited send returns: the   *)
(* loop has no timeout on a send, and polls no timer while it awaits one.  *)
FairSpec == Spec /\ LoopFairness /\ \A c \in Conns : WF_vars(Sent(c))

----------------------------------------------------------------------------
(* Properties.                                                             *)

TypeOK ==
    /\ epochs \in [Tenants -> 0 .. MaxHandle]
    /\ cell \in [Cells -> Nat]
    /\ handles \in 0 .. MaxHandle
    /\ chan \in [Tenants -> [Rooms -> BOOLEAN]]
    /\ conn \in [Conns -> ConnRows]
    /\ opened \in [Conns -> 0 .. MaxConnect]
    /\ ev \in [Evictors -> EvRows]

(* The cell a connection compares with is the cell that evictions bump:    *)
(* bus.rs keeps epoch entries for ever so that no socket is left with a    *)
(* cell that "never sees later bumps".                                     *)
HandleIsCurrent ==
    \A c \in Conns : conn[c].pc # "away" => conn[c].h = epochs[conn[c].t]

(* Every connection that was there when an eviction of its tenant, or of   *)
(* the host, began is gone or marked for closing when the call returns.    *)
EvictionReachesAll ==
    \A e \in Evictors : ev[e].pc = "done" =>
        \A c \in OpenConns :
            <<c, opened[c]>> \in ev[e].mark => Evicted(conn[c])

(* "An evicted socket cannot land one more op on the way out", up to the   *)
(* operation whose epoch check preceded the bump: at most one operation    *)
(* takes effect after it.                                                  *)
AtMostOneLateOp == \A c \in Conns : conn[c].late <= 1

(* Once no eviction is half done, an evicted connection hears nothing that *)
(* is published from then on, unless the one late operation joined a room. *)
(* This is what bumping before dropping buys.                              *)
HalfDone(t) ==
    \E e \in Evictors :
        \/ ev[e].pc = "half" /\ ev[e].t = t
        \/ ev[e].pc = "walking" /\ t \in ev[e].seen
EvictedHearNothing ==
    \A c \in Conns :
        (Evicted(conn[c]) /\ ~ HalfDone(conn[c].t) /\ conn[c].late = 0)
            => \A r \in Rooms : conn[c].sub[r] # "live"

(* Nobody but an eviction takes a room away from a subscriber: not the     *)
(* sweeper that collects empty channels, not another client's subscribe.   *)
Evicts == ev' # ev \/ \E t \in Tenants, r \in Rooms : EvictRoom(t, r)
SubscribersKept ==
    [][\A c \in Conns, r \in Rooms :
          conn[c].sub[r] = "live" /\ conn'[c].sub[r] = "cut" => Evicts]_vars

(* An evicted socket closes, frames or no frames: the keepalive arm checks *)
(* the epoch and outranks the fan-out of a busy room.                      *)
EvictedSocketCloses ==
    \A c \in Conns : Evicted(conn[c]) ~> conn[c].pc = "away"

(* A socket whose token expired closes, however busy its rooms are. *)
ExpiredSocketCloses ==
    \A c \in Conns : conn[c].dl = "past" ~> conn[c].pc = "away"

(* admin_rooms.rs on evicting a room: "a client may re-subscribe to this   *)
(* room immediately": a subscribe that is acknowledged as already there    *)
(* finds a stream that still has its Sender.                               *)
SubscribeIsEffective ==
    [][\A c \in Conns, r \in Rooms :
          Subscribe(c, r) /\ conn[c].sub[r] # "no"
              => conn[c].sub[r] = "live"]_vars
============================================================================
