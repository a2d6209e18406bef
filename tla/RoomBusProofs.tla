--------------------------- MODULE RoomBusProofs ---------------------------
(***************************************************************************)
(* Proofs about RoomBus, for any number of tenants, rooms, connections and *)
(* evictions in flight, and for any buffer and room limits.                *)
(***************************************************************************)
EXTENDS RoomBus, TLAPS

----------------------------------------------------------------------------
(* The inductive invariant.                                                *)

(* A connection's baseline is a value its cell has had. *)
Bases ==
    \A c \in Conns : conn[c].pc # "away" =>
        /\ conn[c].t \in Tenants /\ conn[c].h \in Cells
        /\ conn[c].base <= cell[conn[c].h]

(* An eviction marks connections that were opened already. *)
MarksOld ==
    \A e \in Evictors, c \in Conns, n \in 0 .. MaxConnect :
        <<c, n>> \in ev[e].mark => n <= opened[c]

(* A marked connection is evicted, or the walk has yet to come to it. *)
MarkedGo ==
    \A e \in Evictors : \A c \in OpenConns : <<c, opened[c]>> \in ev[e].mark =>
        /\ ev[e].pc \in {"half", "done"} => Evicted(conn[c])
        /\ ev[e].pc = "walking" =>
              /\ conn[c].t \in ev[e].left
              /\ conn[c].t \in ev[e].seen => Evicted(conn[c])

(* A walk starts with nothing seen. *)
Unseen == \A e \in Evictors : ev[e].pc = "idle" => ev[e].seen = {}

(* Two tenants never share a cell. *)
CellsApart ==
    /\ \A t \in Tenants : epochs[t] <= handles
    /\ \A s, t \in Tenants : s # t /\ epochs[s] # 0 => epochs[s] # epochs[t]

IInv ==
    /\ TypeOK /\ HandleIsCurrent /\ Bases /\ MarksOld /\ MarkedGo /\ Unseen
    /\ CellsApart /\ EvictedHearNothing

----------------------------------------------------------------------------
(* The rows a connection goes through.                                     *)

LEMMA AwayType == Away \in ConnRows
  BY RoomAssumption DEF Away, ConnRows

(* A row after a step of its own loop, or of the bus: the tenant, the cell *)
(* and the baseline are those of the connect, and a connection that is     *)
(* evicted gets a receiver only by an operation that is counted.           *)
Kept(k2, k1) ==
    /\ k2.t = k1.t /\ k2.h = k1.h /\ k2.base = k1.base
    /\ k2.pc # "away" => k1.pc # "away"
    /\ k2.late = 0 => k1.late = 0
    /\ cell[k1.h] # k1.base /\ k2.late = 0 =>
          \A r \in Rooms : k2.sub[r] = "live" => k1.sub[r] = "live"

(* The loop itself drops no Sender. *)
Uncut(k2, k1) == \A r \in Rooms : k2.sub[r] = "cut" => k1.sub[r] = "cut"

Follows(k) == {x \in ConnRows : Kept(x, k) /\ Uncut(x, k)}

LEMMA KeptTwice ==
    ASSUME NEW k, NEW x \in Follows(k), NEW y \in Follows(x)
    PROVE  y \in Follows(k)
  BY DEF Follows, Kept, Uncut

LEMMA RowEdits ==
    ASSUME NEW k \in ConnRows, k.pc # "away"
    PROVE  /\ \A th \in {"loop", "away"}, a \in Rooms \cup {"noroom"} :
                 Sending(k, th, a) \in Follows(k)
           /\ InLoop(k) \in Follows(k)
           /\ \A pc \in {"loop", "checked"} : [k EXCEPT !.pc = pc] \in Follows(k)
           /\ \A r \in Rooms : [k EXCEPT !.pc = "joining", !.arg = r] \in Follows(k)
           /\ [k EXCEPT !.due = TRUE] \in Follows(k)
           /\ [k EXCEPT !.due = FALSE] \in Follows(k)
  <1> USE DEF ConnRows, Follows, Kept, Uncut
  <1>1. ASSUME NEW th \in {"loop", "away"}, NEW a \in Rooms \cup {"noroom"}
        PROVE  Sending(k, th, a) \in Follows(k)
    BY DEF Sending
  <1>2. InLoop(k) \in Follows(k)
    BY DEF InLoop
  <1>3. ASSUME NEW pc \in {"loop", "checked"} PROVE [k EXCEPT !.pc = pc] \in Follows(k)
    OBVIOUS
  <1>4. ASSUME NEW r \in Rooms
        PROVE  [k EXCEPT !.pc = "joining", !.arg = r] \in Follows(k)
    OBVIOUS
  <1>5. [k EXCEPT !.due = TRUE] \in Follows(k) /\ [k EXCEPT !.due = FALSE] \in Follows(k)
    OBVIOUS
  <1> QED BY <1>1, <1>2, <1>3, <1>4, <1>5, Zenon

LEMMA StreamEdits ==
    ASSUME NEW k \in ConnRows
    PROVE  /\ [k EXCEPT !.dl = "past"] \in Follows(k)
           /\ Landed(k) \in Follows(k)
           /\ \A r : WithoutRoom(k, r) \in Follows(k)
           /\ \A r : [k EXCEPT !.sub[r] = "live", !.q[r] = 0] \in ConnRows
           /\ k.pc # "away" => \A r :
                 Landed([k EXCEPT !.sub[r] = "live", !.q[r] = 0]) \in Follows(k)
           /\ \A r \in Rooms : k.q[r] \in 1 .. Buffer =>
                 [k EXCEPT !.q[r] = @ - 1] \in Follows(k)
           /\ \A r \in Rooms : k.q[r] <= Buffer =>
                 [k EXCEPT !.q[r] = @ + 1] \in Follows(k)
           /\ \A D : CutSubs(k, D) \in ConnRows /\ Kept(CutSubs(k, D), k)
  <1> USE RoomAssumption DEF ConnRows, Follows, Kept, Uncut
  <1>1. [k EXCEPT !.dl = "past"] \in Follows(k)
    OBVIOUS
  <1>2. Landed(k) \in Follows(k)
    BY DEF Landed
  <1>3. ASSUME NEW r, NEW s \in {"no", "live"}
        PROVE  LET y == [k EXCEPT !.sub[r] = s, !.q[r] = 0]
               IN  /\ y \in ConnRows /\ y.pc = k.pc /\ y.t = k.t /\ y.h = k.h
                   /\ y.base = k.base /\ y.late = k.late /\ y.sub = [k.sub EXCEPT ![r] = s]
    <2>1. [k.sub EXCEPT ![r] = s] \in [Rooms -> {"no", "live", "cut"}]
      OBVIOUS
    <2>2. [k.q EXCEPT ![r] = 0] \in [Rooms -> 0 .. Buffer + 1]
      <3>1. 0 \in 0 .. Buffer + 1 /\ k.q \in [Rooms -> 0 .. Buffer + 1]
        OBVIOUS
      <3> QED BY <3>1, Zenon
    <2>3. [k EXCEPT !.sub[r] = s, !.q[r] = 0]
             = [k EXCEPT !.sub = [k.sub EXCEPT ![r] = s], !.q = [k.q EXCEPT ![r] = 0]]
      OBVIOUS
    <2>4. ASSUME NEW f \in [Rooms -> {"no", "live", "cut"}], NEW g \in [Rooms -> 0 .. Buffer + 1]
          PROVE  LET y == [k EXCEPT !.sub = f, !.q = g]
                 IN  /\ y \in ConnRows /\ y.pc = k.pc /\ y.t = k.t /\ y.h = k.h
                     /\ y.base = k.base /\ y.late = k.late /\ y.sub = f
      OBVIOUS
    <2> QED BY <2>1, <2>2, <2>3, <2>4, Zenon
  <1>4. ASSUME NEW r
        PROVE  WithoutRoom(k, r) \in Follows(k)
    <2>1. /\ WithoutRoom(k, r) \in ConnRows /\ WithoutRoom(k, r).pc = k.pc
          /\ WithoutRoom(k, r).t = k.t /\ WithoutRoom(k, r).h = k.h
          /\ WithoutRoom(k, r).base = k.base /\ WithoutRoom(k, r).late = k.late
          /\ WithoutRoom(k, r).sub = [k.sub EXCEPT ![r] = "no"]
      BY <1>3, Zenon DEF WithoutRoom
    <2>2. \A x \in Rooms : /\ [k.sub EXCEPT ![r] = "no"][x] = "live" => k.sub[x] = "live"
                           /\ [k.sub EXCEPT ![r] = "no"][x] = "cut" => k.sub[x] = "cut"
      OBVIOUS
    <2> HIDE DEF ConnRows
    <2> QED BY <2>1, <2>2
  <1>8. ASSUME NEW r, k.pc # "away"
        PROVE  Landed([k EXCEPT !.sub[r] = "live", !.q[r] = 0]) \in Follows(k)
    <2> DEFINE y == [k EXCEPT !.sub[r] = "live", !.q[r] = 0]
    <2> SUFFICES Landed(y) \in Follows(k)
      OBVIOUS
    <2>1. /\ y \in ConnRows /\ y.pc = k.pc /\ y.t = k.t /\ y.h = k.h
          /\ y.base = k.base /\ y.late = k.late /\ y.sub = [k.sub EXCEPT ![r] = "live"]
      BY <1>3, Zenon
    <2>2. \A x \in Rooms : [k.sub EXCEPT ![r] = "live"][x] = "cut" => k.sub[x] = "cut"
      OBVIOUS
    <2> HIDE DEF y
    <2>3. CASE Evicted(y) /\ y.late < 2
      <3>1. Landed(y) = [y EXCEPT !.late = @ + 1]
        BY <2>3 DEF Landed
      <3>2. /\ Landed(y) \in ConnRows /\ Landed(y).pc = y.pc /\ Landed(y).t = y.t
            /\ Landed(y).h = y.h /\ Landed(y).base = y.base /\ Landed(y).late # 0
            /\ Landed(y).sub = y.sub
        BY <2>1, <2>3, <3>1
      <3> HIDE DEF ConnRows, Follows
      <3>3. Kept(Landed(y), k)
        BY <2>1, <3>2
      <3>4. Uncut(Landed(y), k)
        BY <2>1, <2>2, <3>2
      <3> QED BY <3>2, <3>3, <3>4 DEF Follows
    <2>4. CASE ~ (Evicted(y) /\ y.late < 2)
      <3>1. Landed(y) = y
        BY <2>4 DEF Landed
      <3>2. cell[k.h] # k.base => y.late # 0
        BY <1>8, <2>1, <2>4 DEF Evicted
      <3> HIDE DEF ConnRows
      <3> QED BY <2>1, <2>2, <3>1, <3>2
    <2> QED BY <2>3, <2>4
  <1>5. ASSUME NEW r \in Rooms, k.q[r] \in 1 .. Buffer
        PROVE  [k EXCEPT !.q[r] = @ - 1] \in Follows(k)
    BY <1>5
  <1>6. ASSUME NEW r \in Rooms, k.q[r] <= Buffer
        PROVE  [k EXCEPT !.q[r] = @ + 1] \in Follows(k)
    BY <1>6
  <1>7. ASSUME NEW D PROVE CutSubs(k, D) \in ConnRows /\ Kept(CutSubs(k, D), k)
    BY DEF CutSubs
  <1>9. \A r : [k EXCEPT !.sub[r] = "live", !.q[r] = 0] \in ConnRows
    BY <1>3, Zenon
  <1> HIDE RoomAssumption DEF ConnRows, Follows, Kept, Uncut
  <1> QED BY <1>1, <1>2, <1>4, <1>5, <1>6, <1>7, <1>8, <1>9

----------------------------------------------------------------------------
(* Steps that leave the epochs, the cells and the evictions alone.         *)

(* Every connection keeps its connect, or closes. *)
Moves ==
    /\ conn' \in [Conns -> ConnRows]
    /\ \A d \in Conns : conn'[d].pc = "away" \/ Kept(conn'[d], conn[d])

Uncuts == \A d \in Conns : Uncut(conn'[d], conn[d])

LEMMA UpdateMoves ==
    ASSUME conn \in [Conns -> ConnRows], NEW c \in Conns,
           NEW k \in Follows(conn[c]) \cup {Away}, Update(c, k)
    PROVE  Moves /\ Uncuts
  <1>1. k \in ConnRows /\ (k.pc = "away" \/ Kept(k, conn[c])) /\ Uncut(k, conn[c])
    <2>1. Away.pc = "away" /\ Uncut(Away, conn[c])
      BY DEF Away, Uncut
    <2> QED BY <2>1, AwayType, Zenon DEF Follows
  <1>2. conn' \in [Conns -> ConnRows] /\ conn'[c] = k
        /\ \A d \in Conns \ {c} : conn'[d] = conn[d]
    BY <1>1 DEF Update
  <1>3. \A d \in Conns : Kept(conn[d], conn[d]) /\ Uncut(conn[d], conn[d])
    BY DEF Kept, Uncut
  <1> QED BY <1>1, <1>2, <1>3 DEF Moves, Uncuts

LEMMA DropMoves ==
    ASSUME TypeOK, NEW D, DropSenders(D)
    PROVE  Moves /\ chan' \in [Tenants -> [Rooms -> BOOLEAN]]
  <1>1. chan' \in [Tenants -> [Rooms -> BOOLEAN]]
    BY DEF DropSenders
  <1>2. \A c \in Conns : conn[c] \in ConnRows
    BY DEF TypeOK
  <1>3. \A c \in Conns : CutSubs(conn[c], D) \in ConnRows
                        /\ Kept(CutSubs(conn[c], D), conn[c])
    BY <1>2, StreamEdits
  <1>4. conn' = [c \in Conns |-> CutSubs(conn[c], D)]
    BY DEF DropSenders
  <1> QED BY <1>1, <1>3, <1>4 DEF Moves

LEMMA DeliverRows ==
    ASSUME NEW cn \in [Conns -> ConnRows], NEW t, NEW r \in Rooms
    PROVE  /\ Deliver(cn, t, r) \in [Conns -> ConnRows]
           /\ \A d \in Conns : Kept(Deliver(cn, t, r)[d], cn[d])
                              /\ Uncut(Deliver(cn, t, r)[d], cn[d])
  <1>1. ASSUME NEW c \in Conns, cn[c].q[r] <= Buffer
        PROVE  [cn[c] EXCEPT !.q[r] = @ + 1] \in Follows(cn[c])
    BY <1>1, StreamEdits
  <1>2. \A d \in Conns : Kept(cn[d], cn[d]) /\ Uncut(cn[d], cn[d])
    BY DEF Kept, Uncut
  <1>3. \A d \in Conns : /\ Deliver(cn, t, r)[d] \in ConnRows
                        /\ Kept(Deliver(cn, t, r)[d], cn[d])
                        /\ Uncut(Deliver(cn, t, r)[d], cn[d])
    BY <1>1, <1>2 DEF Deliver, Follows
  <1>4. Deliver(cn, t, r) \in [Conns -> ConnRows]
    BY <1>3 DEF Deliver
  <1> QED BY <1>3, <1>4

(* The answers of an operation. *)
LEMMA AnswerRows ==
    ASSUME NEW k \in ConnRows, k.pc # "away", NEW x \in Follows(k), x.pc = k.pc
    PROVE  \A a \in Answers(x) : a \in Follows(k)
  <1>1. x \in ConnRows /\ x.pc # "away"
    BY DEF Follows
  <1>2. \A a \in Answers(x) : a \in Follows(x)
    BY <1>1, RowEdits DEF Answers
  <1> QED BY <1>2, KeptTwice

LEMMA LandedPc ==
    ASSUME NEW k \in ConnRows
    PROVE  /\ Landed(k).pc = k.pc
           /\ \A r : WithoutRoom(k, r).pc = k.pc
           /\ \A r : [k EXCEPT !.sub[r] = "live", !.q[r] = 0].pc = k.pc
  BY DEF Landed, WithoutRoom, ConnRows

(* The steps of a connection that is open. *)
LoopOrPeer(c) ==
    \/ LoopStep(c) \/ FrameArm(c) \/ (\E r \in Rooms : FanOut(c, r))
    \/ KeepaliveDue(c) \/ DeadlinePasses(c) \/ Sent(c) \/ Hangup(c)

LEMMA ConnMoves ==
    ASSUME TypeOK, NEW c \in Conns, LoopOrPeer(c)
    PROVE  Moves /\ Uncuts
  <1> DEFINE k == conn[c]
  <1>1. k \in ConnRows /\ conn \in [Conns -> ConnRows]
    BY DEF TypeOK
  <1>2. ASSUME NEW x \in Follows(k), Update(c, x) PROVE Moves /\ Uncuts
    BY <1>1, <1>2, UpdateMoves
  <1>3. ASSUME Update(c, Away) PROVE Moves /\ Uncuts
    BY <1>1, <1>3, UpdateMoves
  <1>4. ASSUME NEW x \in Follows(k), x.pc = k.pc, k.pc # "away",
               \E a \in Answers(x) : Update(c, a)
        PROVE  Moves /\ Uncuts
    BY <1>1, <1>2, <1>4, AnswerRows
  <1>5. k \in Follows(k)
    BY <1>1 DEF Follows, Kept, Uncut
  <1> HIDE DEF k
  <1>6. CASE OpenSocket(c)
    BY <1>1, <1>2, <1>6, RowEdits DEF OpenSocket, k
  <1>7. CASE ExpiryArm(c)
    BY <1>1, <1>2, <1>7, RowEdits DEF ExpiryArm, k
  <1>8. CASE KeepaliveArm(c)
    <2> DEFINE x == [k EXCEPT !.due = FALSE]
               th == IF Evicted(k) THEN "away" ELSE "loop"
    <2>1. k.pc = "loop" /\ Update(c, Sending(x, th, "noroom"))
      BY <1>8 DEF KeepaliveArm, k
    <2>2. x \in Follows(k) /\ x.pc # "away" /\ th \in {"loop", "away"}
      BY <1>1, <2>1, RowEdits DEF ConnRows
    <2>3. x \in ConnRows
      BY <2>2 DEF Follows
    <2> HIDE DEF x, th
    <2>4. Sending(x, th, "noroom") \in Follows(x)
      BY <2>2, <2>3, RowEdits
    <2> QED BY <1>2, <2>1, <2>2, <2>4, KeptTwice
  <1>9. CASE FrameArm(c)
    BY <1>1, <1>2, <1>9, RowEdits DEF FrameArm, k
  <1>10. CASE \E r \in Rooms : Subscribe(c, r)
    <2>1. PICK r \in Rooms : Subscribe(c, r)
      BY <1>10
    <2>2. k.pc = "checked"
      BY <2>1 DEF Subscribe, k
    <2>3. \/ \E a \in Answers(k) : Update(c, a)
          \/ Update(c, [k EXCEPT !.pc = "joining", !.arg = r])
      BY <2>1 DEF Subscribe, k
    <2> QED BY <1>1, <1>2, <1>4, <1>5, <2>2, <2>3, RowEdits
  <1>11. CASE \E r \in Rooms : Unsubscribe(c, r)
    <2>1. PICK r \in Rooms : Unsubscribe(c, r)
      BY <1>11
    <2>2. k.pc = "checked" /\ \E a \in Answers(Landed(WithoutRoom(k, r))) : Update(c, a)
      BY <2>1 DEF Unsubscribe, k
    <2>3. WithoutRoom(k, r) \in Follows(k) /\ WithoutRoom(k, r) \in ConnRows
          /\ WithoutRoom(k, r).pc = k.pc
      BY <1>1, StreamEdits, LandedPc DEF Follows
    <2>4. Landed(WithoutRoom(k, r)) \in Follows(k)
          /\ Landed(WithoutRoom(k, r)).pc = k.pc
      BY <2>3, StreamEdits, LandedPc, KeptTwice
    <2> QED BY <1>4, <2>2, <2>4
  <1>12. CASE \E r \in Rooms : Publish(c, r)
    <2>1. PICK r \in Rooms : Publish(c, r)
      BY <1>12
    <2>2. PICK a \in Answers(Landed(k)) :
             k.pc = "checked" /\ conn' = Deliver([conn EXCEPT ![c] = a], k.t, r)
      BY <2>1 DEF Publish, k
    <2>3. a \in Follows(k)
      BY <1>1, <2>2, StreamEdits, LandedPc, AnswerRows
    <2> DEFINE cn == [conn EXCEPT ![c] = a]
    <2>4. cn \in [Conns -> ConnRows]
          /\ \A d \in Conns : Kept(cn[d], conn[d]) /\ Uncut(cn[d], conn[d])
      <3>1. \A d \in Conns : Kept(conn[d], conn[d]) /\ Uncut(conn[d], conn[d])
        BY DEF Kept, Uncut
      <3>2. a \in ConnRows /\ Kept(a, conn[c]) /\ Uncut(a, conn[c])
        BY <2>3 DEF Follows, k
      <3> QED BY <1>1, <3>1, <3>2
    <2>5. conn' = Deliver(cn, k.t, r)
      BY <2>2
    <2> HIDE DEF cn
    <2>6. /\ conn' \in [Conns -> ConnRows]
          /\ \A d \in Conns : Kept(conn'[d], cn[d]) /\ Uncut(conn'[d], cn[d])
      BY <2>4, <2>5, DeliverRows
    <2> QED BY <2>4, <2>6 DEF Moves, Uncuts, Kept, Uncut
  <1>13. CASE AnswerOnly(c)
    BY <1>1, <1>4, <1>5, <1>13 DEF AnswerOnly, k
  <1>14. CASE Join(c)
    <2> DEFINE x == [k EXCEPT !.sub[k.arg] = "live", !.q[k.arg] = 0]
    <2>1. k.pc = "joining" /\ \E a \in Answers(Landed(x)) : Update(c, a)
      BY <1>14 DEF Join, k
    <2>2. x \in ConnRows /\ x.pc = k.pc /\ Landed(x) \in Follows(k)
      BY <1>1, <2>1, StreamEdits, LandedPc
    <2> HIDE DEF x
    <2>3. Landed(x).pc = k.pc
      BY <2>2, LandedPc
    <2> QED BY <1>4, <2>1, <2>2, <2>3
  <1>15. CASE \E r \in Rooms : FanOut(c, r)
    <2>1. PICK r \in Rooms : FanOut(c, r)
      BY <1>15
    <2>2. k.pc = "loop"
      BY <2>1 DEF FanOut, k
    <2>3. CASE k.q[r] \in 1 .. Buffer
               /\ Update(c, Sending([k EXCEPT !.q[r] = @ - 1], "loop", "noroom"))
      <3> DEFINE x == [k EXCEPT !.q[r] = @ - 1]
      <3>1. x \in Follows(k)
        BY <1>1, <2>3, StreamEdits
      <3>2. x \in ConnRows /\ x.pc # "away"
        BY <1>1, <2>2, <3>1 DEF Follows, ConnRows
      <3> HIDE DEF x
      <3>3. Sending(x, "loop", "noroom") \in Follows(x)
        BY <3>2, RowEdits
      <3>4. Update(c, Sending(x, "loop", "noroom"))
        BY <2>3 DEF x
      <3> QED BY <1>2, <3>1, <3>3, <3>4, KeptTwice
    <2>4. CASE Update(c, Sending(k, "loop", r))
      BY <1>1, <1>2, <2>2, <2>4, RowEdits
    <2>5. CASE Update(c, WithoutRoom(k, r))
      BY <1>1, <1>2, <2>5, StreamEdits
    <2> QED BY <2>1, <2>3, <2>4, <2>5 DEF FanOut, k
  <1>16. CASE KeepaliveDue(c)
    BY <1>1, <1>2, <1>16, RowEdits DEF KeepaliveDue, k
  <1>17. CASE DeadlinePasses(c)
    BY <1>1, <1>2, <1>17, StreamEdits DEF DeadlinePasses, k
  <1>18. CASE Sent(c)
    <2>1. k.pc = "sending"
      BY <1>18 DEF Sent, k
    <2>2. CASE k.then = "away"
      BY <1>3, <1>18, <2>2 DEF Sent, k
    <2>3. CASE k.then # "away" /\ k.arg = "noroom"
      <3>1. Update(c, InLoop(k))
        BY <1>1, <1>18, <2>3 DEF Sent, k, ConnRows
      <3> QED BY <1>1, <1>2, <2>1, <3>1, RowEdits
    <2>4. CASE k.then # "away" /\ k.arg # "noroom"
      <3>1. Update(c, InLoop(WithoutRoom(k, k.arg)))
        BY <1>18, <2>4 DEF Sent, k
      <3>2. WithoutRoom(k, k.arg) \in Follows(k)
            /\ WithoutRoom(k, k.arg) \in ConnRows
            /\ WithoutRoom(k, k.arg).pc # "away"
        BY <1>1, <2>1, StreamEdits, LandedPc DEF Follows
      <3>3. InLoop(WithoutRoom(k, k.arg)) \in Follows(k)
        BY <3>2, RowEdits, KeptTwice
      <3> QED BY <1>2, <3>1, <3>3
    <2> QED BY <2>2, <2>3, <2>4
  <1>19. CASE Hangup(c)
    BY <1>3, <1>19 DEF Hangup
  <1> QED BY <1>6, <1>7, <1>8, <1>9, <1>10, <1>11, <1>12, <1>13, <1>14, <1>15,
             <1>16, <1>17, <1>18, <1>19 DEF LoopOrPeer, LoopStep, Dispatch

(* What such a step leaves of the invariant: everything. *)
LEMMA MovesInv ==
    ASSUME IInv, Moves, UNCHANGED <<epochs, cell, handles, opened, ev>>,
           chan' \in [Tenants -> [Rooms -> BOOLEAN]]
    PROVE  IInv'
  <1>1. TypeOK'
    BY DEF IInv, TypeOK, Moves
  <1>2. \A d \in OpenConns' : d \in OpenConns /\ Kept(conn'[d], conn[d])
    BY DEF OpenConns, Moves, Kept
  <1>3. HandleIsCurrent' /\ Bases'
    BY DEF IInv, HandleIsCurrent, Bases, Moves, Kept
  <1>4. MarksOld'
    BY DEF IInv, MarksOld
  <1>5. \A d \in OpenConns' : Evicted(conn[d]) => Evicted(conn[d])'
    BY <1>2 DEF Evicted, Kept, OpenConns
  <1>6. MarkedGo'
    BY <1>2, <1>5 DEF IInv, MarkedGo, Kept
  <1>7. Unseen' /\ CellsApart'
    BY DEF IInv, Unseen, CellsApart
  <1>8. EvictedHearNothing'
    <2> SUFFICES ASSUME NEW d \in Conns, Evicted(conn[d])', ~ HalfDone(conn[d].t)',
                        conn'[d].late = 0, NEW r \in Rooms
                 PROVE  conn'[d].sub[r] # "live"
      BY DEF EvictedHearNothing
    <2>1. Kept(conn'[d], conn[d]) /\ conn[d].pc # "away"
      BY <1>2 DEF Evicted, OpenConns
    <2>2. Evicted(conn[d]) /\ cell[conn[d].h] # conn[d].base /\ conn[d].late = 0
      BY <2>1 DEF Evicted, Kept
    <2>3. ~ HalfDone(conn[d].t)
      BY <2>1 DEF HalfDone, Kept
    <2> QED BY <2>1, <2>2, <2>3 DEF IInv, EvictedHearNothing, Kept
  <1> QED BY <1>1, <1>3, <1>4, <1>6, <1>7, <1>8 DEF IInv

LEMMA ConnInv ==
    ASSUME IInv, NEW c \in Conns, LoopOrPeer(c)
    PROVE  IInv'
  <1>1. Moves
    BY ConnMoves DEF IInv
  <1>2. chan' \in [Tenants -> [Rooms -> BOOLEAN]]
        /\ UNCHANGED <<epochs, cell, handles, opened, ev>>
    <2>1. CASE Join(c)
      BY <2>1 DEF Join, IInv, TypeOK
    <2>2. CASE OnlyConn
      BY <2>2 DEF OnlyConn, IInv, TypeOK
    <2> QED BY <2>1, <2>2 DEF LoopOrPeer, LoopStep, Dispatch, OpenSocket, ExpiryArm,
               KeepaliveArm, Subscribe, Unsubscribe, Publish, AnswerOnly, FrameArm,
               FanOut, KeepaliveDue, DeadlinePasses, Sent, Hangup
  <1> QED BY <1>1, <1>2, MovesInv

LEMMA BusInv ==
    ASSUME IInv, NEW t \in Tenants,
           SweepEmpty(t) \/ \E r \in Rooms : EvictRoom(t, r) \/ RestPublish(t, r)
    PROVE  IInv'
  <1>1. CASE SweepEmpty(t) \/ \E r \in Rooms : EvictRoom(t, r)
    <2>1. PICK D : DropSenders(D)
      BY <1>1 DEF SweepEmpty, EvictRoom
    <2> QED BY <1>1, <2>1, DropMoves, MovesInv DEF SweepEmpty, EvictRoom, IInv
  <1>2. CASE \E r \in Rooms : RestPublish(t, r)
    <2>1. PICK r \in Rooms : RestPublish(t, r)
      BY <1>2
    <2>2. conn \in [Conns -> ConnRows] /\ chan \in [Tenants -> [Rooms -> BOOLEAN]]
      BY DEF IInv, TypeOK
    <2>3. Moves
      BY <2>1, <2>2, DeliverRows DEF RestPublish, Moves
    <2> QED BY <2>1, <2>2, <2>3, MovesInv DEF RestPublish
  <1> QED BY <1>1, <1>2

----------------------------------------------------------------------------
(* A connect.                                                              *)

LEMMA EntryFacts ==
    ASSUME TypeOK, NEW t \in Tenants, TakeEntry(t)
    PROVE  /\ Entry(t) \in Cells /\ Entry(t) # 0 /\ Entry(t) \in 0 .. MaxHandle
           /\ epochs' \in [Tenants -> 0 .. MaxHandle]
           /\ epochs'[t] = Entry(t)
           /\ \A s \in Tenants : epochs[s] # 0 => epochs'[s] = epochs[s]
           /\ handles' \in 0 .. MaxHandle
  <1>1. Entry(t) \in Cells /\ epochs' = [epochs EXCEPT ![t] = Entry(t)]
    BY DEF TakeEntry
  <1>2. Entry(t) # 0 /\ Entry(t) \in 0 .. MaxHandle
    BY <1>1, RoomAssumption DEF Cells
  <1>3. epochs' \in [Tenants -> 0 .. MaxHandle] /\ epochs'[t] = Entry(t)
    BY <1>1, <1>2 DEF TypeOK
  <1>4. \A s \in Tenants : epochs[s] # 0 => epochs'[s] = epochs[s]
    BY <1>1 DEF TypeOK, Entry
  <1>5. handles' \in 0 .. MaxHandle
    BY <1>2 DEF TakeEntry, Entry, TypeOK
  <1> QED BY <1>1, <1>2, <1>3, <1>4, <1>5

LEMMA EntryApart ==
    ASSUME IInv, NEW t \in Tenants, TakeEntry(t)
    PROVE  /\ CellsApart'
           /\ \A c \in Conns : conn[c].pc # "away" /\ conn[c].h = Entry(t) => conn[c].t = t
  <1>1. /\ epochs \in [Tenants -> 0 .. MaxHandle] /\ handles \in 0 .. MaxHandle
        /\ epochs' = [epochs EXCEPT ![t] = Entry(t)]
        /\ handles' = IF epochs[t] = 0 THEN handles + 1 ELSE handles
    BY DEF IInv, TypeOK, TakeEntry
  <1>2. \A s \in Tenants \ {t} : epochs'[s] = epochs[s] /\ epochs[s] # Entry(t)
    BY <1>1 DEF IInv, CellsApart, Entry
  <1>3. \A s \in Tenants : epochs'[s] <= handles'
    BY <1>1 DEF IInv, CellsApart, Entry
  <1>4. epochs'[t] = Entry(t)
    BY <1>1
  <1>5. CellsApart'
    BY <1>2, <1>3, <1>4 DEF IInv, CellsApart
  <1>6. \A c \in Conns : conn[c].pc # "away" => conn[c].h = epochs[conn[c].t] /\ conn[c].t \in Tenants
    BY DEF IInv, HandleIsCurrent, Bases
  <1> QED BY <1>2, <1>5, <1>6

LEMMA CaptureInv ==
    ASSUME IInv, NEW c \in Conns, NEW t \in Tenants, NEW d \in Deadlines,
           Capture(c, t, d)
    PROVE  IInv'
  <1> DEFINE k == [Away EXCEPT !.pc = "captured", !.t = t, !.h = Entry(t),
                               !.base = cell[Entry(t)], !.dl = d]
  <1>1. /\ TypeOK /\ TakeEntry(t) /\ conn[c].pc = "away" /\ opened[c] < MaxConnect
        /\ opened' = [opened EXCEPT ![c] = @ + 1] /\ conn' = [conn EXCEPT ![c] = k]
        /\ UNCHANGED <<cell, chan, ev>>
    BY DEF Capture, Update, IInv
  <1>2. cell[Entry(t)] \in Nat
    BY <1>1, EntryFacts DEF TypeOK
  <1>3. k \in ConnRows /\ k.t = t /\ k.h = Entry(t) /\ k.base = cell[Entry(t)]
    <2>1. d \in {"none", "future", "past"} /\ Entry(t) \in 0 .. MaxHandle
      BY <1>1, EntryFacts, RoomAssumption
    <2>2. ASSUME NEW x \in ConnRows
          PROVE  LET y == [x EXCEPT !.pc = "captured", !.t = t, !.h = Entry(t),
                                    !.base = cell[Entry(t)], !.dl = d]
                 IN  y \in ConnRows /\ y.t = t /\ y.h = Entry(t) /\ y.base = cell[Entry(t)]
      BY <1>2, <2>1 DEF ConnRows
    <2> QED BY <2>2, AwayType
  <1> HIDE DEF k
  <1>4. /\ conn' \in [Conns -> ConnRows] /\ conn'[c] = k
        /\ \A x \in Conns \ {c} : conn'[x] = conn[x]
    BY <1>1, <1>3 DEF TypeOK
  <1>5. /\ opened' \in [Conns -> 0 .. MaxConnect]
        /\ opened'[c] = opened[c] + 1
        /\ \A x \in Conns \ {c} : opened'[x] = opened[x]
    BY <1>1, RoomAssumption DEF TypeOK
  <1>6. TypeOK'
    BY <1>1, <1>4, <1>5, EntryFacts DEF TypeOK
  <1>7. \A x \in Conns \ {c} : conn[x].pc # "away" => epochs[conn[x].t] # 0
    BY RoomAssumption DEF IInv, HandleIsCurrent, Bases, Cells
  <1>8. HandleIsCurrent'
    BY <1>1, <1>3, <1>4, <1>7, EntryFacts DEF IInv, HandleIsCurrent, Bases
  <1>9. Bases'
    <2>1. k.base <= cell[k.h] /\ k.h \in Cells
      BY <1>1, <1>2, <1>3, EntryFacts
    <2> QED BY <1>1, <1>3, <1>4, <2>1 DEF IInv, Bases
  <1>10. MarksOld'
    BY <1>1, <1>5 DEF IInv, MarksOld, TypeOK
  <1>11. \A e \in Evictors : <<c, opened'[c]>> \notin ev[e].mark
    BY <1>1, <1>5 DEF IInv, MarksOld, TypeOK
  <1>12. \A x \in Conns \ {c} : Evicted(conn[x]) => Evicted(conn[x])'
    BY <1>1, <1>4 DEF Evicted
  <1>13. MarkedGo'
    BY <1>1, <1>4, <1>5, <1>11, <1>12 DEF IInv, MarkedGo, OpenConns
  <1>14. Unseen' /\ CellsApart'
    BY <1>1, EntryApart DEF IInv, Unseen
  <1>15. EvictedHearNothing'
    <2>1. ~ Evicted(conn[c])'
      BY <1>1, <1>3, <1>4 DEF Evicted
    <2>2. \A x \in Conns \ {c} : Evicted(conn[x])' => Evicted(conn[x])
      BY <1>1, <1>4 DEF Evicted
    <2>3. \A t2 : HalfDone(t2)' <=> HalfDone(t2)
      BY <1>1 DEF HalfDone
    <2> QED BY <1>4, <2>1, <2>2, <2>3 DEF IInv, EvictedHearNothing
  <1> QED BY <1>6, <1>8, <1>9, <1>10, <1>13, <1>14, <1>15 DEF IInv

----------------------------------------------------------------------------
(* Evictions.                                                              *)

(* A bump evicts the connections of its cell and no evicted one is spared. *)
LEMMA BumpFacts ==
    ASSUME IInv, NEW h \in Cells, cell' = [cell EXCEPT ![h] = @ + 1], UNCHANGED conn
    PROVE  /\ cell' \in [Cells -> Nat] /\ Bases'
           /\ \A x \in OpenConns : Evicted(conn[x]) => Evicted(conn[x])'
           /\ \A x \in OpenConns : conn[x].h = h => Evicted(conn[x])'
           /\ \A x \in Conns : Evicted(conn[x])' /\ conn[x].h # h => Evicted(conn[x])
  <1>1. /\ cell' \in [Cells -> Nat]
        /\ cell'[h] = cell[h] + 1
        /\ \A g \in Cells : cell[g] \in Nat /\ cell'[g] \in Nat /\ cell[g] <= cell'[g]
    BY DEF IInv, TypeOK
  <1>2. \A x \in OpenConns : /\ conn[x].h \in Cells /\ conn[x].base \in Nat
                            /\ conn[x].base <= cell[conn[x].h]
    BY DEF IInv, TypeOK, ConnRows, Bases, OpenConns
  <1>3. Bases'
    <2>1. \A x \in Conns : conn[x].pc # "away" => conn[x].base <= cell'[conn[x].h]
      BY <1>1, <1>2 DEF OpenConns
    <2> QED BY <2>1 DEF Bases, IInv
  <1>4. \A x \in OpenConns : Evicted(conn[x]) => Evicted(conn[x])'
    BY <1>1, <1>2 DEF Evicted
  <1>5. \A x \in OpenConns : conn[x].h = h => Evicted(conn[x])'
    BY <1>1, <1>2 DEF Evicted, OpenConns
  <1>6. \A x \in Conns : Evicted(conn[x])' /\ conn[x].h # h => Evicted(conn[x])
    BY <1>2 DEF Evicted, OpenConns, IInv, TypeOK
  <1> QED BY <1>1, <1>3, <1>4, <1>5, <1>6

(* A mark that is taken now names the connections as they are. *)
LEMMA MarkType ==
    ASSUME TypeOK, NEW S \in SUBSET Conns
    PROVE  /\ {<<c, opened[c]>> : c \in S} \in SUBSET (Conns \X (0 .. MaxConnect))
           /\ \A c, n : <<c, n>> \in {<<x, opened[x]>> : x \in S} => c \in S /\ n = opened[c]
  BY DEF TypeOK

LEMMA EvictBeginsInv ==
    ASSUME IInv, NEW e \in Evictors, NEW t \in Tenants,
           EvictBegins(e, t), BumpEpoch(t), UNCHANGED <<chan, conn>>
    PROVE  IInv'
  <1> DEFINE S == {d \in Conns : conn[d].t = t}
             M == {<<c, opened[c]>> : c \in S}
  <1>1. /\ TypeOK /\ TakeEntry(t) /\ cell' = [cell EXCEPT ![Entry(t)] = @ + 1]
        /\ ev' = [ev EXCEPT ![e].pc = "half", ![e].t = t, ![e].mark = M]
        /\ UNCHANGED <<chan, conn, opened>>
    BY DEF EvictBegins, BumpEpoch, IInv
  <1>2. /\ M \in SUBSET (Conns \X (0 .. MaxConnect))
        /\ \A c, n : <<c, n>> \in M => c \in S /\ n = opened[c]
    BY <1>1, MarkType
  <1> HIDE DEF M
  <1>3. /\ ev' \in [Evictors -> EvRows]
        /\ ev'[e].pc = "half" /\ ev'[e].mark = M /\ ev'[e].t = t
        /\ \A f \in Evictors \ {e} : ev'[f] = ev[f]
    <2>1. [ev[e] EXCEPT !.pc = "half", !.t = t, !.mark = M] \in EvRows
          /\ [ev[e] EXCEPT !.pc = "half", !.t = t, !.mark = M].pc = "half"
          /\ [ev[e] EXCEPT !.pc = "half", !.t = t, !.mark = M].mark = M
          /\ [ev[e] EXCEPT !.pc = "half", !.t = t, !.mark = M].t = t
      BY <1>1, <1>2 DEF TypeOK, EvRows
    <2>2. ev' = [ev EXCEPT ![e] = [ev[e] EXCEPT !.pc = "half", !.t = t, !.mark = M]]
      BY <1>1 DEF TypeOK
    <2> QED BY <1>1, <2>1, <2>2 DEF TypeOK
  <1>4. Entry(t) \in Cells
    BY <1>1, EntryFacts
  <1>5. /\ cell' \in [Cells -> Nat] /\ Bases'
        /\ \A x \in OpenConns : Evicted(conn[x]) => Evicted(conn[x])'
        /\ \A x \in OpenConns : conn[x].h = Entry(t) => Evicted(conn[x])'
        /\ \A x \in Conns : Evicted(conn[x])' /\ conn[x].h # Entry(t) => Evicted(conn[x])
    BY <1>1, <1>4, BumpFacts
  <1>6. TypeOK'
    BY <1>1, <1>3, <1>5, EntryFacts DEF TypeOK
  <1>7. \A x \in OpenConns : /\ conn[x].t \in Tenants /\ conn[x].h = epochs[conn[x].t]
                            /\ epochs[conn[x].t] # 0
    BY RoomAssumption DEF IInv, HandleIsCurrent, Bases, Cells, OpenConns
  <1>8. HandleIsCurrent'
    BY <1>1, <1>7, EntryFacts DEF HandleIsCurrent, OpenConns
  <1>9. MarksOld'
    <2>1. \A c \in Conns, n \in 0 .. MaxConnect : <<c, n>> \in M => n <= opened[c]
      BY <1>1, <1>2 DEF TypeOK
    <2> QED BY <1>1, <1>3, <2>1 DEF IInv, MarksOld
  <1>10. \A x \in OpenConns : x \in S => conn[x].h = Entry(t)
    BY <1>7 DEF Entry
  <1>11. MarkedGo'
    <2>1. OpenConns' = OpenConns
      BY <1>1 DEF OpenConns
    <2>2. \A x \in OpenConns : <<x, opened[x]>> \in M => Evicted(conn[x])'
      BY <1>2, <1>5, <1>10
    <2>3. \A f \in Evictors \ {e} : \A x \in OpenConns :
             <<x, opened'[x]>> \in ev'[f].mark =>
                /\ ev'[f].pc \in {"half", "done"} => Evicted(conn[x])'
                /\ ev'[f].pc = "walking" =>
                      /\ conn'[x].t \in ev'[f].left
                      /\ conn'[x].t \in ev'[f].seen => Evicted(conn[x])'
      BY <1>1, <1>3, <1>5 DEF IInv, MarkedGo
    <2> QED BY <1>1, <1>3, <2>1, <2>2, <2>3 DEF MarkedGo
  <1>12. Unseen' /\ CellsApart'
    BY <1>1, <1>3, EntryApart DEF IInv, Unseen
  <1>13. EvictedHearNothing'
    <2>1. HalfDone(t)'
      BY <1>3 DEF HalfDone
    <2>2. \A s : HalfDone(s) => HalfDone(s)'
      <3>1. ev[e].pc = "idle"
        BY DEF EvictBegins
      <3> QED BY <1>3, <3>1 DEF HalfDone
    <2>3. \A x \in Conns : Evicted(conn[x])' /\ conn[x].t # t => Evicted(conn[x])
      BY <1>1, <1>5, EntryApart DEF Evicted
    <2> QED BY <1>1, <2>1, <2>2, <2>3 DEF IInv, EvictedHearNothing
  <1> QED BY <1>5, <1>6, <1>8, <1>9, <1>11, <1>12, <1>13 DEF IInv

(* The call returns: its channels go, all that it marked being evicted. *)
LEMMA EvictReturnsInv ==
    ASSUME IInv, NEW e \in Evictors, NEW D, DropSenders(D),
           UNCHANGED <<epochs, cell, handles, opened>>,
           ev' = [ev EXCEPT ![e].pc = "done"],
           \A s \in Tenants, r \in Rooms :
              \/ ev[e].pc = "walking" /\ <<s, r>> \in D
              \/ ev[e].pc = "half" /\ (ev[e].t = s => <<s, r>> \in D),
           \A x \in OpenConns : <<x, opened[x]>> \in ev[e].mark => Evicted(conn[x])
    PROVE  IInv'
  <1>1. Moves /\ chan' \in [Tenants -> [Rooms -> BOOLEAN]]
    BY DropMoves DEF IInv
  <1>2. /\ ev' \in [Evictors -> EvRows]
        /\ ev'[e].pc = "done" /\ ev'[e].mark = ev[e].mark
        /\ \A f \in Evictors \ {e} : ev'[f] = ev[f]
    <2>1. ev \in [Evictors -> EvRows]
      BY DEF IInv, TypeOK
    <2>2. [ev[e] EXCEPT !.pc = "done"] \in EvRows
          /\ [ev[e] EXCEPT !.pc = "done"].pc = "done"
          /\ [ev[e] EXCEPT !.pc = "done"].mark = ev[e].mark
      BY <2>1 DEF EvRows
    <2> QED BY <2>1, <2>2
  <1>3. TypeOK'
    BY <1>1, <1>2 DEF IInv, TypeOK, Moves
  <1>4. \A d \in OpenConns' : d \in OpenConns /\ Kept(conn'[d], conn[d])
    BY <1>1 DEF OpenConns, Moves, Kept
  <1>5. HandleIsCurrent' /\ Bases'
    BY <1>1 DEF IInv, HandleIsCurrent, Bases, Moves, Kept
  <1>6. MarksOld'
    BY <1>2 DEF IInv, MarksOld
  <1>7. \A d \in OpenConns' : Evicted(conn[d]) => Evicted(conn[d])'
    BY <1>4 DEF Evicted, Kept, OpenConns
  <1>8. MarkedGo'
    <2>1. \A d \in OpenConns' : <<d, opened'[d]>> \in ev'[e].mark => Evicted(conn[d])'
      BY <1>2, <1>4, <1>7
    <2>2. \A f \in Evictors \ {e} : \A x \in OpenConns' :
             <<x, opened'[x]>> \in ev'[f].mark =>
                /\ ev'[f].pc \in {"half", "done"} => Evicted(conn[x])'
                /\ ev'[f].pc = "walking" =>
                      /\ conn'[x].t \in ev'[f].left
                      /\ conn'[x].t \in ev'[f].seen => Evicted(conn[x])'
      BY <1>2, <1>4, <1>7 DEF IInv, MarkedGo, Kept
    <2> QED BY <1>2, <2>1, <2>2 DEF MarkedGo
  <1>9. Unseen' /\ CellsApart'
    BY <1>2 DEF IInv, Unseen, CellsApart
  <1>10. EvictedHearNothing'
    <2> SUFFICES ASSUME NEW d \in Conns, Evicted(conn[d])', ~ HalfDone(conn[d].t)',
                        conn'[d].late = 0, NEW r \in Rooms, conn'[d].sub[r] = "live"
                 PROVE  FALSE
      BY DEF EvictedHearNothing
    <2>1. d \in OpenConns /\ Kept(conn'[d], conn[d])
      BY <1>1, <1>4 DEF Evicted, Moves, OpenConns
    <2>2. Evicted(conn[d]) /\ cell[conn[d].h] # conn[d].base /\ conn[d].late = 0
      BY <2>1 DEF Evicted, Kept, OpenConns
    <2>3. conn[d].t \in Tenants /\ conn[d].sub \in [Rooms -> {"no", "live", "cut"}]
      BY <2>1 DEF IInv, Bases, OpenConns, TypeOK, ConnRows
    <2>4. <<conn[d].t, r>> \notin D /\ conn[d].sub[r] = "live"
      <3>1. conn'[d] = CutSubs(conn[d], D)
        BY DEF DropSenders
      <3>2. conn[d] \in ConnRows
        BY DEF IInv, TypeOK
      <3>3. conn'[d].sub[r] = IF conn[d].sub[r] = "live" /\ <<conn[d].t, r>> \in D
                              THEN "cut" ELSE conn[d].sub[r]
        BY <3>1, <3>2 DEF CutSubs, ConnRows
      <3> QED BY <3>3
    <2>5. ev[e].pc = "half" /\ ev[e].t # conn[d].t
      BY <2>3, <2>4
    <2>6. ~ HalfDone(conn[d].t)
      <3>1. conn'[d].t = conn[d].t
        BY <2>1 DEF Kept
      <3> QED BY <1>2, <2>5, <3>1 DEF HalfDone
    <2> QED BY <2>2, <2>4, <2>6 DEF IInv, EvictedHearNothing
  <1> QED BY <1>3, <1>5, <1>6, <1>8, <1>9, <1>10 DEF IInv

LEMMA EvictTenantInv ==
    ASSUME IInv, NEW e \in Evictors, NEW t \in Tenants, EvictTenant(e, t)
    PROVE  IInv'
  <1>1. CASE /\ EvictBegins(e, t)
             /\ BumpEpoch(t) /\ UNCHANGED <<chan, conn>>
    BY <1>1, EvictBeginsInv
  <1>2. CASE /\ EvictEnds(e, t)
             /\ DropSenders({t} \X Rooms) /\ UNCHANGED <<epochs, cell, handles>>
    <2>1. \A x \in OpenConns : <<x, opened[x]>> \in ev[e].mark => Evicted(conn[x])
      BY <1>2 DEF EvictEnds, IInv, MarkedGo
    <2>2. \A s \in Tenants, r \in Rooms :
             \/ ev[e].pc = "walking" /\ <<s, r>> \in {t} \X Rooms
             \/ ev[e].pc = "half" /\ (ev[e].t = s => <<s, r>> \in {t} \X Rooms)
      BY <1>2 DEF EvictEnds
    <2> QED BY <1>2, <2>1, <2>2, EvictReturnsInv DEF EvictEnds
  <1> QED BY <1>1, <1>2 DEF EvictTenant

LEMMA EvictAllClearInv ==
    ASSUME IInv, NEW e \in Evictors, EvictAllClear(e)
    PROVE  IInv'
  <1>1. \A x \in OpenConns : <<x, opened[x]>> \in ev[e].mark => Evicted(conn[x])
    BY DEF EvictAllClear, IInv, MarkedGo
  <1>2. \A s \in Tenants, r \in Rooms :
           \/ ev[e].pc = "walking" /\ <<s, r>> \in Tenants \X Rooms
           \/ ev[e].pc = "half" /\ (ev[e].t = s => <<s, r>> \in Tenants \X Rooms)
    BY DEF EvictAllClear
  <1> QED BY <1>1, <1>2, EvictReturnsInv DEF EvictAllClear

(* The walk begins at every tenant that has a connection: each has an      *)
(* epoch entry, because it took its baseline from one.                     *)
LEMMA EvictAllStartInv ==
    ASSUME IInv, NEW e \in Evictors, EvictAllStart(e)
    PROVE  IInv'
  <1> DEFINE M == {<<c, opened[c]>> : c \in OpenConns}
             L == {t \in Tenants : epochs[t] # 0}
             x == [ev[e] EXCEPT !.pc = "walking", !.left = L, !.mark = M]
  <1>1. /\ TypeOK /\ ev \in [Evictors -> EvRows] /\ ev[e].pc = "idle"
        /\ ev' = [ev EXCEPT ![e].pc = "walking", ![e].left = L, ![e].mark = M]
        /\ UNCHANGED <<epochs, cell, handles, chan, conn, opened>>
    BY DEF EvictAllStart, IInv, TypeOK
  <1>2. /\ M \in SUBSET (Conns \X (0 .. MaxConnect))
        /\ \A c, n : <<c, n>> \in M => c \in OpenConns /\ n = opened[c]
    BY <1>1, MarkType DEF OpenConns
  <1>3. \A c \in OpenConns : conn[c].t \in L
    BY RoomAssumption DEF IInv, HandleIsCurrent, Bases, Cells, OpenConns
  <1>4. L \in SUBSET Tenants
    OBVIOUS
  <1> HIDE DEF M, L
  <1>5. x \in EvRows /\ x.pc = "walking" /\ x.left = L /\ x.mark = M
        /\ x.seen = ev[e].seen
    BY <1>1, <1>2, <1>4 DEF EvRows
  <1>6. ev' = [ev EXCEPT ![e] = x]
    BY <1>1
  <1> HIDE DEF x
  <1>7. ev' \in [Evictors -> EvRows] /\ ev'[e] = x
        /\ \A f \in Evictors \ {e} : ev'[f] = ev[f]
    BY <1>1, <1>5, <1>6
  <1>8. TypeOK'
    BY <1>1, <1>7 DEF TypeOK
  <1>9. HandleIsCurrent' /\ Bases'
    BY <1>1 DEF IInv, HandleIsCurrent, Bases
  <1>10. MarksOld'
    <2>1. \A c \in Conns, n \in 0 .. MaxConnect : <<c, n>> \in M => n <= opened[c]
      BY <1>1, <1>2 DEF TypeOK
    <2> QED BY <1>1, <1>5, <1>7, <2>1 DEF IInv, MarksOld
  <1>11. MarkedGo'
    <2>1. ev[e].seen = {}
      BY <1>1 DEF IInv, Unseen
    <2> QED BY <1>1, <1>3, <1>5, <1>7, <2>1 DEF IInv, MarkedGo, OpenConns, Evicted
  <1>12. Unseen' /\ CellsApart'
    BY <1>1, <1>5, <1>7 DEF IInv, Unseen, CellsApart
  <1>13. EvictedHearNothing'
    <2>1. \A s : HalfDone(s) => HalfDone(s)'
      BY <1>1, <1>7 DEF HalfDone
    <2> QED BY <1>1, <2>1 DEF IInv, EvictedHearNothing, Evicted
  <1> QED BY <1>8, <1>9, <1>10, <1>11, <1>12, <1>13 DEF IInv

LEMMA EvictAllBumpInv ==
    ASSUME IInv, NEW e \in Evictors, NEW t \in Tenants, EvictAllBump(e, t)
    PROVE  IInv'
  <1> DEFINE x == [ev[e] EXCEPT !.seen = @ \cup {t}]
  <1>1. /\ TypeOK /\ ev \in [Evictors -> EvRows] /\ epochs[t] # 0
        /\ ev[e].pc = "walking" /\ cell' = [cell EXCEPT ![epochs[t]] = @ + 1]
        /\ ev' = [ev EXCEPT ![e].seen = @ \cup {t}]
        /\ UNCHANGED <<epochs, handles, chan, conn, opened>>
    BY DEF EvictAllBump, IInv, TypeOK
  <1>2. /\ x \in EvRows /\ x.pc = ev[e].pc /\ x.left = ev[e].left
        /\ x.mark = ev[e].mark /\ x.seen = ev[e].seen \cup {t}
    BY <1>1 DEF EvRows
  <1>3. ev' = [ev EXCEPT ![e] = x]
    BY <1>1
  <1> HIDE DEF x
  <1>4. ev' \in [Evictors -> EvRows] /\ ev'[e] = x
        /\ \A f \in Evictors \ {e} : ev'[f] = ev[f]
    BY <1>1, <1>2, <1>3
  <1>5. epochs[t] \in Cells
    BY <1>1, RoomAssumption DEF TypeOK, Cells
  <1>6. /\ cell' \in [Cells -> Nat] /\ Bases'
        /\ \A y \in OpenConns : Evicted(conn[y]) => Evicted(conn[y])'
        /\ \A y \in OpenConns : conn[y].h = epochs[t] => Evicted(conn[y])'
        /\ \A y \in Conns : Evicted(conn[y])' /\ conn[y].h # epochs[t] => Evicted(conn[y])
    BY <1>1, <1>5, BumpFacts
  <1>7. TypeOK'
    BY <1>1, <1>4, <1>6 DEF TypeOK
  <1>8. HandleIsCurrent'
    BY <1>1 DEF IInv, HandleIsCurrent
  <1>9. MarksOld'
    BY <1>1, <1>2, <1>4 DEF IInv, MarksOld
  <1>10. MarkedGo'
    <2>1. OpenConns' = OpenConns
      BY <1>1 DEF OpenConns
    <2>2. \A y \in OpenConns : conn[y].t = t => Evicted(conn[y])'
      BY <1>6 DEF IInv, HandleIsCurrent, OpenConns
    <2>3. \A y \in OpenConns : <<y, opened'[y]>> \in ev'[e].mark =>
             /\ conn'[y].t \in ev'[e].left
             /\ conn'[y].t \in ev'[e].seen => Evicted(conn[y])'
      BY <1>1, <1>2, <1>4, <1>6, <2>2 DEF IInv, MarkedGo
    <2>4. \A f \in Evictors \ {e} : \A y \in OpenConns :
             <<y, opened'[y]>> \in ev'[f].mark =>
                /\ ev'[f].pc \in {"half", "done"} => Evicted(conn[y])'
                /\ ev'[f].pc = "walking" =>
                      /\ conn'[y].t \in ev'[f].left
                      /\ conn'[y].t \in ev'[f].seen => Evicted(conn[y])'
      BY <1>1, <1>4, <1>6 DEF IInv, MarkedGo
    <2> QED BY <1>1, <1>2, <1>4, <2>1, <2>3, <2>4 DEF MarkedGo
  <1>11. Unseen' /\ CellsApart'
    BY <1>1, <1>2, <1>4 DEF IInv, Unseen, CellsApart
  <1>12. EvictedHearNothing'
    <2>1. HalfDone(t)'
      BY <1>1, <1>2, <1>4 DEF HalfDone
    <2>2. \A s : HalfDone(s) => HalfDone(s)'
      BY <1>1, <1>2, <1>4 DEF HalfDone
    <2>3. \A y \in OpenConns : conn[y].h = epochs[conn[y].t] /\ conn[y].t \in Tenants
      BY DEF IInv, HandleIsCurrent, Bases, OpenConns
    <2>4. \A y \in Conns : Evicted(conn[y])' /\ conn[y].t # t => Evicted(conn[y])
      BY <1>1, <1>6, <2>3 DEF IInv, CellsApart, OpenConns, Evicted
    <2> QED BY <1>1, <2>1, <2>2, <2>4 DEF IInv, EvictedHearNothing
  <1> QED BY <1>6, <1>7, <1>8, <1>9, <1>10, <1>11, <1>12 DEF IInv

----------------------------------------------------------------------------
LEMMA InitIInv == Init => IInv
  <1> SUFFICES ASSUME Init PROVE IInv
    OBVIOUS
  <1>1. /\ epochs \in [Tenants -> 0 .. MaxHandle] /\ cell \in [Cells -> Nat]
        /\ handles \in 0 .. MaxHandle /\ opened \in [Conns -> 0 .. MaxConnect]
        /\ chan \in [Tenants -> [Rooms -> BOOLEAN]]
    BY RoomAssumption DEF Init
  <1>2. conn \in [Conns -> ConnRows] /\ \A c \in Conns : conn[c].pc = "away"
    <2>1. Away.pc = "away"
      BY DEF Away
    <2> QED BY <2>1, AwayType DEF Init
  <1>3. ev \in [Evictors -> EvRows] /\ \A e \in Evictors : ev[e].mark = {} /\ ev[e].seen = {}
    BY DEF Init, EvRows
  <1> QED BY <1>1, <1>2, <1>3 DEF IInv, TypeOK, HandleIsCurrent, Bases, MarksOld,
             MarkedGo, Unseen, OpenConns, CellsApart, EvictedHearNothing, Evicted, Init

LEMMA Inductive == Spec => []IInv
  <1>1. IInv /\ [Next]_vars => IInv'
    <2> SUFFICES ASSUME IInv, [Next]_vars PROVE IInv'
      OBVIOUS
    <2>1. ASSUME NEW c \in Conns, LoopOrPeer(c) PROVE IInv'
      BY <2>1, ConnInv
    <2>2. CASE UNCHANGED vars
      BY <2>2 DEF vars, IInv, TypeOK, HandleIsCurrent, Bases, MarksOld, MarkedGo,
         Unseen, OpenConns, Evicted, CellsApart, EvictedHearNothing, HalfDone
    <2>3. CASE \E c \in Conns, t \in Tenants, d \in Deadlines : Capture(c, t, d)
      BY <2>3, CaptureInv
    <2>4. ASSUME NEW e \in Evictors,
                 \/ \E t \in Tenants : EvictTenant(e, t) \/ EvictAllBump(e, t)
                 \/ EvictAllStart(e) \/ EvictAllClear(e)
          PROVE  IInv'
      BY <2>4, EvictTenantInv, EvictAllBumpInv, EvictAllStartInv, EvictAllClearInv
    <2> QED BY <2>1, <2>2, <2>3, <2>4, BusInv DEF Next, LoopOrPeer, BroadcastTool
  <1> QED BY <1>1, InitIInv, PTL DEF Spec

(* The bus, the connections and the evictions keep their types. *)
THEOREM RoomTypes == Spec => []TypeOK
  <1>1. IInv => TypeOK
    BY DEF IInv
  <1> QED BY <1>1, Inductive, PTL

(* No connection ever holds an epoch cell other than the one its tenant's  *)
(* evictions bump.                                                         *)
THEOREM CellsShared == Spec => []HandleIsCurrent
  <1>1. IInv => HandleIsCurrent
    BY DEF IInv
  <1> QED BY <1>1, Inductive, PTL

(* When evict_tenant or evict_all_tenants returns, every connection that   *)
(* was open when it was called is closed or will fail its next epoch       *)
(* check, however many connects and evictions overlap with it.             *)
THEOREM EvictionComplete == Spec => []EvictionReachesAll
  <1>1. IInv => EvictionReachesAll
    BY DEF IInv, MarkedGo, EvictionReachesAll
  <1> QED BY <1>1, Inductive, PTL

(* Once no eviction of its tenant is half done, an evicted connection has  *)
(* no receiver, but for the one operation whose epoch check came before    *)
(* the bump: evict_tenant bumps before it drops the channels.              *)
THEOREM EvictedAreDeaf == Spec => []EvictedHearNothing
  <1>1. IInv => EvictedHearNothing
    BY DEF IInv
  <1> QED BY <1>1, Inductive, PTL

(* A step that cuts a live receiver is one of an eviction. *)
LEMMA CutByEviction ==
    ASSUME IInv, [Next]_vars, NEW c \in Conns, NEW r \in Rooms,
           conn[c].sub[r] = "live", conn'[c].sub[r] = "cut"
    PROVE  Evicts
  <1>1. TypeOK /\ conn \in [Conns -> ConnRows] /\ ev \in [Evictors -> EvRows]
    BY DEF IInv, TypeOK
  <1>2. CASE UNCHANGED vars
    BY <1>2 DEF vars
  <1>3. ASSUME NEW d \in Conns, LoopOrPeer(d) PROVE FALSE
    BY <1>1, <1>3, ConnMoves DEF Uncuts, Uncut
  <1>4. ASSUME NEW d \in Conns, NEW t \in Tenants, NEW dl \in Deadlines, Capture(d, t, dl)
        PROVE  FALSE
    <2>1. [Away EXCEPT !.pc = "captured", !.t = t, !.h = Entry(t),
                       !.base = cell[Entry(t)], !.dl = dl].sub[r] = "no"
      BY DEF Away
    <2> QED BY <1>1, <1>4, <2>1 DEF Capture, Update
  <1>5. ASSUME NEW e \in Evictors,
               \/ \E t \in Tenants : EvictTenant(e, t) \/ EvictAllBump(e, t)
               \/ EvictAllStart(e) \/ EvictAllClear(e)
        PROVE  ev' # ev
    <2>1. ASSUME UNCHANGED conn PROVE FALSE
      BY <2>1
    <2>2. CASE \E t \in Tenants : EvictEnds(e, t)
      BY <1>1, <2>2 DEF EvictEnds, EvRows
    <2>3. CASE EvictAllClear(e)
      BY <1>1, <2>3 DEF EvictAllClear, EvRows
    <2> QED BY <1>5, <2>1, <2>2, <2>3 DEF EvictTenant, EvictAllBump, EvictAllStart
  <1>6. ASSUME NEW t \in Tenants, SweepEmpty(t) PROVE FALSE
    <2> DEFINE D == {<<t, x>> : x \in {y \in Rooms : Receivers(t, y) = {}}}
    <2>1. conn'[c] = CutSubs(conn[c], D)
      BY <1>6 DEF SweepEmpty, DropSenders
    <2>2. conn'[c].sub[r] = IF conn[c].sub[r] = "live" /\ <<conn[c].t, r>> \in D
                            THEN "cut" ELSE conn[c].sub[r]
      BY <1>1, <2>1 DEF CutSubs, ConnRows
    <2>3. conn[c].t = t /\ Receivers(t, r) = {}
      BY <2>2
    <2> QED BY <2>3 DEF Receivers
  <1>7. ASSUME NEW t \in Tenants, NEW x \in Rooms, RestPublish(t, x) PROVE FALSE
    <2>1. Uncut(conn'[c], conn[c])
      BY <1>1, <1>7, DeliverRows DEF RestPublish
    <2> QED BY <2>1 DEF Uncut
  <1>8. ASSUME NEW t \in Tenants, NEW x \in Rooms, EvictRoom(t, x) PROVE Evicts
    BY <1>8 DEF Evicts
  <1> QED BY <1>2, <1>3, <1>4, <1>5, <1>6, <1>7, <1>8
          DEF Next, LoopOrPeer, BroadcastTool, Evicts

(* Neither the sweeper nor another client takes a room from a subscriber:  *)
(* only an eviction of the room, the tenant or the host does.              *)
THEOREM OnlyEvictionsCut == Spec => SubscribersKept
  <1>1. IInv /\ [Next]_vars =>
           [\A c \in Conns, r \in Rooms :
               conn[c].sub[r] = "live" /\ conn'[c].sub[r] = "cut" => Evicts]_vars
    BY CutByEviction
  <1> QED BY <1>1, Inductive, PTL DEF Spec, SubscribersKept

----------------------------------------------------------------------------
(* The late operation of an evicted connection.                            *)

(* An operation landed late only from a loop that had passed its check     *)
(* before the bump; the loop is back at its select! or awaits a send, and  *)
(* its next check fails.                                                   *)
Spent(k) ==
    /\ k.late \in {0, 1}
    /\ k.late = 1 => k.pc \in {"loop", "sending"} /\ cell[k.h] # k.base
OneLate == \A c \in Conns : Spent(conn[c])

(* An edit of a row that counts no operation; a calm one starts none.      *)
Same(x, k) == x.late = k.late /\ x.h = k.h /\ x.base = k.base
Quiet(k) == {x \in ConnRows : Same(x, k)}
Calm(k) == {x \in Quiet(k) : x.pc = k.pc \/ x.pc \in {"loop", "sending"}}

LEMMA CalmTwice ==
    ASSUME NEW k, NEW x \in Calm(k), NEW y \in Calm(x)
    PROVE  y \in Calm(k)
  BY DEF Calm, Quiet, Same

LEMMA SameEdits ==
    ASSUME NEW k \in ConnRows
    PROVE  /\ \A th \in {"loop", "away"}, a \in Rooms \cup {"noroom"} :
                 Sending(k, th, a) \in Calm(k)
           /\ InLoop(k) \in Calm(k)
           /\ [k EXCEPT !.pc = "checked"] \in Quiet(k)
           /\ \A r \in Rooms : [k EXCEPT !.pc = "joining", !.arg = r] \in Quiet(k)
           /\ [k EXCEPT !.due = TRUE] \in Calm(k)
           /\ [k EXCEPT !.due = FALSE] \in Calm(k)
           /\ [k EXCEPT !.dl = "past"] \in Calm(k)
  <1> USE DEF ConnRows, Calm, Quiet, Same
  <1>1. ASSUME NEW th \in {"loop", "away"}, NEW a \in Rooms \cup {"noroom"}
        PROVE  Sending(k, th, a) \in Calm(k)
    BY DEF Sending
  <1>2. InLoop(k) \in Calm(k)
    BY DEF InLoop
  <1>3. [k EXCEPT !.pc = "checked"] \in Quiet(k)
    OBVIOUS
  <1>4. ASSUME NEW r \in Rooms PROVE [k EXCEPT !.pc = "joining", !.arg = r] \in Quiet(k)
    OBVIOUS
  <1>5. [k EXCEPT !.due = TRUE] \in Calm(k) /\ [k EXCEPT !.due = FALSE] \in Calm(k)
    OBVIOUS
  <1>6. [k EXCEPT !.dl = "past"] \in Calm(k)
    OBVIOUS
  <1> HIDE DEF ConnRows, Calm, Quiet, Same
  <1> QED BY <1>1, <1>2, <1>3, <1>4, <1>5, <1>6, Zenon

LEMMA SameStreams ==
    ASSUME NEW k \in ConnRows
    PROVE  /\ \A r : WithoutRoom(k, r) \in Calm(k)
           /\ \A r : [k EXCEPT !.sub[r] = "live", !.q[r] = 0] \in Quiet(k)
           /\ \A r \in Rooms : k.q[r] \in 1 .. Buffer => [k EXCEPT !.q[r] = @ - 1] \in Calm(k)
           /\ \A r \in Rooms : k.q[r] <= Buffer => [k EXCEPT !.q[r] = @ + 1] \in Calm(k)
           /\ \A D : CutSubs(k, D) \in Calm(k)
  <1>1. ASSUME NEW r PROVE WithoutRoom(k, r) \in Calm(k)
    <2>1. WithoutRoom(k, r) \in ConnRows
      BY StreamEdits, Zenon DEF Follows
    <2>2. Same(WithoutRoom(k, r), k) /\ WithoutRoom(k, r).pc = k.pc
      BY DEF Same, WithoutRoom, ConnRows
    <2> QED BY <2>1, <2>2 DEF Calm, Quiet
  <1>2. ASSUME NEW r PROVE [k EXCEPT !.sub[r] = "live", !.q[r] = 0] \in Quiet(k)
    <2>1. [k EXCEPT !.sub[r] = "live", !.q[r] = 0] \in ConnRows
      BY StreamEdits, Zenon
    <2>2. Same([k EXCEPT !.sub[r] = "live", !.q[r] = 0], k)
      BY DEF Same, ConnRows
    <2> QED BY <2>1, <2>2, Zenon DEF Quiet
  <1>3. ASSUME NEW r \in Rooms, k.q[r] \in 1 .. Buffer
        PROVE  [k EXCEPT !.q[r] = @ - 1] \in Calm(k)
    BY <1>3, RoomAssumption DEF ConnRows, Calm, Quiet, Same
  <1>4. ASSUME NEW r \in Rooms, k.q[r] <= Buffer
        PROVE  [k EXCEPT !.q[r] = @ + 1] \in Calm(k)
    BY <1>4, RoomAssumption DEF ConnRows, Calm, Quiet, Same
  <1>5. ASSUME NEW D PROVE CutSubs(k, D) \in Calm(k)
    BY DEF CutSubs, ConnRows, Calm, Quiet, Same
  <1> QED BY <1>1, <1>2, <1>3, <1>4, <1>5, Zenon

(* What an edit leaves of Spent: all of it when it is calm, and a row with *)
(* nothing counted may go anywhere.                                        *)
LEMMA SpentEdits ==
    ASSUME NEW k, Spent(k)
    PROVE  /\ \A x \in Calm(k) : Spent(x)
           /\ k.late = 0 => \A x \in Quiet(k) : Spent(x)
  BY DEF Spent, Same, Calm, Quiet

(* The operation that passed its check: it lands, and is answered. *)
LEMMA SpentAnswers ==
    ASSUME NEW k \in ConnRows, k.late = 0, k.pc \in {"checked", "joining"},
           NEW x \in Quiet(k)
    PROVE  \A a \in Answers(x) \cup Answers(Landed(x)) : Spent(a)
  <1>1. x \in ConnRows /\ x.late = 0
    BY DEF Quiet, Same
  <1>2. Landed(x) \in ConnRows
    BY <1>1 DEF Landed, ConnRows
  <1>3. /\ Landed(x).late \in {0, 1} /\ Landed(x).h = x.h /\ Landed(x).base = x.base
        /\ Landed(x).late = 1 => cell[x.h] # x.base
    BY <1>1 DEF Landed, Evicted, ConnRows
  <1>4. ASSUME NEW y \in ConnRows
        PROVE  \A a \in Answers(y) : Same(a, y) /\ a.pc \in {"loop", "sending"}
    <2>1. Same(InLoop(y), y) /\ InLoop(y).pc = "loop"
      BY DEF Same, InLoop, ConnRows
    <2>2. Same(Sending(y, "loop", "noroom"), y) /\ Sending(y, "loop", "noroom").pc = "sending"
      BY DEF Same, Sending, ConnRows
    <2> QED BY <2>1, <2>2, Zenon DEF Answers
  <1> QED BY <1>1, <1>2, <1>3, <1>4 DEF Spent, Same

LEMMA OneRowLate ==
    ASSUME OneLate, TypeOK, NEW c \in Conns, NEW x, Update(c, x), Spent(x),
           UNCHANGED cell
    PROVE  OneLate'
  <1>1. conn'[c] = x /\ \A d \in Conns \ {c} : conn'[d] = conn[d]
    BY DEF Update, TypeOK
  <1> QED BY <1>1 DEF OneLate, Spent

LEMMA DeliverLate ==
    ASSUME NEW cn \in [Conns -> ConnRows], \A d \in Conns : Spent(cn[d]), NEW t,
           NEW r \in Rooms, conn' = Deliver(cn, t, r), UNCHANGED cell
    PROVE  OneLate'
  <1>1. ASSUME NEW d \in Conns PROVE conn'[d] \in Calm(cn[d])
    <2>1. cn[d] \in Calm(cn[d])
      BY DEF Calm, Quiet, Same
    <2>2. cn[d].q[r] <= Buffer => [cn[d] EXCEPT !.q[r] = @ + 1] \in Calm(cn[d])
      BY SameStreams, Zenon
    <2> QED BY <2>1, <2>2, Zenon DEF Deliver
  <1>2. \A d \in Conns : Spent(conn'[d])
    BY <1>1, SpentEdits
  <1> QED BY <1>2 DEF OneLate, Spent

LEMMA ConnLate ==
    ASSUME IInv, OneLate, NEW c \in Conns, LoopOrPeer(c)
    PROVE  OneLate'
  <1> DEFINE k == conn[c]
  <1>1. k \in ConnRows /\ Spent(k) /\ conn \in [Conns -> ConnRows] /\ TypeOK
    BY DEF IInv, TypeOK, OneLate
  <1>2. UNCHANGED cell
    <2>1. CASE Join(c)
      BY <2>1 DEF Join
    <2>2. CASE OnlyConn
      BY <2>2 DEF OnlyConn
    <2> QED BY <2>1, <2>2, Zenon DEF LoopOrPeer, LoopStep, Dispatch, OpenSocket, ExpiryArm,
               KeepaliveArm, Subscribe, Unsubscribe, Publish, AnswerOnly, FrameArm,
               FanOut, KeepaliveDue, DeadlinePasses, Sent, Hangup
  <1>3. ASSUME NEW x, Update(c, x), Spent(x) PROVE OneLate'
    BY <1>1, <1>2, <1>3, OneRowLate
  <1>4. ASSUME NEW x \in Calm(k), Update(c, x) PROVE OneLate'
    BY <1>1, <1>3, <1>4, SpentEdits
  <1>5. ASSUME NEW x \in Quiet(k), k.late = 0, Update(c, x) PROVE OneLate'
    BY <1>1, <1>3, <1>5, SpentEdits
  <1>6. ASSUME Update(c, Away) PROVE OneLate'
    BY <1>3, <1>6 DEF Spent, Away
  <1>7. k.pc \in {"checked", "joining", "captured"} => k.late = 0
    BY <1>1 DEF Spent
  <1>8. ~ Evicted(k) /\ k.pc # "away" => k.late = 0
    BY <1>1 DEF Spent, Evicted
  <1>9. ASSUME NEW x \in Quiet(k), k.pc \in {"checked", "joining"},
               NEW a \in Answers(x) \cup Answers(Landed(x)), Update(c, a)
        PROVE  OneLate'
    BY <1>1, <1>3, <1>7, <1>9, SpentAnswers
  <1>10. k \in ConnRows /\ k \in Quiet(k)
    BY <1>1 DEF Quiet, Same
  <1> HIDE DEF k
  <1>11. CASE OpenSocket(c)
    BY <1>4, <1>10, <1>11, SameEdits, Zenon DEF OpenSocket, k
  <1>12. CASE ExpiryArm(c)
    BY <1>4, <1>10, <1>12, SameEdits, Zenon DEF ExpiryArm, k
  <1>13. CASE KeepaliveArm(c)
    <2> DEFINE x == [k EXCEPT !.due = FALSE]
               th == IF Evicted(k) THEN "away" ELSE "loop"
    <2>1. Update(c, Sending(x, th, "noroom"))
      BY <1>13 DEF KeepaliveArm, k
    <2>2. x \in Calm(k) /\ th \in {"loop", "away"}
      BY <1>10, SameEdits, Zenon
    <2>3. x \in ConnRows
      BY <2>2 DEF Calm, Quiet
    <2> HIDE DEF x, th
    <2>4. Sending(x, th, "noroom") \in Calm(x)
      BY <2>2, <2>3, SameEdits, Zenon
    <2> QED BY <1>4, <2>1, <2>2, <2>4, CalmTwice
  <1>14. CASE FrameArm(c)
    <2>1. CASE Update(c, Sending(k, "away", "noroom"))
      BY <1>4, <1>10, <2>1, SameEdits, Zenon
    <2>2. CASE ~ Evicted(k) /\ k.pc = "loop" /\ Update(c, [k EXCEPT !.pc = "checked"])
      BY <1>5, <1>8, <1>10, <2>2, SameEdits, Zenon
    <2> QED BY <1>14, <2>1, <2>2 DEF FrameArm, k
  <1>15. CASE \E r \in Rooms : Subscribe(c, r)
    <2>1. PICK r \in Rooms : Subscribe(c, r)
      BY <1>15
    <2>2. k.pc = "checked"
      BY <2>1 DEF Subscribe, k
    <2>3. CASE Update(c, [k EXCEPT !.pc = "joining", !.arg = r])
      BY <1>5, <1>7, <1>10, <2>2, <2>3, SameEdits, Zenon
    <2>4. CASE \E a \in Answers(k) : Update(c, a)
      BY <1>9, <1>10, <2>2, <2>4
    <2> QED BY <2>1, <2>3, <2>4 DEF Subscribe, k
  <1>16. CASE \E r \in Rooms : Unsubscribe(c, r)
    <2>1. PICK r \in Rooms : Unsubscribe(c, r)
      BY <1>16
    <2>2. k.pc = "checked" /\ \E a \in Answers(Landed(WithoutRoom(k, r))) : Update(c, a)
      BY <2>1 DEF Unsubscribe, k
    <2>3. WithoutRoom(k, r) \in Quiet(k)
      BY <1>10, SameStreams, Zenon DEF Calm
    <2> QED BY <1>9, <2>2, <2>3
  <1>17. CASE \E r \in Rooms : Publish(c, r)
    <2>1. PICK r \in Rooms : Publish(c, r)
      BY <1>17
    <2>2. PICK a \in Answers(Landed(k)) :
             k.pc = "checked" /\ conn' = Deliver([conn EXCEPT ![c] = a], k.t, r)
      BY <2>1 DEF Publish, k
    <2>3. a \in ConnRows /\ Spent(a)
      <3>1. a \in Follows(k)
        <4>1. Landed(k) \in Follows(k)
          BY <1>10, StreamEdits, Zenon
        <4>2. Landed(k).pc = k.pc
          BY <1>10, LandedPc, Zenon
        <4> QED BY <1>10, <2>2, <4>1, <4>2, AnswerRows
      <3>2. Spent(a)
        BY <1>7, <1>10, <2>2, SpentAnswers
      <3> QED BY <3>1, <3>2 DEF Follows
    <2> DEFINE cn == [conn EXCEPT ![c] = a]
    <2>4. cn \in [Conns -> ConnRows] /\ \A d \in Conns : Spent(cn[d])
      BY <1>1, <2>3 DEF OneLate
    <2>5. conn' = Deliver(cn, k.t, r)
      BY <2>2
    <2> HIDE DEF cn
    <2> QED BY <1>2, <2>4, <2>5, DeliverLate
  <1>18. CASE AnswerOnly(c)
    BY <1>9, <1>10, <1>18 DEF AnswerOnly, k
  <1>19. CASE Join(c)
    <2> DEFINE x == [k EXCEPT !.sub[k.arg] = "live", !.q[k.arg] = 0]
    <2>1. k.pc = "joining" /\ \E a \in Answers(Landed(x)) : Update(c, a)
      BY <1>19 DEF Join, k
    <2>2. x \in Quiet(k)
      BY <1>10, SameStreams, Zenon
    <2> HIDE DEF x
    <2> QED BY <1>9, <2>1, <2>2
  <1>20. CASE \E r \in Rooms : FanOut(c, r)
    <2>1. PICK r \in Rooms : FanOut(c, r)
      BY <1>20
    <2>2. CASE k.q[r] \in 1 .. Buffer
               /\ Update(c, Sending([k EXCEPT !.q[r] = @ - 1], "loop", "noroom"))
      <3> DEFINE x == [k EXCEPT !.q[r] = @ - 1]
      <3>1. x \in Calm(k)
        BY <1>10, <2>2, SameStreams, Zenon
      <3>2. Update(c, Sending(x, "loop", "noroom"))
        BY <2>2
      <3> HIDE DEF x
      <3>3. Sending(x, "loop", "noroom") \in Calm(x)
        BY <3>1, SameEdits, Zenon DEF Calm, Quiet
      <3> QED BY <1>4, <3>1, <3>2, <3>3, CalmTwice
    <2>3. CASE Update(c, Sending(k, "loop", r))
      BY <1>4, <1>10, <2>3, SameEdits, Zenon
    <2>4. CASE Update(c, WithoutRoom(k, r))
      BY <1>4, <1>10, <2>4, SameStreams, Zenon
    <2> QED BY <2>1, <2>2, <2>3, <2>4 DEF FanOut, k
  <1>21. CASE KeepaliveDue(c)
    BY <1>4, <1>10, <1>21, SameEdits, Zenon DEF KeepaliveDue, k
  <1>22. CASE DeadlinePasses(c)
    BY <1>4, <1>10, <1>22, SameEdits, Zenon DEF DeadlinePasses, k
  <1>23. CASE Sent(c)
    <2>1. CASE k.then = "away"
      BY <1>6, <1>23, <2>1 DEF Sent, k
    <2>2. CASE k.then # "away" /\ k.arg = "noroom"
      <3>1. Update(c, InLoop(k))
        BY <1>1, <1>23, <2>2 DEF Sent, k, ConnRows
      <3> QED BY <1>4, <1>10, <3>1, SameEdits, Zenon
    <2>3. CASE k.then # "away" /\ k.arg # "noroom"
      <3> DEFINE x == WithoutRoom(k, k.arg)
      <3>1. Update(c, InLoop(x))
        BY <1>23, <2>3 DEF Sent, k
      <3>2. x \in Calm(k)
        BY <1>10, SameStreams, Zenon
      <3> HIDE DEF x
      <3>3. InLoop(x) \in Calm(x)
        BY <3>2, SameEdits, Zenon DEF Calm, Quiet
      <3> QED BY <1>4, <3>1, <3>2, <3>3, CalmTwice
    <2> QED BY <2>1, <2>2, <2>3
  <1>24. CASE Hangup(c)
    BY <1>6, <1>24 DEF Hangup
  <1> QED BY <1>11, <1>12, <1>13, <1>14, <1>15, <1>16, <1>17, <1>18, <1>19, <1>20,
             <1>21, <1>22, <1>23, <1>24 DEF LoopOrPeer, LoopStep, Dispatch

LEMMA CutLate ==
    ASSUME TypeOK, OneLate, NEW D, DropSenders(D), UNCHANGED cell
    PROVE  OneLate'
  <1>1. conn' = [c \in Conns |-> CutSubs(conn[c], D)]
    BY DEF DropSenders
  <1>2. \A c \in Conns : conn[c] \in ConnRows /\ Spent(conn[c])
    BY DEF TypeOK, OneLate
  <1>3. \A c \in Conns : CutSubs(conn[c], D) \in Calm(conn[c])
    BY <1>2, SameStreams, Zenon
  <1>4. \A c \in Conns : Spent(conn'[c])
    BY <1>1, <1>2, <1>3, SpentEdits
  <1> QED BY <1>4 DEF OneLate, Spent

(* A bump takes nobody's eviction back. *)
LEMMA BumpLate ==
    ASSUME IInv, OneLate, NEW h \in Cells, cell' = [cell EXCEPT ![h] = @ + 1],
           UNCHANGED conn
    PROVE  OneLate'
  <1>1. \A c \in Conns : Spent(conn[c])
    BY DEF OneLate
  <1>2. \A c \in OpenConns : Evicted(conn[c]) => Evicted(conn[c])'
    BY BumpFacts
  <1>3. \A c \in Conns : conn[c].late = 1 => Evicted(conn[c]) /\ c \in OpenConns
    BY <1>1 DEF Spent, Evicted, OpenConns
  <1> QED BY <1>1, <1>2, <1>3 DEF OneLate, Spent, Evicted

LEMMA EvictLate ==
    ASSUME IInv, OneLate, NEW e \in Evictors,
           \/ \E t \in Tenants : EvictTenant(e, t) \/ EvictAllBump(e, t)
           \/ EvictAllStart(e) \/ EvictAllClear(e)
    PROVE  OneLate'
  <1>0. TypeOK
    BY DEF IInv
  <1>1. ASSUME NEW t \in Tenants, EvictTenant(e, t) PROVE OneLate'
    <2>1. CASE BumpEpoch(t) /\ UNCHANGED <<chan, conn>>
      BY <2>1, BumpLate DEF BumpEpoch, TakeEntry
    <2>2. CASE DropSenders({t} \X Rooms) /\ UNCHANGED <<epochs, cell, handles>>
      BY <1>0, <2>2, CutLate
    <2> QED BY <1>1, <2>1, <2>2 DEF EvictTenant
  <1>2. ASSUME NEW t \in Tenants, EvictAllBump(e, t) PROVE OneLate'
    <2>1. epochs[t] \in Cells
      BY <1>0, <1>2, RoomAssumption DEF EvictAllBump, TypeOK, Cells
    <2> QED BY <1>2, <2>1, BumpLate DEF EvictAllBump
  <1>3. CASE EvictAllStart(e)
    <2>1. UNCHANGED <<conn, cell>>
      BY <1>3, Zenon DEF EvictAllStart
    <2> QED BY <2>1 DEF OneLate, Spent
  <1>4. CASE EvictAllClear(e)
    BY <1>0, <1>4, CutLate DEF EvictAllClear
  <1> QED BY <1>1, <1>2, <1>3, <1>4

LEMMA CaptureLate ==
    ASSUME IInv, OneLate, NEW c \in Conns, NEW t \in Tenants, NEW d \in Deadlines,
           Capture(c, t, d)
    PROVE  OneLate'
  <1>1. UNCHANGED cell /\ TypeOK
    BY DEF Capture, IInv
  <1>2. ASSUME NEW k \in ConnRows, k.late = 0
        PROVE  LET x == [k EXCEPT !.pc = "captured", !.t = t, !.h = Entry(t),
                                  !.base = cell[Entry(t)], !.dl = d]
               IN  x.late = 0
    BY <1>2 DEF ConnRows
  <1>3. Away \in ConnRows /\ Away.late = 0
    BY AwayType DEF Away
  <1>4. PICK x : Update(c, x) /\ x.late = 0
    BY <1>2, <1>3 DEF Capture
  <1>5. Spent(x)
    BY <1>4 DEF Spent
  <1> QED BY <1>1, <1>4, <1>5, OneRowLate

LEMMA BusLate ==
    ASSUME IInv, OneLate, NEW t \in Tenants,
           SweepEmpty(t) \/ \E r \in Rooms : EvictRoom(t, r) \/ RestPublish(t, r)
    PROVE  OneLate'
  <1>1. CASE SweepEmpty(t) \/ \E r \in Rooms : EvictRoom(t, r)
    <2>1. PICK D : DropSenders(D)
      BY <1>1 DEF SweepEmpty, EvictRoom
    <2>2. UNCHANGED cell
      BY <1>1 DEF SweepEmpty, EvictRoom
    <2> QED BY <2>1, <2>2, CutLate DEF IInv
  <1>2. CASE \E r \in Rooms : RestPublish(t, r)
    <2>1. PICK r \in Rooms : conn' = Deliver(conn, t, r) /\ UNCHANGED cell
      BY <1>2 DEF RestPublish
    <2>2. conn \in [Conns -> ConnRows] /\ \A c \in Conns : Spent(conn[c])
      BY DEF IInv, TypeOK, OneLate
    <2> QED BY <2>1, <2>2, DeliverLate
  <1> QED BY <1>1, <1>2

(* handle_socket checks the epoch before every frame it acts on, so of the *)
(* operations of a connection at most one, whose check came before the     *)
(* bump, takes effect after it: "an evicted socket cannot land one more op *)
(* on the way out" for all the others, however many evictions overlap.     *)
THEOREM LateOperations == Spec => []AtMostOneLateOp
  <1>1. Init => OneLate
    <2>1. Away.late = 0
      BY DEF Away
    <2> QED BY <2>1 DEF Init, OneLate, Spent
  <1>2. IInv /\ OneLate /\ [Next]_vars => OneLate'
    <2> SUFFICES ASSUME IInv, OneLate, [Next]_vars PROVE OneLate'
      OBVIOUS
    <2>1. CASE UNCHANGED vars
      BY <2>1 DEF vars, OneLate, Spent
    <2>2. ASSUME NEW c \in Conns, LoopOrPeer(c) PROVE OneLate'
      BY <2>2, ConnLate
    <2>3. CASE \E c \in Conns, t \in Tenants, d \in Deadlines : Capture(c, t, d)
      BY <2>3, CaptureLate
    <2>4. ASSUME NEW e \in Evictors,
                 \/ \E t \in Tenants : EvictTenant(e, t) \/ EvictAllBump(e, t)
                 \/ EvictAllStart(e) \/ EvictAllClear(e)
          PROVE  OneLate'
      BY <2>4, EvictLate
    <2> QED BY <2>1, <2>2, <2>3, <2>4, BusLate DEF Next, LoopOrPeer, BroadcastTool
  <1>3. OneLate => AtMostOneLateOp
    BY DEF OneLate, Spent, AtMostOneLateOp
  <1> QED BY <1>1, <1>2, <1>3, Inductive, PTL DEF Spec
============================================================================
