------------------------------ MODULE Overlay -------------------------------
(***************************************************************************)
(* The overlay of peers: StructureNode and ResourceNode.  Every peer has a *)
(* resource node, a leaf of the tree, and a structure node, which is       *)
(* OFFLINE until it becomes a branch.  A branch has less than 2M children; *)
(* when it gets as many it splits: it looks for a peer with an available   *)
(* structure node (two of them if it is the root, one to be the new root), *)
(* gives it half of its children, and tells its father.  Every change of   *)
(* the tree, an insertion or a split, is a transaction in two phases among *)
(* the nodes it touches; the one that drives it commits when all of them   *)
(* have answered, and every other message waits for it to end.             *)
(*                                                                         *)
(* A handler is an operator from the state of a node to its next state;    *)
(* field out collects what it sends.  What the dispatchers are told by     *)
(* fireStartChanges and fireCommitChanges is left out (module Dispatcher). *)
(* The states LEAVING_WSN and LEAVING and the merge of branches are not    *)
(* reached: checkFanout does nothing for a branch with too few children.   *)
(***************************************************************************)
EXTENDS Zones, FiniteSets, Bags

CONSTANTS
  Node,     \* the addresses of the peers
  M,        \* the minimum fanout
  Contact,  \* the peer through which the others join
  Starts    \* the situations to start from, records of
            \*   tree: tree[b] = [father, level, kids, drawn] for each branch b;
            \*     kids[k] is what b thinks is available at child k, or Unheard
            \*     if the first update of k is on its way
            \*   joining: the peers that are told to join
            \*   timeouts: bound, how many searches may time out

ASSUME OverlayAssumption ==
  /\ Node \subseteq Nat \ {NoNode} /\ IsFiniteSet(Node)
  /\ M \in Nat /\ M >= 2
  /\ Contact \in Node
  /\ \A start \in Starts : /\ DOMAIN start.tree \subseteq Node
                           /\ start.joining \subseteq Node
                           /\ start.timeouts \in Nat

VARIABLES
  sn,    \* the structure node of each peer, with the number of transaction
         \* identifiers its process has drawn
  rn,    \* the resource node of each peer
  net,   \* the messages on their way, a bag
  timeouts   \* the timers that may still expire

vars == <<sn, rn, net, timeouts>>

\* createRandomId does not seed its generator: the k-th identifier that a
\* process draws is the same in all of them.
NoTx == 0

Message ==
  [type |-> "", src |-> NoNode, dst |-> NoNode, forRN |-> FALSE, fromRN |-> FALSE, tx |-> NoTx,
   who |-> NoNode, zone |-> NoZone, seq |-> 0, level |-> 0, kids |-> {}]

\* Sending to the nodes D; a relayed message has the relay as its source.
SendAll(s, D, m) == [s EXCEPT !.out = @ (+) SetToBag({[m EXCEPT !.src = s.me, !.dst = d] : d \in D})]
Send(s, dst, m) == SendAll(s, {dst}, m)
Delay(s, m) == [s EXCEPT !.delayed = Append(@, m)]

Insert(who, tx, forRN) == [Message EXCEPT !.type = "Insert", !.who = who, !.tx = tx, !.forRN = forRN]
Update(zone, seq)      == [Message EXCEPT !.type = "Update", !.zone = zone, !.seq = seq]
Needed(who, tx)        == [Message EXCEPT !.type = "Needed", !.who = who, !.tx = tx]
Offer(tx)              == [Message EXCEPT !.type = "Offer", !.tx = tx]
InitStruct(father, level, kids, tx) ==
  [Message EXCEPT !.type = "InitStruct", !.who = father, !.level = level, !.kids = kids, !.tx = tx]
NewFather(father, tx, forRN) ==
  [Message EXCEPT !.type = "NewFather", !.who = father, !.tx = tx, !.forRN = forRN]
NewChild(child, seq, tx) == [Message EXCEPT !.type = "NewChild", !.who = child, !.seq = seq, !.tx = tx]
Ack(tx, forRN, fromRN) ==
  [Message EXCEPT !.type = "Ack", !.tx = tx, !.forRN = forRN, !.fromRN = fromRN]
Answer(type, tx, forRN) == [Message EXCEPT !.type = type, !.tx = tx, !.forRN = forRN]

\* To the members of a transaction, pairs of an address and whether it is that
\* of a resource node.
SendMembers(s, members, type) ==
  LET To(forRN) == {p[1] : p \in {q \in members : q[2] = forRN}}
  IN SendAll(SendAll(s, To(FALSE), Answer(type, s.tx, FALSE)), To(TRUE), Answer(type, s.tx, TRUE))

---------------------------------------------------------------------------
(* StructureNode: what the handlers share.                                 *)

Recompute(s) ==
  LET known == SelectSeq(s.children, Known)
  IN [s EXCEPT !.zone = IF known = <<>> THEN NoZone
                        ELSE AggregateAll([i \in DOMAIN known |-> known[i].zone])]

NotifyFather(s) ==
  IF s.father = NoNode \/ s.told = s.zone THEN s
  ELSE Send([s EXCEPT !.told = s.zone, !.seq = @ + 1], s.father, Update(s.zone, s.seq))

\* A search starts with a message to itself; the timer sends another one.
Search(s) == Send([s EXCEPT !.timer = TRUE], s.me, Needed(s.me, s.tx))

\* The transaction of a split has the next identifier of the process.
CheckFanout(s) ==
  IF s.tx = NoTx /\ AllKnown(s.children) /\ Len(s.children) >= 2 * M
  THEN Search([s EXCEPT !.tx = s.drawn + 1, !.drawn = @ + 1, !.driver = s.me, !.state = "WAIT_STR"])
  ELSE s

Rollback(s) ==
  LET told == IF s.driver = s.me
              THEN [SendMembers(s, s.acked, "Rollback") EXCEPT !.noAck = {}, !.acked = {}] ELSE s
      old == SelectSeq(s.children, LAMBDA e : ~IsAddition(e))
  IN [told EXCEPT
        !.children = [i \in DOMAIN old |-> IF IsDeletion(old[i]) THEN RolledBackEntry(old[i]) ELSE old[i]],
        !.newFather = NoNode, !.tx = NoTx, !.driver = NoNode, !.timer = FALSE,
        !.state = IF s.state \in {"START_IN", "INIT"} THEN "OFFLINE" ELSE "ONLINE"]

---------------------------------------------------------------------------
(* The handlers of StructureNode that may have to wait.                    *)

\* The new resource node drives its own insertion.
AddResource(s, m) ==
  Send([s EXCEPT !.tx = m.tx, !.driver = m.who, !.state = "ADD_CHILD",
                 !.children = Sorted(<<Added(m.who)>> \o @)],
       m.who, Ack(m.tx, TRUE, FALSE))

InsertBelow(s, m) ==
  LET e == s.children[Closest(s.children, m.who)]
  IN IF AllKnown(s.children) \/ Covers(e.zone, m.who) THEN Send(s, e.link, m) ELSE Delay(s, m)

\* Variant: an insertion goes back up to the father that sent it down.
OnInsertBouncing(s, m, self) ==
  IF s.tx # NoTx \/ (s.state = "ONLINE" /\ s.zone = NoZone) \/ Len(s.children) >= 2 * M
    THEN Delay(s, m)
  ELSE IF s.state = "ONLINE"
    THEN IF s.father # NoNode /\ ~Covers(s.zone, m.who) THEN Send(s, s.father, m)
         ELSE IF s.level > 0 THEN InsertBelow(s, m) ELSE AddResource(s, m)
  ELSE IF m.who = s.me THEN AddResource(s, m) ELSE s

OnInsert(s, m, self) ==
  IF s.tx # NoTx \/ (s.state = "ONLINE" /\ s.zone = NoZone) \/ Len(s.children) >= 2 * M
    THEN Delay(s, m)
  ELSE IF s.state = "ONLINE"
    THEN IF s.father # NoNode /\ (m.src # s.father \/ self) /\ ~Covers(s.zone, m.who)
           THEN Send(s, s.father, m)
         ELSE IF s.level > 0 THEN InsertBelow(s, m) ELSE AddResource(s, m)
  ELSE IF m.who = s.me THEN AddResource(s, m) ELSE s

\* A branch passes a search on to where most nodes are available, and counts
\* one less there.
PassOn(s, m) ==
  IF \A i \in DOMAIN s.children : ~Known(s.children[i]) THEN Delay(s, m)
  ELSE LET i == MostAvailable(s.children)
           e == s.children[i]
       IN IF e.zone.avail > 0
            THEN Send([s EXCEPT !.children[i].zone.avail = @ - 1], e.link, m)
          ELSE IF AllKnown(s.children) /\ s.father # NoNode THEN Send(s, s.father, m)
          ELSE Delay(s, m)

OnNeeded(s, m) ==
  CASE s.state = "OFFLINE" -> Send([s EXCEPT !.tx = m.tx, !.driver = m.who, !.state = "START_IN"],
                                   m.who, Offer(m.tx))
    [] s.state = "START_IN" -> s
    [] OTHER -> PassOn(s, m)

OnNewFather(s, m) ==
  IF s.state = "OFFLINE" THEN s
  ELSE IF s.state \in {"START_IN", "INIT", "ADD_CHILD"} THEN Delay(s, m)
  ELSE IF m.src = s.father
    THEN Send([IF s.tx # NoTx THEN Rollback(s) ELSE s EXCEPT
                 !.driver = m.src, !.newFather = m.who, !.tx = m.tx, !.state = "CHANGE_FATHER"],
              m.src, Ack(m.tx, FALSE, FALSE))
  ELSE Send(s, m.src, Answer("Nack", m.tx, FALSE))

\* The child that splits is marked as changed, unless it has told its zone since.
SplitChild(e, m) ==
  IF m.seq <= e.seq THEN e
  ELSE [e EXCEPT !.seq = m.seq, !.newLink = e.link, !.newZone = NoZone, !.changing = TRUE]

OnNewChild(s, m) ==
  LET i == SelectInSeq(s.children, LAMBDA e : e.link = m.src)
  IN IF s.tx # NoTx \/ Len(s.children) >= 2 * M THEN Delay(s, m)
     ELSE IF i = 0 THEN s
     ELSE Send([s EXCEPT !.tx = m.tx, !.driver = m.src, !.state = "ADD_CHILD",
                  !.children = Sorted(<<Added(m.who)>> \o [@ EXCEPT ![i] = SplitChild(@, m)])],
               m.src, Ack(m.tx, FALSE, FALSE))

\* handleDelayedMsgs: each message once, until one starts a transaction.
HandleFirst(s, k) ==
  LET m == Head(s.delayed)
      t == [s EXCEPT !.delayed = Tail(@)]
  IN IF s.tx # NoTx THEN s
     ELSE CASE m.type = "Insert" -> OnInsert(t, m, TRUE)
            [] m.type = "Needed" -> OnNeeded(t, m)
            [] m.type = "NewFather" -> OnNewFather(t, m)
            [] m.type = "NewChild" -> OnNewChild(t, m)

HandleDelayed(s) == FoldLeft(HandleFirst, s, [k \in DOMAIN s.delayed |-> k])

---------------------------------------------------------------------------
(* The transactions of StructureNode.  The code keeps txDriver when one is *)
(* over, but reads it only in the next.                                    *)

CheckWaiting(s) ==
  IF s.state = "ONLINE" /\ s.zone # NoZone THEN CheckFanout(HandleDelayed(s)) ELSE s

Commit(s) ==
  LET told == IF s.driver = s.me THEN SendMembers(s, s.acked, "Commit") ELSE s
      kept == SelectSeq(s.children, LAMBDA e : ~IsDeletion(e))
      moved == IF s.newFather = NoNode THEN told
               ELSE [told EXCEPT !.father = s.newFather, !.newFather = NoNode, !.seq = 1, !.told = NoZone]
      done == Recompute([moved EXCEPT
                !.children = Sorted([i \in DOMAIN kept |-> CommittedEntry(kept[i])]),
                !.acked = {}, !.tx = NoTx, !.driver = NoNode, !.timer = FALSE, !.state = "ONLINE"])
  IN CheckWaiting(IF done.zone # NoZone /\ AllKnown(done.children) THEN NotifyFather(done) ELSE done)

OnUpdate(s, m) ==
  LET i == SelectInSeq(s.children, LAMBDA e : ComesFrom(e, m.src))
      heard == Recompute([s EXCEPT !.children =
                 Sorted([@ EXCEPT ![i] = SetZoneFrom([@ EXCEPT !.seq = m.seq], m.src, m.zone)])])
  IN IF i = 0 THEN s
     ELSE IF m.seq <= s.children[i].seq THEN s
     ELSE IF s.tx # NoTx \/ heard.zone = NoZone THEN heard
     ELSE CheckFanout(HandleDelayed(IF AllKnown(heard.children) THEN NotifyFather(heard) ELSE heard))

\* The first offer to a root is that of its father to be.
TakeFather(s, m) == Search([s EXCEPT !.newFather = m.src, !.noAck = @ \cup {<<m.src, FALSE>>}])

Split(s, brother) ==
  LET root == s.father = NoNode
      above == IF root THEN s.newFather ELSE s.father
      moved == Upper(s.children)
      kids == {s.children[i].link : i \in moved}
      below == s.level = 0
      tellFather == IF root
        THEN Send(s, above, InitStruct(NoNode, s.level + 1, {s.me, brother}, s.tx))
        ELSE Send([s EXCEPT !.seq = @ + 1], above, NewChild(brother, s.seq, s.tx))
      tellKids == SendAll(tellFather, kids, NewFather(brother, s.tx, below))
      tellBrother == Send(tellKids, brother, InitStruct(above, s.level, kids, s.tx))
  IN [tellBrother EXCEPT
        !.children = [i \in DOMAIN @ |-> IF i \in moved
                                          THEN [@[i] EXCEPT !.newLink = NoNode, !.changing = TRUE] ELSE @[i]],
        !.noAck = @ \cup {<<above, FALSE>>, <<brother, FALSE>>} \cup {<<k, below>> : k \in kids},
        !.timer = FALSE, !.state = "SPLITTING"]

\* An offer that comes too late, or for another search.
Revoke(s, m) == Send(s, m.src, Answer("Rollback", m.tx, FALSE))

OnOffer(s, m) ==
  IF s.tx = m.tx /\ s.state = "WAIT_STR"
  THEN IF s.father = NoNode /\ s.newFather = NoNode THEN TakeFather(s, m) ELSE Split(s, m.src)
  ELSE Revoke(s, m)

\* Variant: the children are its own at once.
OnInitStructAtOnce(s, m) ==
  IF s.tx = m.tx /\ s.state = "START_IN"
  THEN Send([s EXCEPT !.newFather = m.who, !.level = m.level, !.state = "INIT",
               !.children = Sorted(@ \o SetToSeq({Child(k, NoZone, 0) : k \in m.kids}))],
            m.src, Ack(s.tx, FALSE, FALSE))
  ELSE Send(s, m.src, Answer("Nack", m.tx, FALSE))

OnInitStruct(s, m) ==
  IF s.tx = m.tx /\ s.state = "START_IN"
  THEN Send([s EXCEPT !.newFather = m.who, !.level = m.level, !.state = "INIT",
               !.children = Sorted(@ \o SetToSeq({Added(k) : k \in m.kids}))],
            m.src, Ack(s.tx, FALSE, FALSE))
  ELSE Send(s, m.src, Answer("Nack", m.tx, FALSE))

Acked(s, p) == IF p \in s.noAck THEN [s EXCEPT !.noAck = @ \ {p}, !.acked = @ \cup {p}] ELSE s

\* Variant: an answer of another transaction counts.
OnAckOfAny(s, m) ==
  LET t == Acked(s, <<m.src, m.fromRN>>)
  IN IF s.tx = NoTx \/ s.driver # s.me THEN Send(s, m.src, Answer("Rollback", m.tx, m.fromRN))
     ELSE IF t.noAck = {} THEN Commit(t) ELSE t

OnAck(s, m) ==
  LET t == Acked(s, <<m.src, m.fromRN>>)
  IN IF s.tx # m.tx \/ s.driver # s.me THEN Send(s, m.src, Answer("Rollback", m.tx, m.fromRN))
     ELSE IF t.noAck = {} THEN Commit(t) ELSE t

OnNack(s, m) == IF s.tx = m.tx /\ s.driver = s.me THEN CheckWaiting(Rollback(s)) ELSE s

OnCommit(s, m) == IF s.tx = m.tx THEN Commit(s) ELSE s

OnRollback(s, m) == IF s.tx = m.tx /\ s.driver = m.src THEN CheckWaiting(Rollback(s)) ELSE s

---------------------------------------------------------------------------
(* ResourceNode.                                                           *)

RNOnInsert(r, m) ==
  IF r.tx # NoTx THEN Delay(r, m)
  ELSE IF r.father # NoNode THEN Send(r, r.father, [m EXCEPT !.forRN = FALSE]) ELSE r

RNOnNewFather(r, m) ==
  IF r.tx # NoTx THEN Delay(r, m)
  ELSE IF r.father = m.src
    THEN Send([r EXCEPT !.newFather = m.who, !.tx = m.tx], m.src, Ack(m.tx, FALSE, TRUE))
  ELSE r

RNHandleFirst(r, k) ==
  LET m == Head(r.delayed)
      t == [r EXCEPT !.delayed = Tail(@)]
  IN IF r.tx # NoTx THEN r ELSE IF m.type = "Insert" THEN RNOnInsert(t, m) ELSE RNOnNewFather(t, m)

RNHandleDelayed(r) == FoldLeft(RNHandleFirst, r, [k \in DOMAIN r.delayed |-> k])

RNNotifyFather(r) ==
  IF r.father = NoNode THEN r
  ELSE Send([r EXCEPT !.seq = @ + 1], r.father, Update(ResourceZone(r.me), r.seq))

RNCommit(r) ==
  LET moved == IF r.father # NoNode /\ r.father = r.newFather THEN r
               ELSE RNNotifyFather([r EXCEPT !.father = r.newFather, !.newFather = NoNode, !.seq = 1])
  IN RNHandleDelayed([moved EXCEPT !.tx = NoTx])

RNRollback(r) == RNHandleDelayed([r EXCEPT !.tx = NoTx, !.newFather = NoNode])

\* The answer to its insertion: the resource node commits, then its new father.
RNOnAck(r, m) ==
  IF r.tx = m.tx THEN Send(RNCommit([r EXCEPT !.newFather = m.src]), m.src, Answer("Commit", m.tx, FALSE))
  ELSE r

RNOnCommit(r, m) == IF r.tx = m.tx THEN RNCommit(r) ELSE r
RNOnUndo(r, m) == IF r.tx = m.tx THEN RNRollback(r) ELSE r

---------------------------------------------------------------------------

Quiet == EmptyBag

Offline(n) ==
  [me |-> n, state |-> "OFFLINE", level |-> 0, seq |-> 1, zone |-> NoZone, told |-> NoZone,
   father |-> NoNode, newFather |-> NoNode, children |-> <<>>, tx |-> NoTx, driver |-> NoNode,
   noAck |-> {}, acked |-> {}, delayed |-> <<>>, timer |-> FALSE, drawn |-> 0, out |-> Quiet]

Unheard == -1

\* The branches of a tree, up from level 0.
BranchesOf(tree) ==
  LET AtLevel[l \in Nat] ==
        [b \in {c \in DOMAIN tree : tree[c].level = l} |->
           LET kids == tree[b].kids
               Zone(k) == IF l = 0 THEN ResourceZone(k) ELSE AtLevel[l - 1][k].zone
               Entry(k) == IF kids[k] = Unheard THEN Child(k, NoZone, 0)
                           ELSE Child(k, [Zone(k) EXCEPT !.avail = kids[k]], 1)
               s == Recompute([Offline(b) EXCEPT
                      !.state = "ONLINE", !.level = l, !.father = tree[b].father, !.seq = 2,
                      !.drawn = tree[b].drawn, !.children = Sorted(SetToSeq({Entry(k) : k \in DOMAIN kids}))])
           IN [s EXCEPT !.told = IF s.father = NoNode THEN NoZone ELSE s.zone]]
  IN [b \in DOMAIN tree |-> AtLevel[tree[b].level][b]]

LeafOf(tree, n) ==
  LET B == {b \in DOMAIN tree : tree[b].level = 0 /\ n \in DOMAIN tree[b].kids}
      r == [me |-> n, father |-> NoNode, newFather |-> NoNode, tx |-> NoTx, seq |-> 1,
            delayed |-> <<>>, out |-> Quiet]
  IN IF B = {} THEN r ELSE [r EXCEPT !.father = CHOOSE b \in B : TRUE, !.seq = 2]

FirstUpdates(tree, b) ==
  LET Zone(k) == IF tree[b].level = 0 THEN ResourceZone(k) ELSE BranchesOf(tree)[k].zone
  IN {[Update(Zone(k), 1) EXCEPT !.src = k, !.dst = b] :
        k \in {h \in DOMAIN tree[b].kids : tree[b].kids[h] = Unheard}}

\* A resource node that is in the network has drawn the identifier it joined with.
StartFrom(start) ==
  /\ rn = [n \in Node |-> LeafOf(start.tree, n)]
  /\ sn = [n \in Node |-> IF n \in DOMAIN start.tree THEN BranchesOf(start.tree)[n]
                          ELSE [Offline(n) EXCEPT !.drawn = IF LeafOf(start.tree, n).father = NoNode THEN 0 ELSE 1]]
  /\ net = SetToBag({[Message EXCEPT !.type = "InsertCommand", !.dst = n, !.forRN = TRUE] : n \in start.joining}
                    \cup UNION {FirstUpdates(start.tree, b) : b \in DOMAIN start.tree})
  /\ timeouts = start.timeouts

Init == \E start \in Starts : StartFrom(start)

Arrived(type, forRN) == {m \in BagToSet(net) : m.type = type /\ m.forRN = forRN}

\* The handler of message m takes the structure, or the resource, node to s.
Branch(m, s) ==
  /\ sn' = [sn EXCEPT ![m.dst] = [s EXCEPT !.out = Quiet]]
  /\ net' = (net (-) SetToBag({m})) (+) s.out
  /\ UNCHANGED <<rn, timeouts>>

Leaf(m, r) ==
  /\ rn' = [rn EXCEPT ![m.dst] = [r EXCEPT !.out = Quiet]]
  /\ net' = (net (-) SetToBag({m})) (+) r.out
  /\ UNCHANGED <<sn, timeouts>>

HandleInsert     == \E m \in Arrived("Insert", FALSE) : Branch(m, OnInsert(sn[m.dst], m, FALSE))
HandleUpdate     == \E m \in Arrived("Update", FALSE) : Branch(m, OnUpdate(sn[m.dst], m))
HandleNeeded     == \E m \in Arrived("Needed", FALSE) : Branch(m, OnNeeded(sn[m.dst], m))
HandleOffer      == \E m \in Arrived("Offer", FALSE) : Branch(m, OnOffer(sn[m.dst], m))
HandleInitStruct == \E m \in Arrived("InitStruct", FALSE) : Branch(m, OnInitStruct(sn[m.dst], m))
HandleNewFather  == \E m \in Arrived("NewFather", FALSE) : Branch(m, OnNewFather(sn[m.dst], m))
HandleNewChild   == \E m \in Arrived("NewChild", FALSE) : Branch(m, OnNewChild(sn[m.dst], m))
HandleAck        == \E m \in Arrived("Ack", FALSE) : Branch(m, OnAck(sn[m.dst], m))
HandleCommit     == \E m \in Arrived("Commit", FALSE) : Branch(m, OnCommit(sn[m.dst], m))
HandleUndo       == \E m \in Arrived("Nack", FALSE) \cup Arrived("Rollback", FALSE) :
                      Branch(m, IF m.type = "Nack" THEN OnNack(sn[m.dst], m) ELSE OnRollback(sn[m.dst], m))

RNHandleInsert    == \E m \in Arrived("Insert", TRUE) : Leaf(m, RNOnInsert(rn[m.dst], m))
RNHandleNewFather == \E m \in Arrived("NewFather", TRUE) : Leaf(m, RNOnNewFather(rn[m.dst], m))
RNHandleAck       == \E m \in Arrived("Ack", TRUE) : Leaf(m, RNOnAck(rn[m.dst], m))
RNHandleCommit    == \E m \in Arrived("Commit", TRUE) : Leaf(m, RNOnCommit(rn[m.dst], m))
RNHandleRollback  == \E m \in Arrived("Rollback", TRUE) : Leaf(m, RNOnUndo(rn[m.dst], m))

\* The peers are told to join after their contact: an insertion that finds it
\* outside the network is dropped, and the peer waits for an answer for ever.
RNHandleInsertCommand == \E m \in Arrived("InsertCommand", TRUE) :
  LET n == m.dst
      tx == sn[n].drawn + 1
      r == Send([rn[n] EXCEPT !.tx = tx], Contact, Insert(n, tx, Contact # n))
  IN /\ n # Contact => rn[Contact].father # NoNode \/ rn[Contact].tx # NoTx
     /\ IF rn[n].father # NoNode THEN Leaf(m, rn[n])
        ELSE /\ rn' = [rn EXCEPT ![n] = [r EXCEPT !.out = Quiet]]
             /\ sn' = [sn EXCEPT ![n].drawn = tx]
             /\ net' = (net (-) SetToBag({m})) (+) r.out
             /\ UNCHANGED timeouts

\* The timer of a search, which is not armed again.
SearchTimeout(n) ==
  /\ sn[n].timer /\ timeouts > 0
  /\ timeouts' = timeouts - 1
  /\ sn' = [sn EXCEPT ![n].timer = FALSE]
  /\ net' = net (+) SetToBag({[Needed(n, sn[n].tx) EXCEPT !.src = n, !.dst = n]})
  /\ UNCHANGED rn

Next ==
  \/ HandleInsert \/ HandleUpdate \/ HandleNeeded \/ HandleOffer \/ HandleInitStruct
  \/ HandleNewFather \/ HandleNewChild \/ HandleAck \/ HandleCommit \/ HandleUndo
  \/ RNHandleInsert \/ RNHandleNewFather \/ RNHandleAck \/ RNHandleCommit
  \/ RNHandleRollback \/ RNHandleInsertCommand
  \/ \E n \in Node : SearchTimeout(n)

Spec == Init /\ [][Next]_vars

---------------------------------------------------------------------------
(* Properties.                                                             *)

States == {"OFFLINE", "START_IN", "INIT", "ONLINE", "ADD_CHILD", "CHANGE_FATHER", "WAIT_STR", "SPLITTING"}
Address == Node \cup {NoNode}
Zone == [lo : Address, hi : Address, avail : Nat]
Entry == [link : Address, newLink : Address, zone : Zone, newZone : Zone, changing : BOOLEAN, seq : Nat]

\* The fields of each node and what they range over; between two handlers
\* nothing is left to send.
BranchTypeOK(s, n) ==
  /\ s.me = n /\ s.state \in States /\ s.out = Quiet
  /\ {s.level, s.seq, s.tx, s.drawn} \subseteq Nat
  /\ {s.zone, s.told} \subseteq Zone
  /\ {s.father, s.newFather, s.driver} \subseteq Address
  /\ s.children \in Seq(Entry)
  /\ s.noAck \cup s.acked \subseteq Node \X BOOLEAN
  /\ s.timer \in BOOLEAN

\* Type correctness of StructureNode and ResourceNode; a branch has at most 2M
\* children, and only the branch that drives a split waits for answers.
TypeOK ==
  /\ \A n \in Node : BranchTypeOK(sn[n], n) /\ Len(sn[n].children) <= 2 * M
  /\ \A n \in Node : sn[n].noAck # {} => sn[n].driver = n /\ sn[n].state \in {"WAIT_STR", "SPLITTING"}
  /\ \A n \in Node : rn[n].me = n /\ {rn[n].father, rn[n].newFather} \subseteq Address
                     /\ {rn[n].tx, rn[n].seq} \subseteq Nat /\ rn[n].out = Quiet
  /\ timeouts \in Nat

Online(n) == sn[n].state = "ONLINE"
Links(n) == {sn[n].children[i].link : i \in DOMAIN sn[n].children} \ {NoNode}
AtRest == net = EmptyBag

\* When no message is on its way every transaction is over: nobody is left
\* prepared by a driver that gave up, nor waits for somebody who waits for it,
\* and what is still delayed are searches (of ended transactions).
TransactionsEnd ==
  AtRest => \A n \in Node : /\ sn[n].tx = NoTx /\ rn[n].tx = NoTx /\ rn[n].delayed = <<>>
                            /\ \A i \in DOMAIN sn[n].delayed : sn[n].delayed[i].type = "Needed"

\* When no message is on its way fathers and children agree on their links,
\* in both directions and level by level, and there is one root.
LinksAgree ==
  AtRest =>
    /\ \A n \in Node : rn[n].father # NoNode =>
         Online(rn[n].father) /\ sn[rn[n].father].level = 0 /\ n \in Links(rn[n].father)
    /\ \A n \in Node : Online(n) /\ sn[n].father # NoNode =>
         Online(sn[n].father) /\ sn[sn[n].father].level = sn[n].level + 1 /\ n \in Links(sn[n].father)
    /\ \A n \in Node : Online(n) =>
         \A k \in Links(n) : n = IF sn[n].level = 0 THEN rn[k].father ELSE sn[k].father
    /\ \A n, o \in Node : Online(n) /\ Online(o) /\ sn[n].father = NoNode /\ sn[o].father = NoNode => n = o

\* When no message is on its way a branch has less than 2M children, and at
\* least M unless it is the root: splits keep what merges would have to repair.
Balanced ==
  AtRest => \A n \in Node : Online(n) =>
              /\ Cardinality(Links(n)) < 2 * M
              /\ Cardinality(Links(n)) >= IF sn[n].father # NoNode THEN M
                                         ELSE IF sn[n].level > 0 THEN 2 ELSE 1

\* When no message is on its way, every peer that was told to join is in.
EveryoneIn == AtRest => \A n \in Node : sn[n].drawn > 0 => rn[n].father # NoNode

\* When no message is on its way, what a branch knows of the addresses below
\* each child is what is there, although updates are overtaken by each other
\* and by the transactions that move the child.
ZonesCover ==
  AtRest => \A n \in Node : Online(n) => \A i \in DOMAIN sn[n].children :
    LET e == sn[n].children[i]
        z == IF sn[n].level = 0 THEN ResourceZone(e.link) ELSE sn[e.link].zone
    IN e.zone.lo = z.lo /\ e.zone.hi = z.hi

\* At every moment a node is a child of at most one branch of each kind: the
\* branch that splits lets its children go before its new brother has them.
OneFather ==
  \A n, o \in Node : n # o /\ (sn[n].level = 0) = (sn[o].level = 0) => Links(n) \cap Links(o) = {}

\* A CommitMsg finds its receiver in that transaction, and with that driver:
\* "a commit with a wrong transaction ID is an error", and nobody who was
\* prepared has withdrawn meanwhile.  Nobody refuses to take part either:
\* those that are asked are in the state and have the father the driver thinks.
CommitsExpected ==
  \A m \in BagToSet(net) :
    /\ m.type # "Nack"
    /\ m.type = "Commit" =>
         IF m.forRN THEN rn[m.dst].tx = m.tx ELSE sn[m.dst].tx = m.tx /\ sn[m.dst].driver = m.src

\* Splits and joins, which come in any order and in several places at once,
\* leave one tree that its nodes agree on, with everybody in it and balanced,
\* in which branches know the addresses that are below them.
TreeIsSound == TypeOK /\ LinksAgree /\ OneFather /\ EveryoneIn /\ Balanced /\ ZonesCover

\* A transaction is over in all its members, or in none, and those that commit
\* are those that were prepared, although no member has a timeout.
TransactionsSettle == TransactionsEnd /\ CommitsExpected

\* The network comes to rest: searches and insertions that go up and down the
\* tree, delayed messages that are handled again, splits that are rolled back
\* and tried again, and zones that change each other do not go on for ever.
ComesToRest == <>[][FALSE]_vars
=============================================================================
