------------------------------- MODULE NgxRbtree -------------------------------
(***************************************************************************)
(* The timer tree of heartbeat/ngx_rbtree.c: a red-black tree of nodes     *)
(* that live inside the events.  A tree is a record of the root and of the *)
(* fields of all nodes; kid[d][n] is n->left or n->right, so that the two  *)
(* mirrored halves of the code are one definition with the side d.         *)
(*                                                                         *)
(* Keys are machine words and are compared by the sign of their            *)
(* difference, so that the order survives the overflow of the clock.       *)
(***************************************************************************)
EXTENDS Integers, Sequences, FiniteSets

CONSTANTS Nodes,      \* the nodes of the events
          Sentinel,   \* ngx_event_timer_sentinel
          NullNode,   \* NULL
          KeyWord,    \* 2 to the number of bits of a key
          Key         \* the key each node has when it is inserted

ASSUME SentinelAssumption == Sentinel \notin Nodes /\ NullNode \notin Nodes /\ NullNode # Sentinel

\* (ngx_rbtree_key_int_t) (a - b)
Diff(a, b) == ((a - b + KeyWord \div 2) % KeyWord) - KeyWord \div 2

\* "Timer values are spread in small range" (ngx_rbtree.c:117).
ASSUME SpreadAssumption ==
  \A m, n \in Nodes : Key[m] \in 0 .. KeyWord - 1 /\ Diff(Key[m], Key[n]) = -Diff(Key[n], Key[m])

VARIABLES tree,      \* the root and the fields of the nodes
          members    \* history: the nodes inserted and not deleted

rbtreeVars == <<tree, members>>

Sides == {"left", "right"}
Opposite(d) == IF d = "left" THEN "right" ELSE "left"
Cell == Nodes \cup {Sentinel}

EmptyTree ==
  [root   |-> Sentinel,
   kid    |-> [d \in Sides |-> [n \in Cell |-> NullNode]],
   parent |-> [n \in Cell |-> NullNode],
   red    |-> [n \in Cell |-> FALSE]]

RbtreeInit == tree = EmptyTree /\ members = {}

----------------------------------------------------------------------------
(* The operations *)

RECURSIVE MinNode(_, _)
MinNode(t, n) == IF t.kid["left"][n] = Sentinel THEN n ELSE MinNode(t, t.kid["left"][n])

\* The link to node n, in its parent or in the root, is set to m.
Relink(t, n, m) ==
  IF n = t.root THEN [t EXCEPT !.root = m]
  ELSE LET up == t.parent[n]
           d  == IF n = t.kid["left"][up] THEN "left" ELSE "right"
       IN  [t EXCEPT !.kid[d][up] = m]

\* Rotation to side d: the child on the other side takes the place of n.
Rotate(t, d, n) ==
  LET temp  == t.kid[Opposite(d)][n]
      inner == t.kid[d][temp]
      t1 == [t EXCEPT !.kid[Opposite(d)][n] = inner]
      t2 == IF inner # Sentinel THEN [t1 EXCEPT !.parent[inner] = n] ELSE t1
      t3 == Relink([t2 EXCEPT !.parent[temp] = t.parent[n]], n, temp)
  IN  [t3 EXCEPT !.kid[d][temp] = n, !.parent[n] = temp]

Paint(t, n, isRed) == [t EXCEPT !.red[n] = isRed]

\* Where ngx_rbtree_insert_timer_value hangs a node with this key: <<node, side>>.
RECURSIVE Place(_, _, _)
Place(t, temp, n) ==
  LET d == IF Diff(Key[n], Key[temp]) < 0 THEN "left" ELSE "right"
  IN  IF t.kid[d][temp] = Sentinel THEN <<temp, d>> ELSE Place(t, t.kid[d][temp], n)

\* Mutant: a red uncle is not looked at.
RECURSIVE InsertFixupNoUncle(_, _)
InsertFixupNoUncle(t, n) ==
  IF n = t.root \/ ~t.red[t.parent[n]] THEN Paint(t, t.root, FALSE)
  ELSE LET up   == t.parent[n]
           top  == t.parent[up]
           d    == IF up = t.kid["left"][top] THEN "left" ELSE "right"
           low == IF n = t.kid[Opposite(d)][up] THEN up ELSE n
           t1 == IF n = t.kid[Opposite(d)][up] THEN Rotate(t, d, up) ELSE t
           t2 == Paint(t1, t1.parent[low], FALSE)
           t3 == Paint(t2, t2.parent[t2.parent[low]], TRUE)
       IN  InsertFixupNoUncle(Rotate(t3, Opposite(d), t3.parent[t3.parent[low]]), low)

\* The loop that re-balances after an insertion, and the black root.
RECURSIVE InsertFixup(_, _)
InsertFixup(t, n) ==
  IF n = t.root \/ ~t.red[t.parent[n]] THEN Paint(t, t.root, FALSE)
  ELSE LET up    == t.parent[n]
           top   == t.parent[up]
           d     == IF up = t.kid["left"][top] THEN "left" ELSE "right"
           uncle == t.kid[Opposite(d)][top]
       IN  IF t.red[uncle]
           THEN InsertFixup(Paint(Paint(Paint(t, up, FALSE), uncle, FALSE), top, TRUE), top)
           ELSE LET bent == n = t.kid[Opposite(d)][up]
                    low  == IF bent THEN up ELSE n
                    t1   == IF bent THEN Rotate(t, d, up) ELSE t
                    t2   == Paint(t1, t1.parent[low], FALSE)
                    t3   == Paint(t2, t2.parent[t2.parent[low]], TRUE)
                IN  InsertFixup(Rotate(t3, Opposite(d), t3.parent[t3.parent[low]]), low)

RbtreeInsert(t, n) ==
  LET leaf == [t EXCEPT !.kid["left"][n] = Sentinel, !.kid["right"][n] = Sentinel]
  IN  IF t.root = Sentinel
      THEN Paint([leaf EXCEPT !.root = n, !.parent[n] = NullNode], n, FALSE)
      ELSE LET place == Place(t, t.root, n)
           IN  InsertFixup(Paint([leaf EXCEPT !.kid[place[2]][place[1]] = n,
                                              !.parent[n] = place[1]], n, TRUE), n)

\* The loop that re-balances after the deletion of a black node.
RECURSIVE DeleteFixup(_, _)
DeleteFixup(t, temp) ==
  IF temp = t.root \/ t.red[temp] THEN Paint(t, temp, FALSE)
  ELSE LET up == t.parent[temp]
           d  == IF temp = t.kid["left"][up] THEN "left" ELSE "right"
           o  == Opposite(d)
           w1 == t.kid[o][up]
           t1 == IF t.red[w1] THEN Rotate(Paint(Paint(t, w1, FALSE), up, TRUE), d, up) ELSE t
           w2 == t1.kid[o][up]
       IN  IF ~t1.red[t1.kid[d][w2]] /\ ~t1.red[t1.kid[o][w2]]
           THEN DeleteFixup(Paint(t1, w2, TRUE), up)
           ELSE LET t2 == IF t1.red[t1.kid[o][w2]] THEN t1
                          ELSE Rotate(Paint(Paint(t1, t1.kid[d][w2], FALSE), w2, TRUE), o, w2)
                    w3 == t2.kid[o][up]
                    t3 == Paint(t2, w3, t2.red[up])
                    t4 == Paint(Paint(t3, up, FALSE), t3.kid[o][w3], FALSE)
                    t5 == Rotate(t4, d, up)
                IN  Paint(t5, t5.root, FALSE)

\* The fields the code clears in a node it has taken out.
Cleared(t, n) ==
  [t EXCEPT !.kid["left"][n] = NullNode, !.kid["right"][n] = NullNode, !.parent[n] = NullNode]

\* subst, the successor of node, takes its place, links and colour.
Substitute(t, node, subst) ==
  LET l == t.kid["left"][node]
      r == t.kid["right"][node]
      t1 == [Relink(t, node, subst) EXCEPT !.kid["left"][subst] = l, !.kid["right"][subst] = r,
                                           !.parent[subst] = t.parent[node],
                                           !.red[subst] = t.red[node]]
      t2 == IF l # Sentinel THEN [t1 EXCEPT !.parent[l] = subst] ELSE t1
  IN  IF r # Sentinel THEN [t2 EXCEPT !.parent[r] = subst] ELSE t2

RbtreeDelete(t, node) ==
  LET l == t.kid["left"][node]
      r == t.kid["right"][node]
      subst == IF l = Sentinel \/ r = Sentinel THEN node ELSE MinNode(t, r)
      temp  == IF l = Sentinel \/ subst # node THEN t.kid["right"][subst] ELSE l
      t1 == [Relink(t, subst, temp) EXCEPT
               !.parent[temp] = IF subst # node /\ t.parent[subst] = node
                                THEN subst ELSE t.parent[subst]]
      t2 == IF subst = node THEN t1 ELSE Substitute(t1, node, subst)
      t3 == Cleared(t2, node)
  IN  IF subst = t.root THEN Cleared(Paint([t EXCEPT !.root = temp], temp, FALSE), node)
      ELSE IF t.red[subst] THEN t3 ELSE DeleteFixup(t3, temp)

\* ngx_rbtree_next: the node after n, or NullNode.
RECURSIVE Ascend(_, _)
Ascend(t, n) ==
  IF n = t.root THEN NullNode
  ELSE IF n = t.kid["left"][t.parent[n]] THEN t.parent[n] ELSE Ascend(t, t.parent[n])

RbtreeNext(t, n) ==
  IF t.kid["right"][n] # Sentinel THEN MinNode(t, t.kid["right"][n]) ELSE Ascend(t, n)

----------------------------------------------------------------------------
(* Any sequence of insertions and deletions *)

\* Between two calls three kinds of fields are dead, that is written before
\* they are read: the parents of the root and of the sentinel and the colour
\* of a node outside the tree.
Settled(t, nodes) ==
  [t EXCEPT !.parent[Sentinel] = NullNode, !.parent[t.root] = NullNode,
            !.red = [n \in Cell |-> n \in nodes \cup {Sentinel} /\ @[n]]]

InsertTimer(n) ==
  /\ n \notin members
  /\ members' = members \cup {n}
  /\ tree' = Settled(RbtreeInsert(tree, n), members')

DeleteTimer(n) ==
  /\ n \in members
  /\ members' = members \ {n}
  /\ tree' = Settled(RbtreeDelete(tree, n), members')

RbtreeStep == \E n \in Nodes : InsertTimer(n) \/ DeleteTimer(n)

----------------------------------------------------------------------------
(* Properties *)

RECURSIVE InOrder(_, _)
InOrder(t, n) ==
  IF n = Sentinel THEN << >>
  ELSE InOrder(t, t.kid["left"][n]) \o <<n>> \o InOrder(t, t.kid["right"][n])

\* The black nodes on the way down to any leaf, or -1 if the ways differ.
RECURSIVE BlackHeight(_, _)
BlackHeight(t, n) ==
  IF n = Sentinel THEN 0
  ELSE LET l == BlackHeight(t, t.kid["left"][n])
           r == BlackHeight(t, t.kid["right"][n])
       IN  IF l # r \/ l = -1 THEN -1 ELSE IF t.red[n] THEN l ELSE l + 1

(* The tree is balanced after every insertion and deletion: the root and   *)
(* the sentinel are black, a red node has black children, and all ways     *)
(* down have the same number of black nodes (ngx_rbtree.c:44-93, 156-320). *)
Balanced ==
  /\ ~tree.red[tree.root] /\ ~tree.red[Sentinel]
  /\ BlackHeight(tree, tree.root) # -1
  /\ \A n \in members : tree.red[n] =>
       \A d \in Sides : ~tree.red[tree.kid[d][n]]

(* The parent links are the inverse of the child links; that of the root   *)
(* is never used and may be stale after a deletion (ngx_rbtree.c:193).     *)
ParentLinks ==
  \A n \in members, d \in Sides :
    tree.kid[d][n] # Sentinel => tree.parent[tree.kid[d][n]] = n

(* The tree holds exactly the nodes inserted and not deleted, in the order *)
(* of their keys even when these overflow; duplicate keys do no harm: "it  *)
(* should not be a problem" (ngx_event_timer.c:14).                        *)
Ordered ==
  LET s == InOrder(tree, tree.root)
  IN  /\ Len(s) = Cardinality(members)
      /\ {s[k] : k \in DOMAIN s} = members
      /\ \A k \in 1 .. Len(s) - 1 : Diff(Key[s[k]], Key[s[k + 1]]) =< 0

(* From the minimum, ngx_rbtree_next visits the nodes in order, none left  *)
(* out, and ends (ngx_rbtree.c:383-409, ngx_event_timer.c:107).            *)
Walk ==
  LET s == InOrder(tree, tree.root)
  IN  members # {} =>
        /\ s[1] = MinNode(tree, tree.root)
        /\ \A k \in DOMAIN s : RbtreeNext(tree, s[k]) = IF k < Len(s) THEN s[k + 1] ELSE NullNode

(* What the loop relies on when it takes the leftmost timer: after any     *)
(* sequence of insertions and deletions the tree is balanced, its links    *)
(* agree in both directions, its nodes are in the order of their keys,     *)
(* across the overflow of the clock too, and ngx_rbtree_next visits them   *)
(* all (ngx_rbtree.c:24-409).                                              *)
TimerTreeSound == Balanced /\ ParentLinks /\ Ordered /\ Walk
=============================================================================
