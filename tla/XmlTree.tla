-------------------------------- MODULE XmlTree --------------------------------
(***************************************************************************)
(* tinyxml2.cpp: the nodes of documents, how they are linked, moved,       *)
(* cloned and deleted, and the lists that say which of them the document   *)
(* must free.  Values are left out; an attribute is its name.  The program *)
(* that calls the library never puts a node under itself.  A move that     *)
(* goes through a null pointer ends the program.                           *)
(***************************************************************************)
EXTENDS Integers, Sequences, SequencesExt, FiniteSets

CONSTANTS Docs,         \* documents: numbers that are no node
          XmlNodes,     \* 1 .. n, the nodes that may exist; 0 is NULL
          XmlKinds,     \* a subset of {"element", "text", "comment", "declaration", "unknown"}
          AttrNames,    \* names of attributes
          MaxXmlCalls   \* bound on the calls

VARIABLES xml,          \* links: nodes, _unlinked and the untracked count of every document
          xmlCrash,     \* the program went through a null pointer
          xmlCalls      \* number of calls so far

xmlTreeVars == <<xml, xmlCrash, xmlCalls>>

NoNode == [live |-> FALSE, kind |-> "text", doc |-> 0, parent |-> 0, first |-> 0, last |-> 0,
           prev |-> 0, next |-> 0, attrs |-> << >>]

XmlTreeInit ==
  /\ xml = [node      |-> [n \in XmlNodes \cup Docs |->
                             IF n \in Docs THEN [NoNode EXCEPT !.live = TRUE, !.kind = "document", !.doc = n] ELSE NoNode],
            unlinked  |-> [d \in Docs |-> << >>],
            untracked |-> [d \in Docs |-> 0]]
  /\ xmlCrash = FALSE /\ xmlCalls = 0

----------------------------------------------------------------------------
(* Links.  x is the value of xml. *)

RECURSIVE Siblings(_, _)
Siblings(x, n) == IF n = 0 THEN << >> ELSE <<n>> \o Siblings(x, x.node[n].next)
KidsOf(x, n) == Siblings(x, x.node[n].first)

\* CreateUnlinkedNode: the node is in _unlinked and is not tracked.
FreeNodes(x) == {n \in XmlNodes : ~x.node[n].live}
FreshNode(x) == CHOOSE n \in FreeNodes(x) : \A m \in FreeNodes(x) : n =< m
CreateNode(x, d, kind, attrs) ==
  LET n == FreshNode(x)
  IN  [node      |-> [x.node EXCEPT ![n] = [NoNode EXCEPT !.live = TRUE, !.kind = kind, !.doc = d, !.attrs = attrs]],
       unlinked  |-> [x.unlinked EXCEPT ![d] = Append(@, n)],
       untracked |-> [x.untracked EXCEPT ![d] = @ + 1]]

SetTracked(x, n) == [x EXCEPT !.untracked[x.node[n].doc] = @ - 1]

\* XMLNode::Unlink
UnlinkNode(x, p, c) ==
  LET it == x.node[c]
      n1 == [x.node EXCEPT ![p].first = IF @ = c THEN it.next ELSE @, ![p].last = IF @ = c THEN it.prev ELSE @]
      n2 == IF it.prev # 0 THEN [n1 EXCEPT ![it.prev].next = it.next] ELSE n1
      n3 == IF it.next # 0 THEN [n2 EXCEPT ![it.next].prev = it.prev] ELSE n2
  IN  [x EXCEPT !.node = [n3 EXCEPT ![c].next = 0, ![c].prev = 0, ![c].parent = 0]]

\* XMLDocument::MarkInUse: SwapRemove puts the last one in its place.
MarkInUse(x, n) ==
  LET d  == x.node[n].doc
      u  == x.unlinked[d]
      at == {i \in DOMAIN u : u[i] = n}
      i  == CHOOSE j \in at : \A k \in at : j =< k
  IN  IF at = {} THEN x
      ELSE [x EXCEPT !.unlinked[d] = SubSeq([u EXCEPT ![i] = u[Len(u)]], 1, Len(u) - 1)]

\* Mutant: a node that is put under another stays in the list of unlinked nodes.
InsertPreambleUnlinked(x, c) ==
  IF x.node[c].parent # 0 THEN UnlinkNode(x, x.node[c].parent, c) ELSE SetTracked(x, c)

\* XMLNode::InsertChildPreamble
InsertPreamble(x, c) ==
  IF x.node[c].parent # 0 THEN UnlinkNode(x, x.node[c].parent, c) ELSE SetTracked(MarkInUse(x, c), c)

\* The insertions; a node of another document is refused.
SameDoc(x, p, c) == x.node[c].doc = x.node[p].doc

InsertEnd(x, p, c) ==
  LET y    == InsertPreamble(x, c)
      last == y.node[p].last
  IN  IF last # 0
      THEN [y EXCEPT !.node = [@ EXCEPT ![last].next = c, ![c].prev = last, ![c].next = 0, ![c].parent = p, ![p].last = c]]
      ELSE [y EXCEPT !.node = [@ EXCEPT ![p].first = c, ![p].last = c, ![c].prev = 0, ![c].next = 0, ![c].parent = p]]

InsertFirst(x, p, c) ==
  LET y     == InsertPreamble(x, c)
      first == y.node[p].first
  IN  IF first # 0
      THEN [y EXCEPT !.node = [@ EXCEPT ![first].prev = c, ![c].next = first, ![c].prev = 0, ![c].parent = p, ![p].first = c]]
      ELSE [y EXCEPT !.node = [@ EXCEPT ![p].first = c, ![p].last = c, ![c].prev = 0, ![c].next = 0, ![c].parent = p]]

\* InsertAfterChild looks at the next node before the preamble unlinks it:
\* the last node cannot be moved behind the one in front of it.
NullStep(x, a, c) == a # c /\ x.node[a].next # 0 /\ InsertPreamble(x, c).node[a].next = 0

InsertAfter(x, p, a, c) ==
  LET y    == InsertPreamble(x, c)
      next == y.node[a].next
  IN  IF a = c THEN x
      ELSE IF x.node[a].next = 0 THEN InsertEnd(x, p, c)
      ELSE [y EXCEPT !.node = [@ EXCEPT ![c].prev = a, ![c].next = next, ![next].prev = c, ![a].next = c, ![c].parent = p]]

----------------------------------------------------------------------------
(* Deleting and cloning *)

\* XMLNode::DeleteNode with the destructor, and DeleteChildren.
RECURSIVE FreeNode(_, _)
RECURSIVE DeleteKids(_, _)
FreeNode(x, n) ==
  LET y == DeleteKids(MarkInUse(x, n), n)
      z == IF y.node[n].parent # 0 THEN UnlinkNode(y, y.node[n].parent, n) ELSE y
  IN  [z EXCEPT !.node[n] = NoNode]
DeleteKids(x, n) ==
  LET c == x.node[n].first IN IF c = 0 THEN x ELSE DeleteKids(FreeNode(UnlinkNode(x, n, c), c), n)

\* XMLDocument::DeleteNode
DeleteAnywhere(x, n) ==
  IF x.node[n].parent # 0 THEN FreeNode(UnlinkNode(x, x.node[n].parent, n), n) ELSE FreeNode(SetTracked(x, n), n)

\* XMLDocument::Clear
RECURSIVE ClearUnlinked(_, _)
ClearUnlinked(x, d) == IF x.unlinked[d] = << >> THEN x ELSE ClearUnlinked(DeleteAnywhere(x, x.unlinked[d][1]), d)
ClearDoc(x, d) == ClearUnlinked(DeleteKids(x, d), d)

\* DeepClone into the document d, which ends up in _unlinked; a document has
\* no clone.  Needs is the number of nodes of a subtree.
RECURSIVE Needs(_, _)
Needs(x, n) == 1 + FoldLeft(LAMBDA sum, c : sum + Needs(x, c), 0, KidsOf(x, n))

RECURSIVE DeepClone(_, _, _)
DeepClone(x, n, d) ==
  LET clone == FreshNode(x)
      one(y, c) == LET kid == FreshNode(y) IN InsertEnd(DeepClone(y, c, d), clone, kid)
  IN  FoldLeft(one, CreateNode(x, d, x.node[n].kind, x.node[n].attrs), KidsOf(x, n))

----------------------------------------------------------------------------
(* The calls *)

LiveNodes == {n \in XmlNodes : xml.node[n].live}
Parents == Docs \cup {n \in LiveNodes : xml.node[n].kind = "element"}
Elements == {n \in LiveNodes : xml.node[n].kind = "element"}

RECURSIVE Inside(_, _)
Inside(x, n) == {n} \cup UNION {Inside(x, c) : c \in ToSet(KidsOf(x, n))}

\* The root of a tree that an attached or unlinked node hangs in is never
\* put under that node.
MayHold(p, c) == p \in Parents /\ c \in LiveNodes /\ p \notin Inside(xml, c)

Room(n) == Cardinality(FreeNodes(xml)) >= n
Becomes(x) == xml' = x /\ UNCHANGED xmlCrash

CallNew(d, kind) == Room(1) /\ Becomes(CreateNode(xml, d, kind, << >>))

CallInsertEnd(p, c) == MayHold(p, c) /\ Becomes(IF SameDoc(xml, p, c) THEN InsertEnd(xml, p, c) ELSE xml)
CallInsertFirst(p, c) == MayHold(p, c) /\ Becomes(IF SameDoc(xml, p, c) THEN InsertFirst(xml, p, c) ELSE xml)

CallInsertAfter(p, a, c) ==
  /\ MayHold(p, c) /\ a \in LiveNodes
  /\ IF ~SameDoc(xml, p, c) \/ xml.node[a].parent # p THEN Becomes(xml)
     ELSE IF NullStep(xml, a, c) THEN xmlCrash' = TRUE /\ UNCHANGED xml
     ELSE Becomes(InsertAfter(xml, p, a, c))

\* InsertNewChildElement and its siblings.
CallInsertNew(e, kind) ==
  /\ e \in Elements /\ Room(1)
  /\ Becomes(InsertEnd(CreateNode(xml, xml.node[e].doc, kind, << >>), e, FreshNode(xml)))

\* SetText: a first child that is text is given the value, or a text is made.
CallSetText(e) ==
  /\ e \in Elements
  /\ LET first == xml.node[e].first
     IN  IF first # 0 /\ xml.node[first].kind = "text" THEN Becomes(xml)
         ELSE Room(1) /\ Becomes(InsertFirst(CreateNode(xml, xml.node[e].doc, "text", << >>), e, FreshNode(xml)))

CallDeleteChildren(p) == p \in Parents /\ Becomes(DeleteKids(xml, p))
CallDeleteNode(n) == n \in LiveNodes /\ Becomes(DeleteAnywhere(xml, n))
CallClear(d) == Becomes(ClearDoc(xml, d))

CallShallowClone(n, d) == n \in LiveNodes /\ Room(1) /\ Becomes(CreateNode(xml, d, xml.node[n].kind, xml.node[n].attrs))
CallDeepClone(n, d) == n \in LiveNodes /\ Room(Needs(xml, n)) /\ Becomes(DeepClone(xml, n, d))

\* DeepCopy clears the target and copies into it, unless it is the source.
CallDeepCopy(d, to) ==
  LET clear == ClearDoc(xml, to)
      one(y, c) == LET kid == FreshNode(y) IN InsertEnd(DeepClone(y, c, to), to, kid)
  IN  /\ Cardinality(FreeNodes(clear)) >= Needs(xml, d) - 1
      /\ Becomes(IF to = d THEN xml ELSE FoldLeft(one, clear, KidsOf(clear, d)))

\* SetAttribute and DeleteAttribute
FindAttribute(e, a) == \E i \in DOMAIN xml.node[e].attrs : xml.node[e].attrs[i] = a
CallSetAttribute(e, a) ==
  e \in Elements /\ Becomes(IF FindAttribute(e, a) THEN xml ELSE [xml EXCEPT !.node[e].attrs = Append(@, a)])
CallDeleteAttribute(e, a) ==
  e \in Elements /\ Becomes([xml EXCEPT !.node[e].attrs = SelectSeq(@, LAMBDA b : b # a)])

XmlTreeNext ==
  /\ ~xmlCrash /\ xmlCalls < MaxXmlCalls /\ xmlCalls' = xmlCalls + 1
  /\ \/ \E d \in Docs : CallClear(d) \/ \E kind \in XmlKinds : CallNew(d, kind)
     \/ \E p \in Docs \cup XmlNodes : CallDeleteChildren(p)
     \/ \E p \in Docs \cup XmlNodes, c \in XmlNodes :
          CallInsertEnd(p, c) \/ CallInsertFirst(p, c) \/ \E a \in XmlNodes : CallInsertAfter(p, a, c)
     \/ \E n \in XmlNodes :
          \/ CallDeleteNode(n) \/ CallSetText(n)
          \/ \E kind \in XmlKinds : CallInsertNew(n, kind)
          \/ \E d \in Docs : CallShallowClone(n, d) \/ CallDeepClone(n, d)
          \/ \E a \in AttrNames : CallSetAttribute(n, a) \/ CallDeleteAttribute(n, a)
     \/ \E d, to \in Docs : CallDeepCopy(d, to)

----------------------------------------------------------------------------
(* Properties *)

(* Whatever is inserted, moved or deleted, the children of a node can be   *)
(* walked from both ends and know their parent, and no link leads to a     *)
(* node that was freed (tinyxml2.cpp:840-975).                             *)
XmlLinks ==
  \A p \in LiveNodes \cup Docs :
    LET kids == KidsOf(xml, p)
    IN  /\ \A k \in DOMAIN kids : xml.node[kids[k]].live /\ xml.node[kids[k]].parent = p
        /\ \A k \in DOMAIN kids : xml.node[kids[k]].prev = IF k = 1 THEN 0 ELSE kids[k - 1]
        /\ xml.node[p].last = IF kids = << >> THEN 0 ELSE kids[Len(kids)]
        /\ \A c \in LiveNodes : xml.node[c].parent = p => c \in ToSet(kids)

(* _unlinked holds each node that hangs in no tree once, and no other: a   *)
(* node is freed with its parent or with the document, never by both       *)
(* (tinyxml2.cpp:2151-2170).                                               *)
UnlinkedExact ==
  \A d \in Docs :
    /\ ToSet(xml.unlinked[d]) = {n \in LiveNodes : xml.node[n].doc = d /\ xml.node[n].parent = 0}
    /\ Len(xml.unlinked[d]) = Cardinality(ToSet(xml.unlinked[d]))

(* The pools count as untracked exactly the nodes that were never in use,  *)
(* so that the assertions of Clear hold (tinyxml2.cpp:2186-2192).          *)
PoolsBalanced == \A d \in Docs : xml.untracked[d] = Len(xml.unlinked[d])

(* A tree never mixes the nodes of two documents, whose pools are freed at *)
(* different times (tinyxml2.cpp:880).                                     *)
OneDocument == \A n \in LiveNodes : xml.node[n].parent # 0 => xml.node[xml.node[n].parent].doc = xml.node[n].doc

(* After any sequence of calls that link, move, clone and delete nodes,    *)
(* the links of a tree agree, a node is in one document and either in its  *)
(* tree or in its list of unlinked nodes, and the pools know how many      *)
(* nodes are in use (tinyxml2.cpp:716-1130, 2140-2190).                    *)
XmlTreeSound == XmlLinks /\ UnlinkedExact /\ PoolsBalanced /\ OneDocument
=============================================================================
