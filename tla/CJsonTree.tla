------------------------------- MODULE CJsonTree -------------------------------
(***************************************************************************)
(* cJSON.c: the items, their lists of children and who owns them.  In a    *)
(* list prev of the first item is the last one, or NULL when the list was  *)
(* made by cJSON_Create...Array or cJSON_Duplicate.  An allocation fails   *)
(* when all items are in use; a value string is known by its item.  The    *)
(* program that calls the library adds only items that are in no list,     *)
(* never under themselves, and makes references only to items without      *)
(* children.                                                               *)
(***************************************************************************)
EXTENDS Integers, Sequences, FiniteSets

CONSTANTS Items,      \* 1 .. n; 0 is NULL
          Kinds,      \* a subset of {"array", "object", "string"}
          Keys,       \* names of object items; Folded gives them in lower case
          Folded,
          MaxCalls    \* bound on the calls

VARIABLES heap,       \* the items
          strings,    \* value strings that are allocated, by their item
          roots,      \* items in no list that the program holds
          failedRefs, \* references that a failed call has left behind
          calls       \* number of calls so far

treeVars == <<heap, strings, roots, failedRefs, calls>>

NoKey == "none"
Free == [live |-> FALSE, kind |-> "array", ref |-> FALSE, konst |-> FALSE, key |-> NoKey,
         heapKey |-> FALSE, child |-> 0, next |-> 0, prev |-> 0, val |-> 0]

TreeInit ==
  /\ heap = [i \in Items |-> Free]
  /\ strings = {} /\ roots = {} /\ failedRefs = {} /\ calls = 0

----------------------------------------------------------------------------
(* Lists *)

\* The items from i on, along next.
RECURSIVE ListFrom(_, _)
ListFrom(h, i) == IF i = 0 THEN << >> ELSE <<i>> \o ListFrom(h, h[i].next)
Children(h, a) == ListFrom(h, h[a].child)
ChildSet(h, a) == {Children(h, a)[k] : k \in DOMAIN Children(h, a)}

RECURSIVE Subtree(_, _)
Subtree(h, i) ==
  {i} \cup IF h[i].ref THEN {} ELSE UNION {Subtree(h, c) : c \in ChildSet(h, i)}

\* get_array_item: NULL beyond the end.
GetArrayItem(h, a, which) ==
  IF which < Len(Children(h, a)) THEN Children(h, a)[which + 1] ELSE 0

SameKey(x, y, caseSensitive) == x = y \/ (~caseSensitive /\ Folded[x] = Folded[y])

\* get_object_item: with case the search ends at an item without a name.
GetObjectItem(h, o, key, caseSensitive) ==
  LET list  == Children(h, o)
      stops == {k \in DOMAIN list : \/ caseSensitive /\ h[list[k]].key = NoKey
                                    \/ h[list[k]].key # NoKey /\ SameKey(key, h[list[k]].key, caseSensitive)}
      first == CHOOSE k \in stops : \A j \in stops : k =< j
  IN  IF stops = {} THEN 0
      ELSE IF h[list[first]].key = NoKey THEN 0 ELSE list[first]

\* add_item_to_array
AddItemToArray(h, a, i) ==
  LET first == h[a].child
      last  == IF h[first].prev # 0 THEN h[first].prev ELSE ListFrom(h, first)[Len(ListFrom(h, first))]
  IN  IF first = 0 THEN [h EXCEPT ![a].child = i, ![i].prev = i, ![i].next = 0]
      ELSE [[h EXCEPT ![last].next = i, ![i].prev = last] EXCEPT ![first].prev = i]

\* Mutant: the item keeps its next.
DetachItemKeepsNext(h, p, i) ==
  LET it == h[i]
      h1 == IF i # h[p].child THEN [h EXCEPT ![it.prev].next = it.next] ELSE h
      h2 == IF it.next # 0 THEN [h1 EXCEPT ![it.next].prev = it.prev] ELSE h1
      h3 == IF i = h[p].child THEN [h2 EXCEPT ![p].child = it.next]
            ELSE IF it.next = 0 THEN [h2 EXCEPT ![h2[p].child].prev = it.prev] ELSE h2
  IN  [h3 EXCEPT ![i].prev = 0]

\* cJSON_DetachItemViaPointer
DetachItem(h, p, i) ==
  LET it == h[i]
      h1 == IF i # h[p].child THEN [h EXCEPT ![it.prev].next = it.next] ELSE h
      h2 == IF it.next # 0 THEN [h1 EXCEPT ![it.next].prev = it.prev] ELSE h1
      h3 == IF i = h[p].child THEN [h2 EXCEPT ![p].child = it.next]
            ELSE IF it.next = 0 THEN [h2 EXCEPT ![h2[p].child].prev = it.prev] ELSE h2
  IN  [h3 EXCEPT ![i].prev = 0, ![i].next = 0]

\* cJSON_InsertItemInArray
InsertItem(h, a, which, i) ==
  LET after == GetArrayItem(h, a, which)
      h1    == [h EXCEPT ![i].next = after, ![i].prev = h[after].prev, ![after].prev = i]
  IN  IF after = 0 THEN AddItemToArray(h, a, i)
      ELSE IF after = h[a].child THEN [h1 EXCEPT ![a].child = i]
      ELSE [h1 EXCEPT ![h1[i].prev].next = i]

\* The links of cJSON_ReplaceItemViaPointer, before the item is deleted.
ReplaceLinks(h, p, old, new) ==
  LET h1 == [h EXCEPT ![new].next = h[old].next, ![new].prev = h[old].prev]
      h2 == IF h1[new].next # 0 THEN [h1 EXCEPT ![h1[new].next].prev = new] ELSE h1
      h3 == IF h2[old].prev = old THEN [h2 EXCEPT ![new].prev = new] ELSE h2
      h4 == IF h2[new].prev # 0 THEN [h2 EXCEPT ![h2[new].prev].next = new] ELSE h2
      h5 == IF h4[new].next = 0 THEN [h4 EXCEPT ![h4[p].child].prev = new] ELSE h4
      h6 == IF h[p].child = old THEN [h3 EXCEPT ![p].child = new] ELSE h5
  IN  [h6 EXCEPT ![old].next = 0, ![old].prev = 0]

----------------------------------------------------------------------------
(* Items *)

FreeItems(h) == {i \in Items : ~h[i].live}
NewItem(h) == CHOOSE i \in FreeItems(h) : \A j \in FreeItems(h) : i =< j

\* What cJSON_Delete frees: the item, its children and all that follow it.
RECURSIVE Deleted(_, _)
Deleted(h, i) ==
  IF i = 0 THEN {}
  ELSE {i} \cup (IF h[i].ref THEN {} ELSE Deleted(h, h[i].child)) \cup Deleted(h, h[i].next)

FreedStrings(h, gone) == {h[i].val : i \in {j \in gone : ~h[j].ref}} \ {0}

Delete(h, strs, i) ==
  LET gone == Deleted(h, i)
  IN  [heap |-> [j \in Items |-> IF j \in gone THEN Free ELSE h[j]], strings |-> strs \ FreedStrings(h, gone)]

\* cJSON_CreateArray, cJSON_CreateObject, cJSON_CreateString
Create(h, strs, kind) ==
  LET i == NewItem(h)
  IN  [heap    |-> [h EXCEPT ![i] = [Free EXCEPT !.live = TRUE, !.kind = kind, !.val = IF kind = "string" THEN i ELSE 0]],
       strings |-> IF kind = "string" THEN strs \cup {i} ELSE strs,
       item    |-> i]

\* The name and its flag, in add_item_to_object and replace_item_in_object;
\* an old name is freed unless it is constant.
SetKey(h, i, key, constant) ==
  [h EXCEPT ![i].key = key, ![i].heapKey = ~constant, ![i].konst = constant]

\* create_reference
CreateReference(h, i) ==
  LET r == NewItem(h)
  IN  [heap |-> [h EXCEPT ![r] = [h[i] EXCEPT !.key = NoKey, !.heapKey = FALSE, !.ref = TRUE, !.next = 0, !.prev = 0]],
       item |-> r]

\* cJSON_Duplicate; item 0 is its failure, after what was made is deleted.
RECURSIVE Duplicate(_, _, _, _)
RECURSIVE DuplicateChildren(_, _, _, _, _)
Duplicate(h, strs, i, recurse) ==
  IF FreeItems(h) = {} THEN [heap |-> h, strings |-> strs, item |-> 0]
  ELSE LET n    == NewItem(h)
           has  == h[i].val # 0
           copy == [h[i] EXCEPT !.ref = FALSE, !.child = 0, !.next = 0, !.prev = 0, !.val = IF has THEN n ELSE 0]
           h1   == [h EXCEPT ![n] = copy]
           s1   == IF has THEN strs \cup {n} ELSE strs
       IN  IF recurse THEN DuplicateChildren(h1, s1, n, 0, h[i].child) ELSE [heap |-> h1, strings |-> s1, item |-> n]

\* The loop over the children c, which has reached the new child last.
DuplicateChildren(h, strs, n, last, c) ==
  IF c = 0 THEN [heap |-> h, strings |-> strs, item |-> n]
  ELSE LET made == Duplicate(h, strs, c, TRUE)
           h1   == IF last = 0 THEN [made.heap EXCEPT ![n].child = made.item]
                   ELSE [made.heap EXCEPT ![last].next = made.item, ![made.item].prev = last]
           back == Delete(made.heap, made.strings, n)
       IN  IF made.item = 0 THEN [heap |-> back.heap, strings |-> back.strings, item |-> 0]
           ELSE DuplicateChildren(h1, made.strings, n, made.item, h[c].next)

\* cJSON_CreateStringArray and its siblings: count new items, linked without
\* the last in prev of the first; a failure deletes the array.
RECURSIVE CreateItems(_, _, _, _, _)
CreateItems(h, strs, a, last, count) ==
  IF count = 0 THEN [heap |-> h, strings |-> strs, item |-> a]
  ELSE IF FreeItems(h) = {}
  THEN LET back == Delete(h, strs, a) IN [heap |-> back.heap, strings |-> back.strings, item |-> 0]
  ELSE LET made == Create(h, strs, "string")
           n    == made.item
           h1   == IF last = 0 THEN [made.heap EXCEPT ![a].child = n]
                   ELSE [made.heap EXCEPT ![last].next = n, ![n].prev = last]
       IN  CreateItems(h1, made.strings, a, n, count - 1)

----------------------------------------------------------------------------
(* The calls *)

Live == {i \in Items : heap[i].live}
Containers == {a \in Live : heap[a].kind # "string" /\ ~heap[a].ref}
CanHold(a, i) == i \in roots /\ a \in Containers /\ a \notin Subtree(heap, i)
Calls == calls < MaxCalls /\ calls' = calls + 1

Set(h, strs, held) == heap' = h /\ strings' = strs /\ roots' = held /\ UNCHANGED failedRefs
Fails == UNCHANGED <<heap, strings, roots, failedRefs>>

\* What a call has made, or the item 0 of a failure.
Hold(made) == Set(made.heap, made.strings, roots \cup ({made.item} \ {0}))

CallCreate(kind) ==
  IF FreeItems(heap) = {} THEN Fails ELSE Hold(Create(heap, strings, kind))

CallCreateArray(count) ==
  LET a == Create(heap, strings, "array")
  IN  IF FreeItems(heap) = {} THEN Fails ELSE Hold(CreateItems(a.heap, a.strings, a.item, 0, count))

CallAdd(a, i) == CanHold(a, i) /\ Set(AddItemToArray(heap, a, i), strings, roots \ {i})

\* strdup fails when copied is FALSE.
CallAddToObject(o, key, i, constant, copied) ==
  /\ CanHold(o, i) /\ heap[o].kind = "object"
  /\ IF constant \/ copied
     THEN Set(AddItemToArray(SetKey(heap, i, key, constant), o, i), strings, roots \ {i})
     ELSE Fails

\* cJSON_AddNullToObject and its siblings: the new item is deleted when its
\* name cannot be copied.
CallAddNew(o, key, kind, copied) ==
  /\ o \in Containers /\ heap[o].kind = "object"
  /\ LET made == Create(heap, strings, kind)
         back == Delete(made.heap, made.strings, made.item)
     IN  IF FreeItems(heap) = {} THEN Fails
         ELSE IF copied THEN Set(AddItemToArray(SetKey(made.heap, made.item, key, FALSE), o, made.item), made.strings, roots)
         ELSE Set(back.heap, back.strings, roots)

CallAddReference(a, i) ==
  /\ a \in Containers /\ i \in Live /\ heap[i].child = 0
  /\ LET made == CreateReference(heap, i)
     IN  IF FreeItems(heap) = {} THEN Fails ELSE Set(AddItemToArray(made.heap, a, made.item), strings, roots)

\* When the name cannot be copied, nobody knows the reference any more.
CallAddReferenceToObject(o, key, i, copied) ==
  /\ o \in Containers /\ heap[o].kind = "object" /\ i \in Live /\ heap[i].child = 0
  /\ LET made == CreateReference(heap, i)
     IN  IF FreeItems(heap) = {} THEN Fails
         ELSE IF copied THEN Set(AddItemToArray(SetKey(made.heap, made.item, key, FALSE), o, made.item), strings, roots)
         ELSE heap' = made.heap /\ failedRefs' = failedRefs \cup {made.item} /\ UNCHANGED <<strings, roots>>

\* cJSON_DetachItemFromArray and ...FromObject; the Delete forms as well.
Detached(a, i, delete) ==
  LET h == DetachItem(heap, a, i)
      d == Delete(h, strings, i)
  IN  IF i = 0 THEN Fails
      ELSE IF delete THEN Set(d.heap, d.strings, roots) ELSE Set(h, strings, roots \cup {i})

CallDetach(a, which, delete) == a \in Containers /\ Detached(a, GetArrayItem(heap, a, which), delete)
CallDetachKey(o, key, caseSensitive, delete) ==
  o \in Containers /\ heap[o].kind = "object" /\ Detached(o, GetObjectItem(heap, o, key, caseSensitive), delete)

CallInsert(a, which, i) == CanHold(a, i) /\ Set(InsertItem(heap, a, which, i), strings, roots \ {i})

\* cJSON_ReplaceItemViaPointer in the heap h, from which the old item goes.
Replaced(h, a, old, i) ==
  LET d == Delete(ReplaceLinks(h, a, old, i), strings, old)
  IN  IF old = 0 THEN Set(h, strings, roots) ELSE Set(d.heap, d.strings, roots \ {i})

CallReplace(a, which, i) == CanHold(a, i) /\ Replaced(heap, a, GetArrayItem(heap, a, which), i)
CallReplaceKey(o, key, i, caseSensitive, copied) ==
  /\ CanHold(o, i) /\ heap[o].kind = "object"
  /\ LET h == IF copied THEN SetKey(heap, i, key, FALSE)
              ELSE [heap EXCEPT ![i].key = NoKey, ![i].heapKey = FALSE, ![i].konst = FALSE]
     IN  Replaced(h, o, GetObjectItem(heap, o, key, caseSensitive), i)

CallDuplicate(i, recurse) == i \in Live /\ Hold(Duplicate(heap, strings, i, recurse))

CallDelete(i) ==
  /\ i \in roots
  /\ LET d == Delete(heap, strings, i) IN Set(d.heap, d.strings, roots \ {i})

TreeNext ==
  /\ Calls
  /\ \/ \E kind \in Kinds : CallCreate(kind)
     \/ \E count \in 1 .. 3 : CallCreateArray(count)
     \/ \E a, i \in Items : \/ CallAdd(a, i) \/ CallAddReference(a, i)
                            \/ \E which \in 0 .. 2 : CallInsert(a, which, i) \/ CallReplace(a, which, i)
     \/ \E o, i \in Items, key \in Keys, one, two \in BOOLEAN :
          \/ CallAddToObject(o, key, i, one, two)
          \/ CallAddReferenceToObject(o, key, i, one)
          \/ CallReplaceKey(o, key, i, one, two)
     \/ \E a \in Items, delete \in BOOLEAN :
          \/ \E which \in 0 .. 2 : CallDetach(a, which, delete)
          \/ \E key \in Keys, caseSensitive \in BOOLEAN : CallDetachKey(a, key, caseSensitive, delete)
     \/ \E o \in Items, key \in Keys, kind \in Kinds, copied \in BOOLEAN : CallAddNew(o, key, kind, copied)
     \/ \E i \in Items : CallDelete(i) \/ \E recurse \in BOOLEAN : CallDuplicate(i, recurse)

----------------------------------------------------------------------------
(* Properties *)

(* Every list can be walked both ways: prev is the item before, and prev   *)
(* of the first item is NULL or the last item, from where                  *)
(* add_item_to_array goes on (cJSON.c:1970).                               *)
ListsWellFormed ==
  \A a \in Live : ~heap[a].ref =>
    LET list == Children(heap, a)
    IN  /\ \A k \in 2 .. Len(list) : heap[list[k]].prev = list[k - 1]
        /\ list # << >> => heap[list[1]].prev \in {0, list[Len(list)]}

(* Every item has one owner: the program, or one list; only a failed       *)
(* cJSON_AddItemReferenceToObject leaves an item behind (cJSON.c:2079).    *)
OneOwner ==
  \A i \in Items :
    LET owners == {a \in Live : ~heap[a].ref /\ i \in ChildSet(heap, a)}
    IN  Cardinality(owners) + (IF i \in roots THEN 1 ELSE 0) + (IF i \in failedRefs THEN 1 ELSE 0)
          = IF heap[i].live THEN 1 ELSE 0

(* An item that the program holds is in no list: its links are NULL, so    *)
(* that cJSON_Delete takes nothing else with it (cJSON.c:252).             *)
RootsAlone == \A i \in roots : heap[i].next = 0 /\ heap[i].prev = 0

(* A value string lives as long as the item it was made for, and no        *)
(* longer: references neither free it nor keep it (cJSON.c:260).           *)
StringsOwned == strings = {heap[i].val : i \in {j \in Live : ~heap[j].ref}} \ {0}

(* The flag cJSON_StringIsConst is set for a name that must not be freed,  *)
(* and clear for one that must (cJSON.c:264, 2024-2040).                   *)
KeyFlagTells ==
  \A i \in Live : heap[i].key # NoKey => heap[i].konst = ~heap[i].heapKey

(* After any sequence of calls, failed allocations included, every item,   *)
(* name and value string has exactly one owner that will free it, and the  *)
(* next call finds the end of every list (cJSON.c:249-270, 1947-2301).     *)
JsonTreeSound == ListsWellFormed /\ OneOwner /\ RootsAlone /\ StringsOwned /\ KeyFlagTells
=============================================================================
