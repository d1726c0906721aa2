--------------------------- MODULE SubscriberDict ---------------------------
(***************************************************************************)
(* The dictionary behind SUBSCRIBER_DICT: a linked list on the heap, with   *)
(* the steps of addItem, delItem and getItem, and the two callbacks of the *)
(* keep-alive subscriber that call them.                                   *)
(*                                                                         *)
(* Sources: coupler/common.h:93-150, the calls in                          *)
(* coupler/keep_alive_subscriber.h and main() of coupler/server.c.         *)
(*                                                                         *)
(* The callbacks never preempt each other; a call is split at every access *)
(* of a cell so that a dangling pointer shows.  An access of memory that is *)
(* not a cell of the list crashes here (undefined behaviour may do worse). *)
(* The strings of a cell are its key and value; those that the callers     *)
(* allocate are not tracked, and nobody frees them.                        *)
(***************************************************************************)

CONSTANTS
  Cell,  \* the addresses malloc can return: bounds the heap
  Key,   \* coupler IDs as strings
  Val,   \* timestamps
  NoVal, \* NULL for a value
  NULL,  \* NULL for a cell
  WILD,  \* the contents of memory that nobody wrote
  Head   \* what the memory of dictAlloc may hold: NULL, WILD or both

ASSUME HeapAssumption ==
  /\ NULL \notin Cell /\ WILD \notin Cell /\ NULL # WILD
  /\ NoVal \notin Val
  /\ Head \subseteq {NULL, WILD}

VARIABLES
  dict,    \* SUBSCRIBER_DICT, the first cell
  heap,    \* the allocated cells, each with key, value and next
  pc,      \* where the call is: "idle", "delete", "insert", "get"; or "crashed"
  key, value,  \* its arguments
  ptr, prev,   \* its locals
  answer,  \* what the last getItem returned
  main     \* a process runs

vars == <<dict, heap, pc, key, value, ptr, prev, answer, main>>

Allocated == DOMAIN heap
NoCells == [c \in {} |-> NULL]

DictInit ==
  /\ dict = NULL
  /\ heap = NoCells
  /\ pc = "idle"
  /\ key \in Key
  /\ value = NoVal
  /\ ptr = NULL
  /\ prev = NULL
  /\ answer = NoVal
  /\ main = FALSE

-----------------------------------------------------------------------------
\* main: SUBSCRIBER_DICT = *dictAlloc() copies the first word of a block that is
\* not initialised, and forgets the block.  A crashed process may be restarted.
Restart ==
  /\ dict' \in Head
  /\ heap' = NoCells
  /\ pc' = "idle"
  /\ value' = NoVal
  /\ ptr' = NULL
  /\ prev' = NULL
  /\ answer' = NoVal
  /\ main' = TRUE
  /\ UNCHANGED key

Ready == main /\ pc = "idle"

\* dataChangeNotificationCallback calls addItem, which calls delItem first.
addItem(k, v) ==
  /\ Ready
  /\ pc' = "delete"
  /\ key' = k
  /\ value' = v
  /\ ptr' = dict
  /\ prev' = NULL
  /\ UNCHANGED <<dict, heap, answer, main>>

\* callbackCheckHeartBeat calls getItem for each watched coupler.
getItem(k) ==
  /\ Ready
  /\ pc' = "get"
  /\ key' = k
  /\ ptr' = dict
  /\ UNCHANGED <<dict, heap, value, prev, answer, main>>

\* Either loop dereferences its pointer.
Walking == pc \in {"delete", "get"} /\ ptr # NULL
AtCell == Walking /\ ptr \in Allocated
Matches == heap[ptr].key = key

Crash ==
  /\ Walking
  /\ ptr \notin Allocated
  /\ pc' = "crashed"
  /\ UNCHANGED <<dict, heap, key, value, ptr, prev, answer, main>>

Walk ==
  /\ AtCell
  /\ ~ Matches
  /\ ptr' = heap[ptr].next
  /\ prev' = IF pc = "delete" THEN ptr ELSE prev
  /\ UNCHANGED <<dict, heap, pc, key, value, answer, main>>

Return(result) ==
  /\ pc' = "idle"
  /\ ptr' = NULL
  /\ answer' = result
  /\ UNCHANGED <<dict, heap, key, value, prev, main>>

\* Mutant: a hit returns the key of the cell.
FoundKey == pc = "get" /\ AtCell /\ Matches /\ Return(heap[ptr].key)

Found == pc = "get" /\ AtCell /\ Matches /\ Return(heap[ptr].value)

NotFound == pc = "get" /\ ptr = NULL /\ Return(NoVal)

Without(cells, c) == [d \in DOMAIN cells \ {c} |-> cells[d]]

\* Mutant: the head is not moved when the first cell goes.
UnlinkInnerOnly ==
  /\ heap' = LET after == heap[ptr].next
             IN  Without(IF prev = NULL THEN heap ELSE [heap EXCEPT ![prev].next = after], ptr)
  /\ UNCHANGED dict

\* Mutant: the rest of the list is dropped with the cell.
UnlinkRest ==
  /\ dict' = IF prev = NULL THEN NULL ELSE dict
  /\ heap' = Without(IF prev = NULL THEN heap ELSE [heap EXCEPT ![prev].next = NULL], ptr)

\* The four cases of delItem come to: what pointed to the cell points past it.
Unlink ==
  LET after == heap[ptr].next
  IN  /\ dict' = IF prev = NULL THEN after ELSE dict
      /\ heap' = Without(IF prev = NULL THEN heap ELSE [heap EXCEPT ![prev].next = after], ptr)

\* The cell is unlinked and freed, and the loop left.
Delete ==
  /\ pc = "delete"
  /\ AtCell
  /\ Matches
  /\ Unlink
  /\ pc' = "insert"
  /\ ptr' = NULL
  /\ prev' = NULL
  /\ UNCHANGED <<key, value, answer, main>>

NothingToDelete ==
  /\ pc = "delete"
  /\ ptr = NULL
  /\ pc' = "insert"
  /\ prev' = NULL
  /\ UNCHANGED <<dict, heap, key, value, ptr, answer, main>>

\* Mutant: the head is moved before the new cell is linked to it.
InsertSwapped ==
  /\ pc = "insert"
  /\ \E d \in Cell \ Allocated :
       /\ heap' = [c \in Allocated \cup {d} |->
                     IF c = d THEN [key |-> key, value |-> value, next |-> d]
                     ELSE heap[c]]
       /\ dict' = d
  /\ pc' = "idle"
  /\ UNCHANGED <<key, value, ptr, prev, answer, main>>

\* The new first cell, wherever malloc puts it - the one just freed, too.
Insert ==
  /\ pc = "insert"
  /\ \E d \in Cell \ Allocated :
       /\ heap' = [c \in Allocated \cup {d} |->
                     IF c = d THEN [key |-> key, value |-> value, next |-> dict]
                     ELSE heap[c]]
       /\ dict' = d
  /\ pc' = "idle"
  /\ UNCHANGED <<key, value, ptr, prev, answer, main>>

Step ==
  \/ Crash
  \/ Walk
  \/ Found
  \/ NotFound
  \/ Delete
  \/ NothingToDelete
  \/ Insert

DictNext ==
  \/ Restart
  \/ \E k \in Key, v \in Val : addItem(k, v)
  \/ \E k \in Key : getItem(k)
  \/ Step

DictSpec == DictInit /\ [][DictNext]_vars

\* A call that was begun is carried on.
FairDict == DictSpec /\ WF_vars(Step)

-----------------------------------------------------------------------------
Place == Cell \cup {NULL, WILD}

\* Whoever follows the links of "cells" from a place in S stays in S.
IsClosed(cells, S) == \A c \in S \cap DOMAIN cells : cells[c].next \in S

\* The places that the links of "cells" lead to from c: the least closed set with c.
ReachableIn(cells, c) ==
  {d \in Place : \A S \in SUBSET Place : c \in S /\ IsClosed(cells, S) => d \in S}

Reachable(c) == ReachableIn(heap, c)

DictTypeOK ==
  /\ dict \in Place
  /\ Allocated \subseteq Cell
  /\ \A c \in Allocated : heap[c] \in
       [key : Key, value : Val, next : Place]
  /\ pc \in {"idle", "delete", "insert", "get", "crashed"}
  /\ key \in Key
  /\ value \in Val \cup {NoVal}
  /\ ptr \in Place
  /\ prev \in Cell \cup {NULL}
  /\ answer \in Val \cup {NoVal}
  /\ main \in BOOLEAN

\* Whatever the order of calls, the list is whole: every cell that was allocated
\* and not freed is in it exactly once, no pointer dangles, no key occurs twice,
\* and it ends in what the head started with.
ListIsWhole ==
  /\ Reachable(dict) \cap Cell = Allocated
  /\ Reachable(dict) \ Cell # {}
  /\ \A c, d \in Allocated :
       heap[c].key = heap[d].key \/ heap[c].next = heap[d].next => c = d

\* A process whose memory of dictAlloc happened to be zero never crashes in the
\* dictionary (server.c:84-86).
OnlyWildHeadCrashes == pc = "crashed" => WILD \in Reachable(dict)

\* What the cells in S say of key k.
Held(cells, S, k) ==
  LET holders == {c \in S : cells[c].key = k}
  IN  IF holders = {} THEN NoVal ELSE cells[CHOOSE c \in holders : TRUE].value

\* What a lookup would return; the new value counts from the moment the old cell
\* is gone.
Contents ==
  [k \in Key |->
     IF pc = "insert" /\ k = key THEN value
     ELSE Held(heap, Reachable(dict) \cap Allocated, k)]

\* The list implements the map: between the deletion of an old value and the
\* insertion of the new one no lookup can see that the key is missing, and a
\* lookup returns the value last put.
Map == INSTANCE StampMap WITH map <- Contents
ImplementsMap == Map!MapSpec

\* Every call returns, or the process has crashed: the list has no cycle.
CallsReturn == pc \in {"delete", "insert", "get"} ~> pc \in {"idle", "crashed"}
=============================================================================
