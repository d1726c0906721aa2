----------------------- MODULE SubscriberDict_proofs -----------------------
(* Proofs about SubscriberDict, for any heap, keys and values. *)
EXTENDS SubscriberDict, TLAPS

-----------------------------------------------------------------------------
(* Following the links of a heap. *)

\* Cells are cells, and their links are places.
IsHeap(cells) == \A c \in DOMAIN cells : c \in Cell /\ cells[c].next \in Place

\* A place leads to itself and to nothing outside.
LEMMA ReachSelf ==
  ASSUME NEW cells, NEW c \in Place
  PROVE  c \in ReachableIn(cells, c) /\ ReachableIn(cells, c) \subseteq Place
BY DEF ReachableIn

\* Where one can get to, the link leads further.
LEMMA ReachNext ==
  ASSUME NEW cells, IsHeap(cells), NEW c
  PROVE  IsClosed(cells, ReachableIn(cells, c))
<1> SUFFICES ASSUME NEW d \in ReachableIn(cells, c), d \in DOMAIN cells
             PROVE  cells[d].next \in ReachableIn(cells, c)
  BY DEF IsClosed
<1>1. cells[d].next \in Place
  BY DEF IsHeap
<1> QED
  BY <1>1 DEF ReachableIn, IsClosed

\* A closed set holds whatever can be reached from its members.
LEMMA ReachLeast ==
  ASSUME NEW cells, NEW S \in SUBSET Place, NEW c \in S, IsClosed(cells, S)
  PROVE  ReachableIn(cells, c) \subseteq S
BY DEF ReachableIn

\* What is not a cell leads nowhere.
LEMMA ReachEnd ==
  ASSUME NEW cells, NEW c \in Place, c \notin DOMAIN cells
  PROVE  ReachableIn(cells, c) = {c}
<1>1. IsClosed(cells, {c}) /\ {c} \in SUBSET Place
  BY DEF IsClosed
<1> QED
  BY <1>1, ReachLeast, ReachSelf

\* A cell leads to itself and to where its link leads.
LEMMA ReachCell ==
  ASSUME NEW cells, IsHeap(cells), NEW c \in DOMAIN cells
  PROVE  ReachableIn(cells, c) = {c} \cup ReachableIn(cells, cells[c].next)
<1> DEFINE next == cells[c].next
<1>1. c \in Place /\ next \in Place
  BY DEF IsHeap, Place
<1>2. ReachableIn(cells, c) \subseteq {c} \cup ReachableIn(cells, next)
  <2>1. IsClosed(cells, {c} \cup ReachableIn(cells, next))
    BY <1>1, ReachNext, ReachSelf DEF IsClosed
  <2> QED
    BY <1>1, <2>1, ReachSelf, ReachLeast
<1>3. ReachableIn(cells, next) \subseteq ReachableIn(cells, c)
  <2>1. IsClosed(cells, ReachableIn(cells, c)) /\ c \in ReachableIn(cells, c)
    BY <1>1, ReachNext, ReachSelf
  <2>2. next \in ReachableIn(cells, c)
    BY <2>1 DEF IsClosed
  <2> QED
    BY <1>1, <2>1, <2>2, ReachSelf, ReachLeast
<1> QED
  BY <1>1, <1>2, <1>3, ReachSelf

-----------------------------------------------------------------------------
(***************************************************************************)
(* The inductive invariant.                                                *)
(***************************************************************************)

\* No link leads back to the first cell.
HeadIsFirst == \A c \in Allocated : heap[c].next # dict

\* A walk is in the list and has not passed the cell it looks for.
Searching ==
  pc \in {"delete", "get"} =>
    /\ ptr \in Reachable(dict)
    /\ \A c \in Allocated : heap[c].key = key => c \in Reachable(ptr)

\* delItem holds the cell before the one it looks at.
Trailing ==
  pc = "delete" =>
    /\ prev = NULL => ptr = dict
    /\ prev # NULL => prev \in Allocated /\ heap[prev].next = ptr

\* addItem inserts a key that is not in the list.
Replacing ==
  /\ pc \in {"delete", "insert"} => value \in Val
  /\ pc = "insert" => \A c \in Allocated : heap[c].key # key

DictInv ==
  /\ DictTypeOK
  /\ ListIsWhole
  /\ HeadIsFirst
  /\ Searching
  /\ Trailing
  /\ Replacing
  /\ OnlyWildHeadCrashes

\* The heap of the invariant is one.
LEMMA HeapFacts ==
  ASSUME DictTypeOK
  PROVE  IsHeap(heap) /\ dict \in Place /\ NULL \in Place /\ WILD \in Place /\ Cell \subseteq Place
BY DEF DictTypeOK, IsHeap, Place, Allocated

\* Every cell of the list has its link in the list.
LEMMA LinksInList ==
  ASSUME DictTypeOK, ListIsWhole, NEW c \in Allocated
  PROVE  /\ c \in Reachable(dict)
         /\ heap[c].next \in Reachable(dict)
         /\ heap[c].next \in Cell => heap[c].next \in Allocated
<1>1. c \in Reachable(dict)
  BY DEF ListIsWhole, DictTypeOK
<1>2. IsClosed(heap, Reachable(dict))
  BY HeapFacts, ReachNext DEF Reachable
<1>3. heap[c].next \in Reachable(dict)
  BY <1>1, <1>2 DEF IsClosed, Allocated
<1> QED
  BY <1>1, <1>3 DEF ListIsWhole

\* No cell links to itself: nothing else could lead to it.
LEMMA NoSelfLink ==
  ASSUME DictTypeOK, ListIsWhole, HeadIsFirst, NEW c \in Allocated
  PROVE  heap[c].next # c
<1> SUFFICES ASSUME heap[c].next = c
             PROVE  FALSE
  OBVIOUS
<1> DEFINE S == Reachable(dict) \ {c}
<1>1. dict # c
  BY DEF HeadIsFirst
<1>2. dict \in S /\ S \in SUBSET Place
  BY <1>1, HeapFacts, ReachSelf DEF Reachable
<1>3. IsClosed(heap, S)
  <2> SUFFICES ASSUME NEW d \in S, d \in Allocated
               PROVE  heap[d].next \in S
    BY DEF IsClosed, Allocated
  <2>1. heap[d].next # c
    BY DEF ListIsWhole
  <2> QED
    BY <2>1, LinksInList
<1>4. Reachable(dict) \subseteq S
  BY <1>2, <1>3, ReachLeast DEF Reachable
<1> QED
  BY <1>4, LinksInList

-----------------------------------------------------------------------------
(* The steps that change the list. *)

\* The four cases of delItem, cell by cell.
LEMMA UnlinkCells ==
  ASSUME DictTypeOK, Trailing, pc = "delete", AtCell, Unlink
  PROVE  /\ Allocated' = Allocated \ {ptr}
         /\ \A d \in Allocated' :
              /\ heap'[d].key = heap[d].key
              /\ heap'[d].value = heap[d].value
              /\ heap'[d].next = IF d = prev THEN heap[ptr].next ELSE heap[d].next
         /\ \A d \in Allocated' : heap'[d] \in [key : Key, value : Val, next : Place]
<1>1. heap[ptr].next \in Place
  BY DEF DictTypeOK, AtCell
<1>2. \A d \in Allocated : heap[d] \in [key : Key, value : Val, next : Place]
  BY DEF DictTypeOK
<1>3. CASE prev = NULL
  <2>1. heap' = [d \in Allocated \ {ptr} |-> heap[d]]
    BY <1>3 DEF Unlink, Without, Allocated
  <2>2. prev \notin Allocated
    BY <1>3, HeapAssumption DEF DictTypeOK
  <2> QED
    BY <1>2, <2>1, <2>2 DEF Allocated
<1>4. CASE prev # NULL
  <2> DEFINE bridged == [heap EXCEPT ![prev].next = heap[ptr].next]
  <2>1. heap' = [d \in Allocated \ {ptr} |-> bridged[d]]
    BY <1>4 DEF Unlink, Without, Allocated
  <2>2. \A d \in Allocated : d # prev => bridged[d] = heap[d]
    BY DEF Allocated
  <2>3. prev \in Allocated => bridged[prev] = [heap[prev] EXCEPT !.next = heap[ptr].next]
    BY DEF Allocated
  <2>4. prev \in Allocated =>
          /\ bridged[prev].key = heap[prev].key
          /\ bridged[prev].value = heap[prev].value
          /\ bridged[prev].next = heap[ptr].next
          /\ bridged[prev] \in [key : Key, value : Val, next : Place]
    BY <1>1, <1>2, <2>3
  <2> HIDE DEF bridged
  <2> QED
    BY <1>2, <2>1, <2>2, <2>4 DEF Allocated
<1> QED
  BY <1>3, <1>4

\* The cell that is freed, and nothing else, leaves the list.
LEMMA UnlinkReach ==
  ASSUME DictTypeOK, ListIsWhole, HeadIsFirst, Trailing, pc = "delete", AtCell, Unlink
  PROVE  Reachable(dict)' = Reachable(dict) \ {ptr}
<1> DEFINE R == Reachable(dict)
           S == Reachable(dict)'
           after == heap[ptr].next
<1>1. ptr \in Allocated /\ after # ptr /\ after \in R /\ ptr \in R
  BY NoSelfLink, LinksInList DEF AtCell
<1>2. /\ Allocated' = Allocated \ {ptr}
      /\ \A d \in Allocated' :
           heap'[d].next = IF d = prev THEN after ELSE heap[d].next
  BY UnlinkCells
<1>3. IsHeap(heap') /\ dict' \in Place /\ dict \in Place
  BY <1>1, UnlinkCells, HeapFacts DEF IsHeap, Allocated, DictTypeOK, Unlink
<1>4. R \in SUBSET Place /\ S \in SUBSET Place /\ dict \in R /\ dict' \in S
  BY <1>3, ReachSelf DEF Reachable
<1>5. S \subseteq R \ {ptr}
  <2>1. dict' \in R \ {ptr}
    BY <1>1, <1>4 DEF Unlink, Trailing, HeadIsFirst
  <2>2. IsClosed(heap', R \ {ptr})
    <3> SUFFICES ASSUME NEW d \in R \ {ptr}, d \in Allocated'
                 PROVE  heap'[d].next \in R \ {ptr}
      BY DEF IsClosed, Allocated
    <3>1. CASE d = prev
      BY <1>1, <1>2, <3>1
    <3>2. CASE d # prev
      <4>1. heap[d].next \in R
        BY <1>2, LinksInList
      <4>2. heap[d].next # ptr
        BY <1>2, <3>2 DEF Trailing, HeadIsFirst, ListIsWhole
      <4> QED
        BY <1>2, <3>2, <4>1, <4>2
    <3> QED
      BY <3>1, <3>2
  <2> QED
    BY <1>4, <2>1, <2>2, ReachLeast DEF Reachable
<1>6. IsClosed(heap', S)
  BY <1>3, ReachNext DEF Reachable
<1>7. \A d \in S \cap Allocated : d # ptr /\ d \in Allocated' /\ heap'[d].next \in S
  BY <1>2, <1>5, <1>6 DEF IsClosed, Allocated
<1>8. R \subseteq S \cup {ptr}
  <2>1. CASE prev = NULL \/ prev \in S
    <3>1. dict \in S \cup {ptr} /\ after \in S
      BY <1>4, <1>7, <1>2, <2>1, HeapAssumption DEF Unlink, Trailing, DictTypeOK
    <3>2. IsClosed(heap, S \cup {ptr})
      <4> SUFFICES ASSUME NEW d \in S \cup {ptr}, d \in Allocated
                   PROVE  heap[d].next \in S \cup {ptr}
        BY DEF IsClosed, Allocated
      <4>1. CASE d = ptr
        BY <3>1, <4>1
      <4>2. CASE d # ptr /\ d = prev
        BY <4>2, HeapAssumption DEF Trailing, DictTypeOK
      <4>3. CASE d # ptr /\ d # prev
        BY <1>2, <1>7, <4>3
      <4> QED
        BY <4>1, <4>2, <4>3
    <3> QED
      BY <1>1, <1>4, <3>1, <3>2, ReachLeast DEF Reachable
  <2>2. CASE prev # NULL /\ prev \notin S
    <3>1. dict \in S
      BY <1>4, <2>2 DEF Unlink
    <3>2. IsClosed(heap, S)
      BY <1>2, <1>7, <2>2 DEF IsClosed, Allocated
    <3> QED
      BY <1>4, <3>1, <3>2, ReachLeast DEF Reachable
  <2> QED
    BY <2>1, <2>2
<1> QED
  BY <1>5, <1>8

\* Deleting leaves a whole list that does not hold the key.
LEMMA DeleteStep ==
  ASSUME DictInv, Delete
  PROVE  /\ ListIsWhole' /\ HeadIsFirst'
         /\ \A d \in Allocated' : heap'[d].key # key
<1> USE DEF DictInv
<1>0. pc = "delete" /\ AtCell /\ Matches /\ Unlink
  BY DEF Delete
<1>1. ptr \in Allocated /\ heap[ptr].key = key /\ ptr \in Cell
  BY <1>0 DEF AtCell, Matches, DictTypeOK
<1>2. /\ Allocated' = Allocated \ {ptr}
      /\ \A d \in Allocated' :
           /\ heap'[d].key = heap[d].key
           /\ heap'[d].next = IF d = prev THEN heap[ptr].next ELSE heap[d].next
  BY <1>0, UnlinkCells
<1>3. Reachable(dict)' = Reachable(dict) \ {ptr}
  BY <1>0, UnlinkReach
<1>4. \A c, d \in Allocated :
        heap[c].key = heap[d].key \/ heap[c].next = heap[d].next => c = d
  BY DEF ListIsWhole
<1>5. ListIsWhole'
  <2>1. Reachable(dict)' \cap Cell = Allocated' /\ Reachable(dict)' \ Cell # {}
    BY <1>1, <1>2, <1>3 DEF ListIsWhole
  <2>2. ASSUME NEW c \in Allocated', NEW d \in Allocated',
               heap'[c].key = heap'[d].key \/ heap'[c].next = heap'[d].next
        PROVE  c = d
    BY <1>1, <1>2, <1>4, <2>2
  <2> QED
    BY <2>1, <2>2 DEF ListIsWhole
<1>6. HeadIsFirst'
  <2> SUFFICES ASSUME NEW d \in Allocated'
               PROVE  heap'[d].next # dict'
    BY DEF HeadIsFirst
  <2>1. CASE prev = NULL
    <3>1. dict' = heap[ptr].next /\ d # prev
      BY <1>0, <1>2, <2>1, HeapAssumption DEF Unlink, DictTypeOK
    <3> QED
      BY <1>1, <1>2, <1>4, <3>1
  <2>2. CASE prev # NULL
    <3>1. dict' = dict
      BY <1>0, <2>2 DEF Unlink
    <3> QED
      BY <1>1, <1>2, <3>1 DEF HeadIsFirst
  <2> QED
    BY <2>1, <2>2
<1>7. \A d \in Allocated' : heap'[d].key # key
  BY <1>1, <1>2, <1>4
<1> QED
  BY <1>5, <1>6, <1>7

\* The new first cell and the cells that were there.
LEMMA InsertCells ==
  ASSUME DictTypeOK, Replacing, Insert
  PROVE  \E d \in Cell \ Allocated :
           /\ dict' = d
           /\ Allocated' = Allocated \cup {d}
           /\ heap'[d] = [key |-> key, value |-> value, next |-> dict]
           /\ \A c \in Allocated : heap'[c] = heap[c]
           /\ \A c \in Allocated' : heap'[c] \in [key : Key, value : Val, next : Place]
<1>1. PICK d \in Cell \ Allocated :
        /\ heap' = [c \in Allocated \cup {d} |->
                      IF c = d THEN [key |-> key, value |-> value, next |-> dict]
                      ELSE heap[c]]
        /\ dict' = d
  BY DEF Insert
<1>2. value \in Val /\ key \in Key /\ dict \in Place
  BY DEF Insert, Replacing, DictTypeOK
<1>3. [key |-> key, value |-> value, next |-> dict] \in [key : Key, value : Val, next : Place]
  BY <1>2
<1>4. Allocated' = Allocated \cup {d}
  BY <1>1 DEF Allocated
<1> QED
  BY <1>1, <1>3, <1>4 DEF DictTypeOK

\* Inserting a key that the list does not hold leaves a whole list.
LEMMA InsertStep ==
  ASSUME DictInv, Insert
  PROVE  ListIsWhole' /\ HeadIsFirst'
<1> USE DEF DictInv
<1>1. PICK d \in Cell \ Allocated :
        /\ dict' = d
        /\ Allocated' = Allocated \cup {d}
        /\ heap'[d] = [key |-> key, value |-> value, next |-> dict]
        /\ \A c \in Allocated : heap'[c] = heap[c]
        /\ \A c \in Allocated' : heap'[c] \in [key : Key, value : Val, next : Place]
  BY InsertCells
<1> DEFINE R == Reachable(dict)
           S == ReachableIn(heap', dict)
<1>2. heap'[d].next = dict /\ heap'[d].key = key
  BY <1>1
<1>3. IsHeap(heap') /\ dict \in Place /\ dict # d /\ d \notin R
  <2>1. dict \in Place /\ dict \in R
    BY HeapFacts, ReachSelf DEF Reachable
  <2>2. d \notin R
    BY DEF ListIsWhole
  <2> QED
    BY <1>1, <2>1, <2>2, HeapFacts DEF IsHeap, Allocated
<1>4. R = S
  <2>1. IsClosed(heap, R) /\ dict \in R /\ R \in SUBSET Place
    BY <1>3, HeapFacts, ReachNext, ReachSelf DEF Reachable
  <2>2. IsClosed(heap', R)
    BY <1>1, <1>3, <2>1 DEF IsClosed, Allocated
  <2>3. IsClosed(heap', S) /\ dict \in S /\ S \in SUBSET Place
    BY <1>3, ReachNext, ReachSelf
  <2>4. IsClosed(heap, S)
    BY <1>1, <2>3 DEF IsClosed, Allocated
  <2> QED
    BY <2>1, <2>2, <2>3, <2>4, ReachLeast DEF Reachable
<1>5. Reachable(dict)' = {d} \cup R
  <2>1. d \in DOMAIN heap'
    BY <1>1 DEF Allocated
  <2>2. ReachableIn(heap', d) = {d} \cup ReachableIn(heap', heap'[d].next)
    BY <1>3, <2>1, ReachCell
  <2> QED
    BY <1>1, <1>2, <1>4, <2>2 DEF Reachable
<1>6. \A c \in Allocated : heap'[c].next # dict /\ heap'[c].next # d /\ heap'[c].key # key
  BY <1>1, <1>3, LinksInList DEF HeadIsFirst, Replacing, Insert
<1>7. ListIsWhole'
  <2>1. Reachable(dict)' \cap Cell = Allocated' /\ Reachable(dict)' \ Cell # {}
    BY <1>1, <1>5 DEF ListIsWhole
  <2>2. ASSUME NEW b \in Allocated', NEW c \in Allocated',
               heap'[b].key = heap'[c].key \/ heap'[b].next = heap'[c].next
        PROVE  b = c
    BY <1>1, <1>2, <1>6, <2>2 DEF ListIsWhole
  <2> QED
    BY <2>1, <2>2 DEF ListIsWhole
<1>8. HeadIsFirst'
  BY <1>1, <1>2, <1>3, <1>6 DEF HeadIsFirst
<1> QED
  BY <1>7, <1>8

\* A fresh process has an empty list, whatever its head.
LEMMA RestartStep ==
  ASSUME heap' = NoCells, dict' \in {NULL, WILD}
  PROVE  ListIsWhole' /\ HeadIsFirst' /\ Allocated' = {} /\ Reachable(dict)' = {dict'}
<1>1. Allocated' = {}
  BY DEF Allocated, NoCells
<1>2. Reachable(dict)' = {dict'}
  BY <1>1, ReachEnd DEF Reachable, Place, Allocated
<1> QED
  BY <1>1, <1>2, HeapAssumption DEF ListIsWhole, HeadIsFirst

-----------------------------------------------------------------------------
(***************************************************************************)
(* The invariant holds.                                                    *)
(***************************************************************************)

\* The steps of a lookup and of a walk leave the list alone.
LEMMA SameList ==
  ASSUME UNCHANGED <<dict, heap>>
  PROVE  /\ Allocated' = Allocated
         /\ ListIsWhole' <=> ListIsWhole
         /\ HeadIsFirst' <=> HeadIsFirst
         /\ \A c : Reachable(c)' = Reachable(c)
<1>1. Allocated' = Allocated /\ \A c : ReachableIn(heap', c) = ReachableIn(heap, c)
  BY DEF Allocated
<1>2. Reachable(dict)' = Reachable(dict)
  BY <1>1 DEF Reachable
<1> QED
  BY <1>1, <1>2 DEF Reachable, ListIsWhole, HeadIsFirst

\* The types, step by step.
LEMMA DictTypeStep ==
  ASSUME DictInv, [DictNext]_vars
  PROVE  DictTypeOK'
<1> USE DEF DictTypeOK, Allocated
<1>0. DictTypeOK
  BY DEF DictInv
<1>1. CASE Restart
  BY <1>0, <1>1, HeapAssumption DEF Restart, Place, NoCells
<1>2. ASSUME NEW k \in Key, NEW v \in Val, addItem(k, v)
      PROVE  DictTypeOK'
  BY <1>0, <1>2 DEF addItem
<1>3. ASSUME NEW k \in Key, getItem(k)
      PROVE  DictTypeOK'
  BY <1>0, <1>3 DEF getItem
<1>4. CASE Crash \/ NotFound \/ NothingToDelete
  BY <1>0, <1>4 DEF Crash, NotFound, Return, NothingToDelete, Place
<1>5. CASE Walk
  <2>1. ptr \in Cell /\ heap[ptr].next \in Place
    BY <1>0, <1>5 DEF Walk, AtCell
  <2> QED
    BY <1>0, <1>5, <2>1 DEF Walk
<1>6. CASE Found
  <2>1. heap[ptr].value \in Val
    BY <1>0, <1>6 DEF Found, AtCell
  <2> QED
    BY <1>0, <1>6, <2>1 DEF Found, Return, Place
<1>7. CASE Delete
  <2>0. pc = "delete" /\ AtCell /\ Unlink /\ Trailing
    BY <1>7 DEF Delete, DictInv
  <2>1. Allocated' \subseteq Cell /\ \A d \in Allocated' : heap'[d] \in [key : Key, value : Val, next : Place]
    BY <1>0, <2>0, UnlinkCells
  <2>2. dict' \in Place
    BY <1>0, <2>0 DEF Unlink, AtCell
  <2> QED
    BY <1>0, <1>7, <2>1, <2>2 DEF Delete, Place
<1>8. CASE Insert
  <2>1. /\ dict' \in Cell /\ Allocated' \subseteq Cell
        /\ \A d \in Allocated' : heap'[d] \in [key : Key, value : Val, next : Place]
    BY <1>0, <1>8, InsertCells DEF DictInv
  <2> QED
    BY <1>0, <1>8, <2>1 DEF Insert, Place
<1>9. CASE UNCHANGED vars
  BY <1>0, <1>9 DEF vars
<1> QED
  BY <1>1, <1>2, <1>3, <1>4, <1>5, <1>6, <1>7, <1>8, <1>9 DEF DictNext, Step

\* A walk that has not passed its key, step by step.
LEMMA SearchStep ==
  ASSUME DictInv, [DictNext]_vars
  PROVE  Searching' /\ Trailing' /\ Replacing' /\ OnlyWildHeadCrashes'
<1> USE DEF Searching, Trailing, Replacing, OnlyWildHeadCrashes
<1>0. DictTypeOK /\ ListIsWhole /\ Searching /\ Trailing /\ Replacing /\ OnlyWildHeadCrashes
  BY DEF DictInv
<1>a. dict \in Reachable(dict) /\ dict \in Place
  BY <1>0, HeapFacts, ReachSelf DEF Reachable
<1>1. CASE Restart
  BY <1>1 DEF Restart
<1>2. ASSUME NEW k \in Key, NEW v \in Val, addItem(k, v)
      PROVE  Searching' /\ Trailing' /\ Replacing' /\ OnlyWildHeadCrashes'
  BY <1>0, <1>a, <1>2, SameList, LinksInList DEF addItem
<1>3. ASSUME NEW k \in Key, getItem(k)
      PROVE  Searching' /\ Trailing' /\ Replacing' /\ OnlyWildHeadCrashes'
  BY <1>0, <1>a, <1>3, SameList, LinksInList DEF getItem
<1>4. CASE Crash
  <2>1. ptr \in Reachable(dict) /\ ptr \notin Allocated /\ ptr # NULL /\ ptr \in Place
    BY <1>0, <1>4 DEF Crash, Walking, DictTypeOK
  <2>2. ptr = WILD
    BY <1>0, <2>1 DEF ListIsWhole, Place
  <2> QED
    BY <1>4, <2>1, <2>2, SameList DEF Crash
<1>5. CASE Walk
  <2>0. pc \in {"delete", "get"} /\ ptr \in Allocated /\ heap[ptr].key # key
    BY <1>5 DEF Walk, AtCell, Walking, Matches
  <2>1. Reachable(ptr) = {ptr} \cup Reachable(heap[ptr].next)
    BY <1>0, <2>0, HeapFacts, ReachCell DEF Reachable, Allocated
  <2>2. heap[ptr].next \in Reachable(dict)
    BY <1>0, <2>0, LinksInList
  <2>3. ptr # NULL
    BY <1>0, <2>0, HeapAssumption DEF DictTypeOK
  <2>4. Reachable(ptr)' = Reachable(heap[ptr].next)
    BY <1>5 DEF Walk, Reachable
  <2>5. Searching'
    BY <1>0, <1>5, <2>0, <2>1, <2>2, <2>4, SameList DEF Walk
  <2> QED
    BY <1>0, <1>5, <2>0, <2>3, <2>5, SameList DEF Walk
<1>6. CASE Found \/ NotFound
  BY <1>6 DEF Found, NotFound, Return
<1>7. CASE Delete
  BY <1>0, <1>7, DeleteStep DEF Delete
<1>8. CASE NothingToDelete
  <2>1. Reachable(ptr) = {NULL}
    BY <1>0, <1>8, HeapFacts, HeapAssumption, ReachEnd
       DEF NothingToDelete, Reachable, DictTypeOK, Allocated
  <2>2. \A c \in Allocated : heap[c].key # key
    BY <1>0, <1>8, <2>1, HeapAssumption DEF NothingToDelete, DictTypeOK
  <2> QED
    BY <1>0, <1>8, <2>2, SameList DEF NothingToDelete
<1>9. CASE Insert
  BY <1>9 DEF Insert
<1>10. CASE UNCHANGED vars
  <2>1. Reachable(ptr)' = Reachable(ptr) /\ Reachable(dict)' = Reachable(dict)
    BY <1>10 DEF vars, Reachable
  <2> QED
    BY <1>0, <1>10, <2>1, SameList DEF vars
<1> QED
  BY <1>1, <1>2, <1>3, <1>4, <1>5, <1>6, <1>7, <1>8, <1>9, <1>10 DEF DictNext, Step

\* The list and the calls keep their invariant whatever the order of calls, the
\* heap and the head.
THEOREM DictCorrect == DictSpec => []DictInv
<1>1. DictInit => DictInv
  <2> SUFFICES ASSUME DictInit
               PROVE  DictInv
    OBVIOUS
  <2>1. Allocated = {} /\ dict = NULL /\ NULL \in Place
    BY DEF DictInit, NoCells, Allocated, Place
  <2>2. Reachable(dict) = {NULL}
    BY <2>1, ReachEnd DEF Reachable, Allocated
  <2>3. DictTypeOK
    BY <2>1 DEF DictInit, DictTypeOK
  <2> QED
    BY <2>1, <2>2, <2>3, HeapAssumption
       DEF DictInit, DictInv, ListIsWhole, HeadIsFirst, Searching, Trailing, Replacing,
           OnlyWildHeadCrashes
<1>2. DictInv /\ [DictNext]_vars => DictInv'
  <2> SUFFICES ASSUME DictInv, [DictNext]_vars
               PROVE  DictInv'
    OBVIOUS
  <2>1. CASE Restart
    <3>1. heap' = NoCells /\ dict' \in {NULL, WILD}
      BY <2>1, HeapAssumption DEF Restart
    <3>2. ListIsWhole' /\ HeadIsFirst'
      BY <3>1, RestartStep
    <3> QED
      BY <3>2, DictTypeStep, SearchStep DEF DictInv
  <2>2. CASE Delete
    BY <2>2, DeleteStep, DictTypeStep, SearchStep DEF DictInv
  <2>3. CASE Insert
    BY <2>3, InsertStep, DictTypeStep, SearchStep DEF DictInv
  <2>4. CASE ~ Restart /\ ~ Delete /\ ~ Insert
    <3>1. UNCHANGED <<dict, heap>>
      BY <2>4 DEF DictNext, addItem, getItem, Step, Crash, Walk, Found, NotFound, Return,
         NothingToDelete, vars
    <3> QED
      BY <3>1, SameList, DictTypeStep, SearchStep DEF DictInv
  <2> QED
    BY <2>1, <2>2, <2>3, <2>4
<1> QED
  BY <1>1, <1>2, PTL DEF DictSpec

\* Every variable of the dictionary keeps its type.
THEOREM DictTypeCorrect == DictSpec => []DictTypeOK
BY DictCorrect, PTL DEF DictInv

\* The list is whole after any sequence of calls: nothing is lost, doubled or
\* left dangling.
THEOREM ListCorrect == DictSpec => []ListIsWhole
BY DictCorrect, PTL DEF DictInv

\* Only an uninitialised head that was not zero crashes the process.
THEOREM CrashCorrect == DictSpec => []OnlyWildHeadCrashes
BY DictCorrect, PTL DEF DictInv

-----------------------------------------------------------------------------
(***************************************************************************)
(* The list implements the map.                                            *)
(***************************************************************************)

\* What cells with different keys hold.
LEMMA HeldValue ==
  ASSUME NEW cells, NEW S, NEW k,
         \A b, c \in S : cells[b].key = cells[c].key => b = c
  PROVE  /\ \A c \in S : cells[c].key = k => Held(cells, S, k) = cells[c].value
         /\ (\A c \in S : cells[c].key # k) => Held(cells, S, k) = NoVal
<1> DEFINE holders == {c \in S : cells[c].key = k}
<1>1. CASE holders = {}
  BY <1>1 DEF Held
<1>2. ASSUME NEW c \in holders
      PROVE  Held(cells, S, k) = cells[c].value
  <2>1. (CHOOSE d \in holders : TRUE) \in holders
    OBVIOUS
  <2>2. (CHOOSE d \in holders : TRUE) = c
    BY <2>1
  <2> QED
    BY <2>2 DEF Held
<1> QED
  BY <1>1, <1>2

\* The same cells hold the same.
LEMMA HeldSame ==
  ASSUME NEW old, NEW new, NEW S, NEW T, NEW k,
         \A b, c \in S : old[b].key = old[c].key => b = c,
         \A b, c \in T : new[b].key = new[c].key => b = c,
         \A c \in S : old[c].key = k =>
           c \in T /\ new[c].key = k /\ new[c].value = old[c].value,
         \A c \in T : new[c].key = k => c \in S /\ old[c].key = k
  PROVE  Held(new, T, k) = Held(old, S, k)
<1>1. CASE \E c \in S : old[c].key = k
  BY <1>1, HeldValue
<1>2. CASE \A c \in S : old[c].key # k
  BY <1>2, HeldValue
<1> QED
  BY <1>1, <1>2

\* The map is what the allocated cells hold.
LEMMA ListHolds ==
  ASSUME ListIsWhole, DictTypeOK
  PROVE  /\ Reachable(dict) \cap Allocated = Allocated
         /\ \A b, c \in Allocated : heap[b].key = heap[c].key => b = c
BY DEF ListIsWhole, DictTypeOK

\* An insertion that is due or done gives the key its value, and no other key.
LEMMA DeletePuts ==
  ASSUME DictInv, Delete \/ NothingToDelete, ListIsWhole', DictTypeOK'
  PROVE  Map!Put(key, value) /\ key \in Key /\ value \in Val
<1>1. /\ pc = "delete" /\ pc' = "insert"
      /\ UNCHANGED <<key, value, answer>>
      /\ key \in Key /\ value \in Val
  BY DEF Delete, NothingToDelete, DictInv, DictTypeOK, Replacing
<1>2. ASSUME NEW k \in Key, k # key
      PROVE  Held(heap', Allocated', k) = Held(heap, Allocated, k)
  <2>1. \A b, c \in Allocated : heap[b].key = heap[c].key => b = c
    BY ListHolds DEF DictInv
  <2>2. \A b, c \in Allocated' : heap'[b].key = heap'[c].key => b = c
    BY DEF ListIsWhole
  <2>3. CASE Delete
    <3>1. /\ Allocated' = Allocated \ {ptr}
          /\ \A d \in Allocated' : heap'[d].key = heap[d].key /\ heap'[d].value = heap[d].value
      BY <2>3, UnlinkCells DEF Delete, DictInv
    <3>2. heap[ptr].key = key
      BY <2>3 DEF Delete, Matches
    <3> QED
      BY <1>2, <2>1, <2>2, <3>1, <3>2, HeldSame
  <2>4. CASE NothingToDelete
    BY <2>4 DEF NothingToDelete, Allocated
  <2> QED
    BY <2>3, <2>4
<1>3. /\ Reachable(dict) \cap Allocated = Allocated
      /\ Reachable(dict)' \cap Allocated' = Allocated'
  BY ListHolds DEF DictInv, ListIsWhole, DictTypeOK
<1>4. Contents' = [Contents EXCEPT ![key] = value]
  BY <1>1, <1>2, <1>3 DEF Contents
<1> QED
  BY <1>1, <1>4 DEF Map!Put

\* The value counts already when its cell is linked in.
LEMMA InsertHides ==
  ASSUME DictInv, Insert, ListIsWhole', DictTypeOK'
  PROVE  UNCHANGED <<Contents, answer>>
<1>1. /\ pc = "insert" /\ pc' = "idle"
      /\ UNCHANGED <<key, value, answer>>
      /\ \A c \in Allocated : heap[c].key # key
  BY DEF Insert, DictInv, Replacing
<1>2. /\ Reachable(dict) \cap Allocated = Allocated
      /\ Reachable(dict)' \cap Allocated' = Allocated'
      /\ \A b, c \in Allocated : heap[b].key = heap[c].key => b = c
      /\ \A b, c \in Allocated' : heap'[b].key = heap'[c].key => b = c
  BY ListHolds DEF DictInv, ListIsWhole, DictTypeOK
<1>3. PICK d \in Cell \ Allocated :
        /\ Allocated' = Allocated \cup {d}
        /\ heap'[d] = [key |-> key, value |-> value, next |-> dict]
        /\ \A c \in Allocated : heap'[c] = heap[c]
  BY InsertCells DEF DictInv
<1>4. heap'[d].key = key /\ heap'[d].value = value
  BY <1>3
<1>5. Held(heap', Allocated', key) = value
  BY <1>2, <1>3, <1>4, HeldValue
<1>6. ASSUME NEW k \in Key, k # key
      PROVE  Held(heap', Allocated', k) = Held(heap, Allocated, k)
  BY <1>2, <1>3, <1>4, <1>6, HeldSame
<1>7. Contents' = Contents
  BY <1>1, <1>2, <1>5, <1>6 DEF Contents
<1> QED
  BY <1>1, <1>7

\* Every step of the list is one of the map or leaves it alone.
LEMMA MapStep ==
  ASSUME DictInv, DictInv', [DictNext]_vars
  PROVE  [Map!MapNext]_<<Contents, answer>>
<1> USE DEF Map!MapNext
<1>0. /\ Reachable(dict) \cap Allocated = Allocated
      /\ \A b, c \in Allocated : heap[b].key = heap[c].key => b = c
      /\ ListIsWhole' /\ DictTypeOK' /\ DictTypeOK /\ key \in Key
  BY ListHolds DEF DictInv, DictTypeOK
<1>1. CASE Restart
  <2>1. Allocated' = {} /\ pc' = "idle" /\ answer' = NoVal
    BY <1>1 DEF Restart, NoCells, Allocated
  <2>2. \A k \in Key : Held(heap', Reachable(dict)' \cap Allocated', k) = NoVal
    BY <2>1, HeldValue
  <2>3. Contents' = [k \in Key |-> NoVal]
    BY <2>1, <2>2 DEF Contents
  <2>4. Map!Reset
    BY <2>1, <2>3 DEF Map!Reset, Map!Empty
  <2> QED
    BY <2>4
<1>2. CASE \/ \E k \in Key, v \in Val : addItem(k, v)
           \/ \E k \in Key : getItem(k)
           \/ Crash \/ Walk \/ UNCHANGED vars
  <2>1. /\ UNCHANGED <<dict, heap, answer>>
        /\ (pc # "insert" /\ pc' # "insert") \/ UNCHANGED <<pc, key, value>>
    BY <1>2 DEF addItem, getItem, Ready, Crash, Walk, AtCell, Walking, vars
  <2>2. Contents' = Contents
    BY <2>1, SameList DEF Contents
  <2> QED
    BY <2>1, <2>2
<1>3. CASE Found
  <2>1. pc = "get" /\ ptr \in Allocated /\ heap[ptr].key = key /\ answer' = heap[ptr].value
    BY <1>3 DEF Found, AtCell, Matches, Return
  <2>2. Contents[key] = heap[ptr].value
    BY <1>0, <2>1, HeldValue DEF Contents
  <2>3. Contents' = Contents
    BY <1>3, SameList DEF Found, Return, Contents
  <2>4. Map!Get(key)
    BY <2>1, <2>2, <2>3 DEF Map!Get
  <2> QED
    BY <1>0, <2>4
<1>4. CASE NotFound
  <2>1. pc = "get" /\ ptr = NULL /\ answer' = NoVal
    BY <1>4 DEF NotFound, Return
  <2>2. Reachable(ptr) = {NULL}
    BY <1>0, <2>1, HeapFacts, HeapAssumption, ReachEnd DEF Reachable, DictTypeOK, Allocated
  <2>3. \A c \in Allocated : heap[c].key # key
    BY <1>0, <2>1, <2>2, HeapAssumption DEF DictInv, Searching, DictTypeOK
  <2>4. Contents[key] = NoVal
    BY <1>0, <2>1, <2>3, HeldValue DEF Contents
  <2>5. Contents' = Contents
    BY <1>4, SameList DEF NotFound, Return, Contents
  <2>6. Map!Get(key)
    BY <2>1, <2>4, <2>5 DEF Map!Get
  <2> QED
    BY <1>0, <2>6
<1>5. CASE Delete \/ NothingToDelete
  BY <1>0, <1>5, DeletePuts
<1>6. CASE Insert
  BY <1>0, <1>6, InsertHides
<1> QED
  BY <1>1, <1>2, <1>3, <1>4, <1>5, <1>6 DEF DictNext, Step

\* The list implements the map of module Coupler: whatever the order of calls, a
\* lookup returns the value last put, and replacing a value is atomic.
THEOREM MapRefinement == DictSpec => ImplementsMap
<1>1. DictInit => Map!MapInit
  <2> SUFFICES ASSUME DictInit
               PROVE  Map!MapInit
    OBVIOUS
  <2>1. Allocated = {} /\ pc = "idle" /\ answer = NoVal
    BY DEF DictInit, NoCells, Allocated
  <2>2. \A k \in Key : Held(heap, Reachable(dict) \cap Allocated, k) = NoVal
    BY <2>1, HeldValue
  <2> QED
    BY <2>1, <2>2 DEF Contents, Map!MapInit, Map!Empty
<1>2. DictInv /\ DictInv' /\ [DictNext]_vars => [Map!MapNext]_<<Contents, answer>>
  BY MapStep
<1> QED
  BY <1>1, <1>2, DictCorrect, PTL DEF DictSpec, ImplementsMap, Map!MapSpec
=============================================================================
