------------------------------ MODULE StampMap ------------------------------
(***************************************************************************)
(* What the subscriber dictionary promises: a map from keys to values with *)
(* atomic calls.  This is the abstract specification of SubscriberDict,    *)
(* and SUBSCRIBER_DICT as module Coupler has it.                           *)
(***************************************************************************)
CONSTANTS Key, Val, NoVal

VARIABLES
  map,    \* the value of each key, or NoVal
  answer  \* what the last lookup returned

Empty == [k \in Key |-> NoVal]

MapInit == map = Empty /\ answer = NoVal

Put(k, v) == map' = [map EXCEPT ![k] = v] /\ UNCHANGED answer
Get(k) == answer' = map[k] /\ UNCHANGED map
Reset == map' = Empty /\ answer' = NoVal

MapNext ==
  \/ \E k \in Key, v \in Val : Put(k, v)
  \/ \E k \in Key : Get(k)
  \/ Reset

MapSpec == MapInit /\ [][MapNext]_<<map, answer>>
=============================================================================
