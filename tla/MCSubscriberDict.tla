-------------------------- MODULE MCSubscriberDict --------------------------
(* Instances of SubscriberDict for TLC. *)
EXTENDS SubscriberDict

\* The allocator may or may not return zeroed memory.
MCAnyHead == {NULL, WILD}
=============================================================================
