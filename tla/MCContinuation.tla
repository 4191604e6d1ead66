--------------------------- MODULE MCContinuation ---------------------------
(* Every kind of result queue; chains of deferred continuations, three of them *)
(* read by the consumer, two by the thread of an asynchronous one.             *)
EXTENDS Continuation

MCDepths    == [async |-> {0, 1}, deferred |-> {1, 3}, none |-> {0}]
ChainDepths == [async |-> {2}]
AsyncDepths == [async |-> {0}]
PlainDepths == [none |-> {0}]
VoidDepths  == [deferred |-> {1}]
=============================================================================
