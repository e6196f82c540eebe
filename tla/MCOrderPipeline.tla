-------------------------- MODULE MCOrderPipeline --------------------------
(***************************************************************************)
(* One or two orders of one or two shares.                                 *)
(***************************************************************************)
EXTENDS OrderPipeline

CONSTANTS o1, o2
TwoShares == [o \in Orders |-> 2]
OneShare == [o \in Orders |-> 1]
=============================================================================
