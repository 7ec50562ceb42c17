------------------------------ MODULE MCIngest ------------------------------
(***************************************************************************)
(* Instances of Ingest for TLC: every transaction is of the loader's       *)
(* account, and the handlers are those of one worker or, with MCApart, of  *)
(* a worker each.                                                          *)
(***************************************************************************)
EXTENDS Ingest, Functions, TLC

MCAccountOf == [t \in Tx |-> LoaderAccount]

MCOneWorker == [s \in Slot |-> CHOOSE w \in Worker : TRUE]

MCApart == CHOOSE f \in [Slot -> Worker] : f \in Injection(Slot, Worker)
=============================================================================
