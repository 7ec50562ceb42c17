--------------------------- MODULE TransactionBook ---------------------------
(***************************************************************************)
(* What the ingestion of transactions promises (the table user_transaction *)
(* of src/models/transaction.py, what its users hear and what the bank is  *)
(* told): a book that is only added to.  Each transaction is entered once, *)
(* by the webhook alone or by the statement loader together with the rest  *)
(* of its batch; of an entry only the date is ever corrected.  A user is   *)
(* told of an entry of the webhook at most once, and the bank is answered  *)
(* only for what is in the book.                                           *)
(***************************************************************************)
EXTENDS Naturals

CONSTANTS
    Tx,
    Owner,       \* the users a transaction may belong to
    Blank        \* a line of the book without an entry

VARIABLES
    book,        \* [Tx -> its entry, or Blank]
    told,        \* [Tx -> how often its user was told]
    confirmed    \* the transactions the bank was answered 200 for

bookVars == <<book, told, confirmed>>

Entry == [user : Owner, from : {"webhook", "statement"}, dated : {"stored", "made"}]

BookInit ==
    /\ book = [t \in Tx |-> Blank]
    /\ told = [t \in Tx |-> 0]
    /\ confirmed = {}

\* A batch of new transactions is entered as a whole.
Enter(batch, e) ==
    /\ \A t \in batch : book[t] = Blank
    /\ e.from = "webhook" => \E t \in batch : batch = {t}
    /\ book' = [t \in Tx |-> IF t \in batch THEN e ELSE book[t]]
    /\ UNCHANGED <<told, confirmed>>

\* Entries get the date their transactions were made.
Redate(batch) ==
    /\ \A t \in batch : book[t] # Blank
    /\ book' = [t \in Tx |-> IF t \in batch THEN [book[t] EXCEPT !.dated = "made"] ELSE book[t]]
    /\ UNCHANGED <<told, confirmed>>

Tell(t) ==
    /\ book[t] # Blank
    /\ book[t].from = "webhook"
    /\ told[t] = 0
    /\ told' = [told EXCEPT ![t] = 1]
    /\ UNCHANGED <<book, confirmed>>

Confirm(t) ==
    /\ book[t] # Blank
    /\ confirmed' = confirmed \cup {t}
    /\ UNCHANGED <<book, told>>

BookNext ==
    \/ \E batch \in SUBSET Tx : Redate(batch) \/ \E e \in Entry : Enter(batch, e)
    \/ \E t \in Tx : Tell(t) \/ Confirm(t)

BookSpec == BookInit /\ [][BookNext]_bookVars
=============================================================================
