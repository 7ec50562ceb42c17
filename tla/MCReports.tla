------------------------------ MODULE MCReports ------------------------------
(***************************************************************************)
(* Instances of Reports for TLC: an income, a purchase with a category and *)
(* one without; days of two seconds; moving averages over 2 and 3 days.    *)
(***************************************************************************)
EXTENDS Reports, TLC

MCKind == {[amount |-> 3, mcc |-> "transfer"], [amount |-> -4, mcc |-> "food"],
           [amount |-> -7, mcc |-> "unlisted"]}

MCCategory == ("food" :> "groceries") @@ ("transfer" :> "transfers")

\* Accounts are interchangeable, so they are of one currency.
MCCurrencyOf == [a \in Account |-> "UAH"]

Interchangeable == Permutations(Account)
=============================================================================
