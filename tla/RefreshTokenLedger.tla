------------------------- MODULE RefreshTokenLedger -------------------------
(***************************************************************************)
(* What the refresh_token table promises, with no request in sight.  A     *)
(* refresh token is issued once, to one account, and is usable until it is *)
(* retired; a retired token never becomes usable again, and no token ever  *)
(* changes hands.  One step touches one token.                             *)
(*                                                                         *)
(* Sessions implements this module: the many handlers that rotate, revoke  *)
(* and issue tokens concurrently, and that crash half way, still leave the *)
(* table going through these steps only.                                   *)
(***************************************************************************)
CONSTANTS
    Account,    \* who a token can belong to
    Nobody,     \* no account: the owner of a token that is not issued yet
    Token       \* the token identifiers (jti)

VARIABLES
    status,     \* [Token -> {"unissued", "live", "retired"}]
    holder      \* [Token -> Account \cup {Nobody}]

ledgerVars == <<status, holder>>

LedgerInit ==
    /\ status = [t \in Token |-> "unissued"]
    /\ holder = [t \in Token |-> Nobody]

\* A token nobody ever had becomes the token of account a.
IssueToken(t, a) ==
    /\ status[t] = "unissued"
    /\ status' = [status EXCEPT ![t] = "live"]
    /\ holder' = [holder EXCEPT ![t] = a]

\* A usable token stops being usable, for good.
RetireToken(t) ==
    /\ status[t] = "live"
    /\ status' = [status EXCEPT ![t] = "retired"]
    /\ UNCHANGED holder

LedgerNext ==
    \E t \in Token :
        \/ \E a \in Account : IssueToken(t, a)
        \/ RetireToken(t)

LedgerSpec == LedgerInit /\ [][LedgerNext]_ledgerVars
=============================================================================
