---------------------------- MODULE FundLedger ----------------------------
(***************************************************************************)
(* What a vault promises its depositors, with nothing of how it keeps the   *)
(* promise: everyone's claim is their own, a claim is only paid from the    *)
(* cash at hand, the manager moves cash in and out of an investment but     *)
(* never touches a claim, and nothing moves while the vault is frozen.      *)
(***************************************************************************)
EXTENDS Integers

CONSTANTS Holders, MaxCash

VARIABLES
    claims,     \* [Holders -> Nat]: what each holder is owed
    cash,       \* what can be paid out or invested
    frozen      \* TRUE while the owner holds everything still

ledgerVars == <<claims, cash, frozen>>

LedgerInit ==
    /\ claims = [h \in Holders |-> 0]
    /\ cash = 0
    /\ frozen = FALSE

PayIn(h, amount) ==
    /\ ~frozen
    /\ claims[h] + amount <= MaxCash
    /\ cash + amount <= MaxCash
    /\ claims' = [claims EXCEPT ![h] = @ + amount]
    /\ cash' = cash + amount
    /\ UNCHANGED frozen

PayOut(h, amount) ==
    /\ ~frozen
    /\ amount <= claims[h]
    /\ amount <= cash
    /\ claims' = [claims EXCEPT ![h] = @ - amount]
    /\ cash' = cash - amount
    /\ UNCHANGED frozen

Invest(amount) ==
    /\ ~frozen
    /\ amount <= cash
    /\ cash' = cash - amount
    /\ UNCHANGED <<claims, frozen>>

Divest(amount) ==
    /\ ~frozen
    /\ cash + amount <= MaxCash
    /\ cash' = cash + amount
    /\ UNCHANGED <<claims, frozen>>

SetFrozen(b) ==
    /\ frozen' = b
    /\ UNCHANGED <<claims, cash>>

LedgerNext ==
    \/ \E amount \in 0..MaxCash :
         \/ \E h \in Holders : PayIn(h, amount) \/ PayOut(h, amount)
         \/ Invest(amount)
         \/ Divest(amount)
    \/ \E b \in BOOLEAN : SetFrozen(b)

LedgerSpec == LedgerInit /\ [][LedgerNext]_ledgerVars

=============================================================================
