------------------------- MODULE MCBlockExecution -------------------------
(***************************************************************************)
(* Instances of BlockExecution for TLC: the transactions of a run are the  *)
(* members of the kinds it enables.  Fields that a kind does not read are  *)
(* fixed, so that no two members act alike.                                *)
(***************************************************************************)
EXTENDS BlockExecution, TLC

CONSTANTS
    Kinds,      \* the kinds of transactions of the run
    Amounts,    \* the amounts they carry
    Fees        \* the fees they offer

Tx(kind, from, to, amount, fee, payer, nonce, ref) ==
    [kind |-> kind, from |-> from, to |-> to, amount |-> amount, fee |-> fee, payer |-> payer,
     nonce |-> nonce, ref |-> ref, mintable |-> TRUE, burnable |-> TRUE]

AllTransactions ==
    LET Nonces == 1..MaxNonce
    IN  {Tx("legacy_transfer", f, t, n, e, f, i, <<f, i>>) :
            f \in Address, t \in Address, n \in Amounts, e \in Fees, i \in Nonces}
        \cup
        {Tx("native_transfer", f, t, n, e, p, i, <<f, i>>) :
            f \in Address, t \in Address, n \in Amounts, e \in Fees, p \in Address, i \in Nonces}
        \cup
        {Tx("stake_lock", f, f, n, 0, f, i, <<f, i>>) :
            f \in Address, n \in Amounts, i \in Nonces}
        \cup
        {Tx("stake_unlock", f, f, 0, 0, f, i, s) :
            f \in Address, i \in Nonces, s \in TxID}
        \cup
        {[Tx("asset_create", f, f, n, e, f, i, <<f, i>>) EXCEPT !.mintable = m, !.burnable = b] :
            f \in Address, n \in Amounts, e \in Fees, i \in Nonces, m \in BOOLEAN, b \in BOOLEAN}
        \cup
        {Tx("token_transfer", f, t, n, e, p, i, s) :
            f \in Address, t \in Address, n \in Amounts, e \in Fees, p \in Address,
            i \in Nonces, s \in TxID}
        \cup
        {Tx("asset_mint", f, t, n, e, f, i, s) :
            f \in Address, t \in Address, n \in Amounts, e \in Fees, i \in Nonces, s \in TxID}
        \cup
        {Tx("asset_burn", f, f, n, e, f, i, s) :
            f \in Address, n \in Amounts, e \in Fees, i \in Nonces, s \in TxID}

MCTransactions == {tx \in AllTransactions : tx.kind \in Kinds}

\* Nothing orders addresses.
Symmetry == Permutations(Address)
===========================================================================
