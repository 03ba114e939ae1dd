------------------------- MODULE MCBlockProduction ------------------------
(***************************************************************************)
(* Instance of BlockProduction for TLC: legacy and version 3 native        *)
(* transfers, the latter with sponsored fees, and stakes.                  *)
(***************************************************************************)
EXTENDS BlockProduction

CONSTANTS Amounts, Fees

Tx(kind, from, to, amount, fee, payer, nonce, ref) ==
    [kind |-> kind, from |-> from, to |-> to, amount |-> amount, fee |-> fee, payer |-> payer,
     nonce |-> nonce, ref |-> ref, mintable |-> TRUE, burnable |-> TRUE]

MCTransactions ==
    {Tx("legacy_transfer", f, t, n, e, f, i, <<f, i>>) :
        f \in Address, t \in Address, n \in Amounts, e \in Fees, i \in 1..MaxNonce}
    \cup
    {Tx("native_transfer", f, t, n, e, p, i, <<f, i>>) :
        f \in Address, t \in Address, n \in Amounts, e \in Fees, p \in Address, i \in 1..MaxNonce}
    \cup
    {Tx("stake_lock", f, f, n, 0, f, i, <<f, i>>) :
        f \in Address, n \in Amounts, i \in 1..MaxNonce}

Symmetry == Permutations(Address)
===========================================================================
