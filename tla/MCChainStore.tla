--------------------------- MODULE MCChainStore ---------------------------
(***************************************************************************)
(* Instances of ChainStore for TLC.  Blocks are empty, or carry a transfer *)
(* or a stake of the first address.                                        *)
(***************************************************************************)
EXTENDS ChainStore

CONSTANTS Sender, Receiver

Tx(kind, to, amount, fee) ==
    [kind |-> kind, from |-> Sender, to |-> to, amount |-> amount, fee |-> fee, payer |-> Sender,
     nonce |-> 1, ref |-> <<Sender, 1>>, mintable |-> TRUE, burnable |-> TRUE]

Contents == {<<>>, <<Tx("native_transfer", Receiver, 1, 0)>>, <<Tx("stake_lock", Sender, 1, 0)>>}

MCBodies ==
    {[to |-> a, miner |-> a, txs |-> <<>>] : a \in Address} \cup
    {[to |-> Receiver, miner |-> Receiver, txs |-> txs] : txs \in Contents}
===========================================================================
