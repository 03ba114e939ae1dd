-------------------------- MODULE MCNodeMempool ---------------------------
(***************************************************************************)
(* The mempool of a node whose first address owns the coin of the initial  *)
(* chain, under three mixes of handlers, and SelectWithNonces over every   *)
(* pool that a few transactions of two senders can form: nonces with gaps, *)
(* several transactions of one nonce, and more than a block has gas for.   *)
(***************************************************************************)
EXTENDS Selection

CONSTANTS Sender, Receiver

Tx(kind, from, amount, fee, nonce) ==
    [kind |-> kind, from |-> from, to |-> Receiver, amount |-> amount, fee |-> fee, payer |-> from,
     nonce |-> nonce, ref |-> <<from, 1>>, mintable |-> TRUE, burnable |-> TRUE]

Local(nonce) == Tx("native_transfer", Sender, 1, 1, nonce)
Remote(nonce) == Tx("native_transfer", Sender, 2, 1, nonce)
Dear(nonce) == Tx("native_transfer", Sender, 1, 2, nonce)
Legacy(nonce) == Tx("legacy_transfer", Sender, 1, 0, nonce)
Lock(nonce) == Tx("stake_lock", Sender, 1, 0, nonce)
Unlock(nonce) == Tx("stake_unlock", Sender, 0, 0, nonce)
Others == <<Tx("native_transfer", Receiver, 1, 1, 1), Tx("legacy_transfer", Receiver, 1, 0, 2)>>

\* Clients get nonces up to 3; what peers send and what is selected has 1 and 2.
MCTxOrder ==
    LET Of(nonce) == <<Local(nonce), Lock(nonce), Unlock(nonce)>>
        Other(nonce) == <<Remote(nonce), Dear(nonce), Legacy(nonce)>>
    IN  Of(1) \o Other(1) \o Of(2) \o Other(2) \o Of(3) \o Others

MCRequests == {Lock(1), Unlock(1), Local(1)}
MCPeerTxs == {Remote(1), Remote(2), Legacy(2)}
Body(txs) == [to |-> Receiver, miner |-> Receiver, txs |-> txs]
MCBodies == {Body(<<>>), Body(<<Remote(1), Legacy(2)>>)}

MCInitialChain == <<[to |-> Sender, miner |-> Sender, txs |-> <<>>]>>

MCSelectable ==
    UNION {{Local(n), Dear(n), Legacy(n)} : n \in {1, 2}} \cup ToSet(Others)

Symmetry == Permutations(Worker)
===========================================================================
