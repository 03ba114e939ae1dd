--------------------------- MODULE ServiceParts ---------------------------
(***************************************************************************)
(* Two parts beside the chain, each an instance of its module over         *)
(* variables of its own, and what each promises while a scenario is about  *)
(* it: the faucet and the index of the explorer.                           *)
(***************************************************************************)
EXTENDS Scenarios

CONSTANTS
    Recipient, FaucetAmount, MaxPerAddress, MinInterval, Second, Day, Funds, Faults, MaxTime,  \* of Faucet
    Reader, ServedBy, MaxTx, MaxChainWork, Queries, PageSize,                                  \* of ExplorerIndex
    MaxFaults

VARIABLES
    now, requests, pool, confirmed, handler, unrecorded,
    chain, index, holder, indexer, reader, seen, walk,
    faults

Taps == INSTANCE Faucet
Explorer == INSTANCE ExplorerIndex
---------------------------------------------------------------------------
\* An address is paid no more in a day than the operator allows, pending and
\* confirmed payments together, across the end of a day; two payments to it are
\* the interval apart, less the fraction of a second that the stored time loses;
\* every failure to save, of the state file alone or of the mempool as well, and
\* every crash adds at most one payment to that, and payments never exceed what
\* the faucet can spend.
FaucetIsBounded == scenario = "payments" => Taps!FaucetIsBounded

\* The index is the index of one chain, whatever reorganisations, errors and
\* crashes have interrupted sync; a lookup that is answered, found or not found,
\* is answered from a chain that was canonical at some moment of the request,
\* although readiness is checked in one opening of explorer.db and the answer is
\* read in the next; and a client that follows next_offset to the end has read
\* every entry of the history once, unless the index changed on the way.
IndexIsTrue == scenario \in {"lookups", "pages", "busy"} => Explorer!IndexIsTrue
===========================================================================
