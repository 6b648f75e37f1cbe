------------------------------ MODULE Funding ------------------------------
(***************************************************************************)
(* What a transfer is paid with: the wallets of the pool (wallet_pool.py), *)
(* the balances and the energy price read through TronClient               *)
(* (tron_client.py), and the fee limit.                                    *)
(*                                                                         *)
(* An RPC either returns or raises; _with_retry has then given up after    *)
(* three attempts or met an error that is not transient.                   *)
(***************************************************************************)
EXTENDS Integers, SequencesExt

CONSTANTS
  Pool,          \* the wallets, a sequence sorted by name
  MaxBalance,    \* bound: USDT in a wallet
  Price,         \* energy prices the chain may have, in SUN
  Fallback,      \* TRON_ENERGY_PRICE_SUN_FALLBACK
  TTL,           \* _ENERGY_PRICE_TTL_SEC
  MinFee,        \* _MIN_FEE_LIMIT_SUN
  MaxFee,        \* USDT_FEE_LIMIT_SUN
  MaxBurn,       \* MAX_ENERGY_BURN_TRX in SUN, 0 for no limit
  MarginNum, MarginDen,  \* FEE_LIMIT_SAFETY_MULT
  MaxTime        \* bound: hours

ASSUME FundingAssumption ==
  /\ Pool \in Seq(STRING \ {""})
  /\ Price \subseteq Nat \ {0} /\ Fallback \in Nat \ {0}
  /\ TTL \in Nat \ {0} /\ MaxBurn \in Nat
  /\ MinFee \in Nat /\ MaxFee \in Nat /\ MinFee <= MaxFee
  /\ MarginNum \in Nat /\ MarginDen \in Nat \ {0} /\ MarginNum >= MarginDen
  /\ MaxTime \in Nat /\ MaxBalance \in Nat

WalletSet == {Pool[i] : i \in DOMAIN Pool}

VARIABLES
  usdt,      \* USDT of each wallet on chain
  pending,   \* per wallet, its transfers that are broadcast and not in a block
  price,     \* the chain's energy price
  cached,    \* _energy_price_sun and _energy_price_fetched_at
  clock

funding == <<usdt, pending, price, cached, clock>>

NoPrice == [value |-> 0, at |-> 0]

FundingInit ==
  /\ usdt \in [WalletSet -> 0..MaxBalance]
  /\ pending = [w \in WalletSet |-> <<>>]
  /\ price \in Price
  /\ cached = NoPrice
  /\ clock = 0

----------------------------------------------------------------------------
(* The price and the fee.                                                  *)

Expired == cached.value = 0 \/ clock - cached.at >= TTL

\* energy_price_sun after its call: a fresh price, one the node's parameters do not
\* name, or, when the RPC raises, the old value or the fallback for another TTL.
CacheAfter(rpc) ==
  CASE ~ Expired -> cached
    [] Expired /\ rpc = "ok" -> [value |-> price, at |-> clock]
    [] Expired /\ rpc = "absent" -> [value |-> Fallback, at |-> clock]
    [] Expired /\ rpc = "raises" ->
         [value |-> IF cached.value = 0 THEN Fallback ELSE cached.value,
          at |-> clock]

Clamp(sun) == Max({MinFee, Min({MaxFee, sun})})

\* compute_fee_limit_sun, for an estimate and the price it reads.
FeeLimit(energy, p) ==
  IF energy = 0 THEN MaxFee ELSE Clamp((energy * p * MarginNum) \div MarginDen)

----------------------------------------------------------------------------
(* The chain.  A pending transfer is crossed when another withdrawal from  *)
(* its wallet is under way with it.                                        *)

Crossed(transfers) == [i \in DOMAIN transfers |-> [transfers[i] EXCEPT !.crossed = TRUE]]

\* A block takes any transfer of a wallet; one the balance does not cover is reverted.
Confirm(w, i) ==
  /\ pending' = [pending EXCEPT ![w] = RemoveAt(@, i)]
  /\ usdt' = [usdt EXCEPT ![w] = IF pending[w][i].amount <= @
                                 THEN @ - pending[w][i].amount ELSE @]
  /\ UNCHANGED <<price, cached, clock>>

\* Someone else moves USDT out of or into a wallet.
Moved(w, b) ==
  /\ b # usdt[w]
  /\ usdt' = [usdt EXCEPT ![w] = b]
  /\ pending' = IF b < usdt[w] THEN [pending EXCEPT ![w] = Crossed(@)] ELSE pending
  /\ UNCHANGED <<price, cached, clock>>

Tick ==
  /\ clock < MaxTime
  /\ clock' = clock + 1
  /\ UNCHANGED <<usdt, pending, price, cached>>

Repriced(p) ==
  /\ p # price
  /\ price' = p
  /\ UNCHANGED <<usdt, pending, cached, clock>>
============================================================================
