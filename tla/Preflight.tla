----------------------------- MODULE Preflight -----------------------------
(***************************************************************************)
(* What a payout must pass before it is broadcast: wallet, recipient,      *)
(* balances, estimate, burn limit, fee limit (_send_impl of routes.py),    *)
(* over Screening and Funding.  Requests are one at a time (_send_lock);   *)
(* between two of its steps the chain moves, time passes and the process   *)
(* may die.  The idempotency slot and the audit records of the same        *)
(* handler are Payout's.                                                   *)
(***************************************************************************)
EXTENDS Screening, Funding

CONSTANTS
  Listable,    \* bound: addresses that come onto the sanctions list
  Malformed,   \* addresses that fail _validate_tron_address
  Amount,      \* amounts asked for
  Energy,      \* estimates a node may return
  MaxPending,  \* bound: transfers of one wallet in flight
  Focus        \* bound: which parts of the environment vary in one behaviour

ASSUME PreflightAssumption ==
  /\ Malformed \subseteq Recipient /\ Malformed # Recipient
  /\ Listable \subseteq Recipient /\ MaxPending \in Nat
  /\ Amount \subseteq Nat \ {0} /\ Amount # {} /\ Energy \subseteq Nat \ {0}
  /\ Focus \subseteq {"risk", "funds", "price"}

VARIABLES
  focus,   \* the member of Focus this behaviour is about
  pc,      \* what the request under _send_lock does next
  req      \* its locals

vars == <<screening, funding, focus, pc, req>>

\* next and balance: the loop index and best_balance of the auto-pick.
NoRequest == [to |-> "", wallet |-> "", amount |-> 0, missed |-> {}, crossed |-> FALSE,
              energy |-> 0, gatedAt |-> 0, fee |-> 0, next |-> 1, balance |-> -1]

\* All of S in a behaviour about part, one of them in the others.
Varied(part, S, one) == IF focus = part THEN S ELSE {one}

\* A behaviour not about risk has no screening, one not about funds starts with ample
\* ones, one not about the price keeps the fallback's.
Init ==
  /\ ScreeningInit
  /\ FundingInit
  /\ focus \in Focus
  /\ focus # "risk" => blockLevel = "none" /\ external = {} /\ ~ refresh
  /\ focus # "funds" => \A w \in WalletSet : usdt[w] = MaxBalance
  /\ focus # "price" => price = Fallback
  /\ pc = "idle"
  /\ req = NoRequest

----------------------------------------------------------------------------
(* The steps of a request.                                                 *)

Drop == pc' = "idle" /\ req' = NoRequest

\* resolve: the wallet the request names, which must be one of the pool; the only one;
\* or else the auto-pick.  A malformed address is refused after that, with no trace here.
Receive(name, to, amount) ==
  /\ pc = "idle"
  /\ list.loaded
  /\ to \notin Malformed
  /\ LET given == [NoRequest EXCEPT !.to = to, !.amount = amount]
     IN IF name = "" /\ Len(Pool) > 1
        THEN pc' = "pick" /\ req' = given
        ELSE \E w \in IF name = "" THEN WalletSet ELSE {name} \cap WalletSet :
               pc' = "screen" /\ req' = [given EXCEPT !.wallet = w]
  /\ UNCHANGED <<screening, funding, focus>>

\* One lookup of _auto_pick_max_usdt: a wallet is kept when its balance now exceeds the
\* best read so far; one whose lookup raises is passed over.  After the last, a pick
\* that found none is refused.
PickNext(returns) ==
  /\ pc = "pick"
  /\ LET w == Pool[req.next]
         r == IF returns /\ usdt[w] > req.balance
              THEN [req EXCEPT !.wallet = w, !.balance = usdt[w]] ELSE req
     IN IF req.next < Len(Pool)
        THEN pc' = "pick" /\ req' = [r EXCEPT !.next = @ + 1]
        ELSE \/ r.wallet = "" /\ Drop
             \/ /\ r.wallet # ""
                /\ pc' = "screen"
                /\ req' = [r EXCEPT !.next = 1, !.balance = -1]
  /\ UNCHANGED <<screening, funding, focus>>

\* blind: the checks whose query raises; empty: those answered with nothing; no check is
\* run at level none.
Screen(blind, empty) ==
  /\ pc = "screen"
  /\ blind \cup empty = {} \/ blockLevel # "none"
  /\ IF blockLevel # "none" /\ ShouldBlock(AssessRisk(req.to, blind, empty), blockLevel)
     THEN Drop
     ELSE pc' = "usdt" /\ req' = [req EXCEPT !.missed = Missed(req.to, blind \cup empty)]
  /\ UNCHANGED <<screening, funding, focus>>

\* Mutant of CheckUsdt: the balance is read and not compared.
CheckUsdtRead ==
  /\ pc = "usdt"
  /\ pc' = "trx"
  /\ req' = [req EXCEPT !.crossed = pending[req.wallet] # <<>>]
  /\ UNCHANGED <<screening, funding, focus>>

\* The balance on chain now, whatever transfers are still in flight.
CheckUsdt ==
  /\ pc = "usdt"
  /\ IF usdt[req.wallet] < req.amount
     THEN Drop
     ELSE pc' = "trx" /\ req' = [req EXCEPT !.crossed = pending[req.wallet] # <<>>]
  /\ UNCHANGED <<screening, funding, focus>>

\* TRX for fees, then the destination, which is only logged.
CheckTrx(enough) ==
  /\ pc = "trx"
  /\ IF enough THEN pc' = "estimate" /\ UNCHANGED req ELSE Drop
  /\ UNCHANGED <<screening, funding, focus>>

\* 0: the node gave none; then no price is read and the limit is the ceiling.
Estimate(energy) ==
  /\ pc = "estimate"
  /\ pc' = IF energy = 0 THEN "broadcast" ELSE "gate"
  /\ req' = [req EXCEPT !.energy = energy, !.fee = FeeLimit(0, 0)]
  /\ UNCHANGED <<screening, funding, focus>>

PriceRead(rpc) ==
  /\ Expired \/ rpc = "ok"
  /\ cached' = CacheAfter(rpc)
  /\ UNCHANGED <<screening, usdt, pending, price, clock, focus>>

\* Mutant of Gate: the burn is estimated with the configured price.
GateFallback(rpc) ==
  /\ pc = "gate"
  /\ PriceRead(rpc)
  /\ IF MaxBurn > 0 /\ req.energy * Fallback > MaxBurn
     THEN Drop
     ELSE pc' = "fee" /\ req' = [req EXCEPT !.gatedAt = cached'.at]

\* energy_too_expensive
Gate(rpc) ==
  /\ pc = "gate"
  /\ PriceRead(rpc)
  /\ IF MaxBurn > 0 /\ req.energy * cached'.value > MaxBurn
     THEN Drop
     ELSE pc' = "fee" /\ req' = [req EXCEPT !.gatedAt = cached'.at]

\* compute_fee_limit_sun reads the price again.
ComputeFee(rpc) ==
  /\ pc = "fee"
  /\ PriceRead(rpc)
  /\ pc' = "broadcast"
  /\ req' = [req EXCEPT !.fee = FeeLimit(req.energy, cached'.value)]

\* send_usdt with the node's acceptance: the transfer waits for a block beside the
\* others of its wallet.
Broadcast ==
  /\ pc = "broadcast"
  /\ Len(pending[req.wallet]) < MaxPending
  /\ LET others == pending[req.wallet]
         t == [amount |-> req.amount, crossed |-> req.crossed \/ others # <<>>]
     IN pending' = [pending EXCEPT ![req.wallet] = Append(Crossed(others), t)]
  /\ Drop
  /\ UNCHANGED <<screening, usdt, price, cached, clock, focus>>

\* An RPC raises (rpc_failed), the node refuses the broadcast, or the body of an
\* external answer is no object and its check raises.
Fail ==
  /\ \/ pc \in {"usdt", "trx", "broadcast"}
     \/ pc = "screen" /\ blockLevel # "none" /\ external # {}
  /\ Drop
  /\ UNCHANGED <<screening, funding, focus>>

----------------------------------------------------------------------------
(* The process and the world around it.                                    *)

\* The price and the request go with the process.
Die ==
  /\ Unload
  /\ Drop
  /\ cached' = NoPrice
  /\ UNCHANGED <<usdt, pending, price, clock, focus>>

Start ==
  /\ LoadFromUrl \/ LoadFromCache \/ DieInLoad
  /\ UNCHANGED <<funding, focus, pc, req>>

Listed ==
  /\ focus = "risk"
  /\ \E r \in Listable \ published : Publish(r)
  /\ UNCHANGED <<funding, focus, pc, req>>

Mined ==
  /\ \E w \in WalletSet : \E i \in DOMAIN pending[w] : Confirm(w, i)
  /\ UNCHANGED <<screening, focus, pc, req>>

\* A withdrawal by others crosses the request that has read the balance.
MovedByOthers ==
  /\ focus = "funds"
  /\ \E w \in WalletSet, b \in 0..MaxBalance :
       /\ Moved(w, b)
       /\ req' = IF req.wallet = w /\ b < usdt[w] THEN [req EXCEPT !.crossed = TRUE] ELSE req
  /\ UNCHANGED <<screening, focus, pc>>

TimePasses ==
  /\ focus = "price"
  /\ Tick \/ \E p \in Price : Repriced(p)
  /\ UNCHANGED <<screening, focus, pc, req>>

Next ==
  \/ \E name \in Varied("funds", WalletSet \cup {"", "unknown"}, Pool[1]),
        to \in Varied("risk", Recipient, CHOOSE r \in Recipient \ Malformed : TRUE),
        a \in Varied("funds", Amount, Min(Amount)) : Receive(name, to, a)
  \/ \E returns \in BOOLEAN : PickNext(returns)
  \/ \E blind \in SUBSET Queried, empty \in SUBSET external : Screen(blind, empty)
  \/ CheckUsdt
  \/ \E enough \in BOOLEAN : CheckTrx(enough)
  \/ \E e \in Varied("price", Energy \cup {0}, 0) : Estimate(e)
  \/ \E rpc \in {"ok", "absent", "raises"} : Gate(rpc) \/ ComputeFee(rpc)
  \/ Broadcast \/ Fail
  \/ Die \/ Start \/ Listed \/ Mined \/ MovedByOthers \/ TimePasses

Spec == Init /\ [][Next]_vars

----------------------------------------------------------------------------
(* Properties.                                                             *)

\* A request that gets past the screen pays no recipient with a high-severity trait
\* unless that trait's own query raised, came back empty or is switched off, and none
\* that a sanctions list downloaded whole by this host last named, however often the process has since
\* been restarted without network, as long as the copy on disk can be read (load of
\* sanctions.py, assess_risk, should_block).
HazardStopsPayment ==
  (pc \notin {"idle", "pick", "screen"} /\ blockLevel # "none") =>
    /\ Severe \cap Facts[req.to] \subseteq req.missed
    /\ req.to \notin kept

\* A transfer the wallet cannot cover when it reaches a block shared its time in
\* flight with another withdrawal from the same wallet: the balance is read before
\* the broadcast and ignores what is pending (routes.py:203).
CoveredUnlessCrossed ==
  \A w \in WalletSet : \A i \in DOMAIN pending[w] :
    ~ pending[w][i].crossed => pending[w][i].amount <= usdt[w]

\* With an estimate, the fee a broadcast may burn is at most MAX_ENERGY_BURN_TRX with
\* the safety margin, or the floor of the fee limit, unless the price was fetched anew
\* between the two reads of it (the gate of _send_impl, compute_fee_limit_sun).
BurnGateHolds ==
  (pc = "broadcast" /\ req.energy # 0 /\ MaxBurn > 0 /\ cached.at = req.gatedAt) =>
    req.fee <= Max({MinFee, (MaxBurn * MarginNum) \div MarginDen})
============================================================================
