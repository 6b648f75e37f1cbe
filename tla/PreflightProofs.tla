-------------------------- MODULE PreflightProofs --------------------------
(***************************************************************************)
(* Theorems about Preflight: for any recipients and what is true of them,  *)
(* any wallets, prices, margins and limits, and every order of the steps   *)
(* of a request with those of the chain, the price and the process.        *)
(***************************************************************************)
EXTENDS Preflight, SequenceTheorems, WellFoundedInduction, TLAPS

----------------------------------------------------------------------------
(* The inductive invariant.                                                *)

Transfer == [amount : Nat, crossed : BOOLEAN]
Request == [to : Recipient \cup {""}, wallet : WalletSet \cup {""}, amount : Nat,
            missed : SUBSET Trait, crossed : BOOLEAN, energy : Nat, gatedAt : Nat, fee : Int,
            next : Nat, balance : Int]
Early == {"idle", "pick", "screen"}
Committed == {"trx", "estimate", "gate", "fee", "broadcast"}

ScreenType ==
  /\ blockLevel \in {"high", "medium", "none"}
  /\ external = {} \/ "external_tronscan" \in external
  /\ published \subseteq Recipient
  /\ cache \in [kind : {"none", "text"}, addresses : SUBSET Recipient]
  /\ list \in [loaded : BOOLEAN, addresses : SUBSET Recipient]
  /\ kept \subseteq Recipient

FundType ==
  /\ usdt \in [WalletSet -> 0..MaxBalance]
  /\ pending \in [WalletSet -> Seq(Transfer)]
  /\ price \in Nat \ {0}
  /\ cached \in [value : Nat, at : Nat]
  /\ clock \in Nat

RequestType ==
  /\ pc \in Early \cup {"usdt"} \cup Committed
  /\ req \in Request
  /\ pc # "idle" => req.to \in Recipient
  /\ pc \notin {"idle", "pick"} => req.wallet \in WalletSet
  /\ pc = "pick" => req.next \in DOMAIN Pool

\* What the last whole download named is on disk, still published, and in the list of
\* the process, without which no request is served.
ListInv ==
  /\ kept \subseteq cache.addresses /\ kept \subseteq published
  /\ list.loaded => kept \subseteq list.addresses
  /\ pc # "idle" => list.loaded

\* A transfer or a request that is not crossed has its wallet to itself.
FundsInv ==
  /\ \A w \in WalletSet : \A i \in DOMAIN pending[w] :
       ~ pending[w][i].crossed => pending[w][i].amount <= usdt[w] /\ Len(pending[w]) = 1
  /\ pc \in Committed /\ ~ req.crossed =>
       req.amount <= usdt[req.wallet] /\ pending[req.wallet] = <<>>

\* Between the gate and the second read of the price nothing replaces what the gate read.
PriceInv ==
  /\ pc = "gate" => req.energy # 0
  /\ pc = "fee" => /\ req.energy # 0
                   /\ cached.value # 0 /\ cached.at = req.gatedAt
                   /\ MaxBurn > 0 => req.energy * cached.value <= MaxBurn

PreflightInv ==
  /\ ScreenType /\ FundType /\ RequestType
  /\ ListInv /\ HazardStopsPayment /\ FundsInv /\ PriceInv /\ BurnGateHolds
----------------------------------------------------------------------------
(* The operators.                                                          *)

LEMMA Amounts ==
  /\ MinFee \in Nat /\ MaxFee \in Nat /\ MaxBurn \in Nat
  /\ MarginNum \in Nat /\ MarginDen \in Nat \ {0}
BY FundingAssumption

LEMMA Times ==
  /\ TTL \in Nat \ {0} /\ Fallback \in Nat \ {0} /\ Price \subseteq Nat \ {0}
BY FundingAssumption

\* A non-empty set of natural numbers has a least member.
LEMMA LeastMember ==
  ASSUME NEW S, S \subseteq Nat, S # {}
  PROVE  Min(S) \in S /\ \A y \in S : Min(S) <= y
<1>1. PICK x \in S : \A y \in S : ~ (<<y, x>> \in OpToRel(<, Nat))
  BY NatLessThanWellFounded, WFMin
<1>2. ASSUME NEW y \in S PROVE x <= y
  <2>1. <<y, x>> \in Nat \X Nat
    OBVIOUS
  <2>2. ~ (y < x)
    BY <1>1, <2>1 DEF OpToRel
  <2> QED
    BY <2>2
<1> QED
  BY <1>2 DEF Min

LEMMA MaxOfTwo ==
  ASSUME NEW a \in Int, NEW b \in Int
  PROVE  Max({a, b}) = IF a >= b THEN a ELSE b
BY DEF Max

LEMMA MinOfTwo ==
  ASSUME NEW a \in Int, NEW b \in Int
  PROVE  Min({a, b}) = IF a <= b THEN a ELSE b
BY DEF Min

\* A division by a positive number keeps the order.
LEMMA DivMonotone ==
  ASSUME NEW a \in Nat, NEW b \in Nat, NEW d \in Nat \ {0}, a <= b
  PROVE  a \div d <= b \div d /\ a \div d \in Int /\ b \div d \in Int
BY SMT

LEMMA TimesMonotone ==
  ASSUME NEW a \in Nat, NEW b \in Nat, NEW c \in Nat, a <= b
  PROVE  a * c <= b * c /\ a * c \in Nat /\ b * c \in Nat
BY SMT

\* compute_fee_limit_sun stays under the burn limit with its margin, or at the floor,
\* when the estimate at that price passed the gate.
LEMMA FeeWithinGate ==
  ASSUME NEW e \in Nat, e # 0, NEW p \in Nat, MaxBurn > 0, e * p <= MaxBurn
  PROVE  FeeLimit(e, p) <= Max({MinFee, (MaxBurn * MarginNum) \div MarginDen})
<1> DEFINE x == (e * p * MarginNum) \div MarginDen
           y == (MaxBurn * MarginNum) \div MarginDen
<1>1. e * p \in Nat
  BY SMT
<1>2. /\ e * p * MarginNum <= MaxBurn * MarginNum
      /\ e * p * MarginNum \in Nat /\ MaxBurn * MarginNum \in Nat
  BY <1>1, TimesMonotone, Amounts
<1>3. x <= y /\ x \in Int /\ y \in Int
  BY <1>2, DivMonotone, Amounts
<1>4. FeeLimit(e, p) = Max({MinFee, Min({MaxFee, x})})
  BY DEF FeeLimit, Clamp
<1> HIDE DEF x, y
<1>5. PICK m \in Int : m = Min({MaxFee, x}) /\ m <= x
  BY <1>3, MinOfTwo, Amounts
<1>6. Max({MinFee, m}) <= Max({MinFee, y})
  <2>1. Max({MinFee, m}) = IF MinFee >= m THEN MinFee ELSE m
    BY MaxOfTwo, Amounts
  <2>2. Max({MinFee, y}) = IF MinFee >= y THEN MinFee ELSE y
    BY <1>3, MaxOfTwo, Amounts
  <2> QED
    BY <1>3, <1>5, <2>1, <2>2, Amounts
<1> QED
  BY <1>4, <1>5, <1>6 DEF y

LEMMA FeeType ==
  ASSUME NEW e \in Nat, NEW p \in Nat
  PROVE  FeeLimit(e, p) \in Int
<1> DEFINE x == (e * p * MarginNum) \div MarginDen
<1> e * p \in Nat
  BY SMT
<1>1. e * p * MarginNum \in Nat
  BY TimesMonotone, Amounts
<1>2. x \in Int
  BY <1>1, DivMonotone, Amounts
<1>3. FeeLimit(e, p) = IF e = 0 THEN MaxFee ELSE Max({MinFee, Min({MaxFee, x})})
  BY DEF FeeLimit, Clamp
<1> HIDE DEF x
<1>4. PICK m \in Int : m = Min({MaxFee, x})
  BY <1>2, MinOfTwo, Amounts
<1>5. Max({MinFee, m}) \in Int
  BY MaxOfTwo, Amounts
<1> QED
  BY <1>3, <1>4, <1>5, Amounts

LEMMA BalanceBound == MaxBalance \in Nat
BY FundingAssumption

\* The pool is a sequence of names.
LEMMA PoolIndex ==
  /\ Len(Pool) \in Nat /\ DOMAIN Pool = 1..Len(Pool)
  /\ \A i \in DOMAIN Pool : Pool[i] \in WalletSet
<1>1. PICK N : Pool \in Seq(N)
  BY FundingAssumption, Zenon
<1>2. Len(Pool) \in Nat /\ DOMAIN Pool = 1..Len(Pool)
  BY <1>1
<1> QED
  BY <1>2 DEF WalletSet

\* What is left of a sequence after a removal was in it, and the only entry leaves none.
LEMMA RemovedOne ==
  ASSUME NEW S, NEW s \in Seq(S), NEW i \in DOMAIN s
  PROVE  /\ RemoveAt(s, i) \in Seq(S)
         /\ \A j \in DOMAIN RemoveAt(s, i) : \E k \in DOMAIN s : RemoveAt(s, i)[j] = s[k]
         /\ Len(s) = 1 => RemoveAt(s, i) = <<>>
<1> DEFINE a == SubSeq(s, 1, i - 1)
           b == SubSeq(s, i + 1, Len(s))
<1>1. i \in 1..Len(s) /\ Len(s) \in Nat /\ DOMAIN s = 1..Len(s)
  OBVIOUS
<1>2. /\ a \in Seq(S) /\ Len(a) = i - 1
      /\ \A j \in 1..(i - 1) : a[j] = s[j]
  BY <1>1, SubSeqProperties, SMTT(30)
<1>3. /\ b \in Seq(S) /\ Len(b) = Len(s) - i
      /\ \A j \in 1..(Len(s) - i) : b[j] = s[i + j]
  BY <1>1, SubSeqProperties, SMTT(30)
<1>4. RemoveAt(s, i) = a \o b
  BY DEF RemoveAt
<1> HIDE DEF a, b
<1>5. /\ a \o b \in Seq(S) /\ Len(a \o b) = Len(s) - 1
      /\ \A j \in 1..(Len(s) - 1) :
           (a \o b)[j] = IF j <= i - 1 THEN a[j] ELSE b[j - (i - 1)]
  <2>1. /\ a \o b \in Seq(S) /\ Len(a \o b) = Len(a) + Len(b)
        /\ \A j \in 1..(Len(a) + Len(b)) :
             (a \o b)[j] = IF j <= Len(a) THEN a[j] ELSE b[j - Len(a)]
    BY <1>2, <1>3, ConcatProperties
  <2>2. Len(a) + Len(b) = Len(s) - 1
    BY <1>1, <1>2, <1>3
  <2> QED
    BY <1>2, <2>1, <2>2, Zenon
<1>6. ASSUME NEW j \in DOMAIN (a \o b) PROVE \E k \in DOMAIN s : (a \o b)[j] = s[k]
  <2>1. j \in 1..(Len(s) - 1)
    BY <1>5
  <2>2. CASE j <= i - 1
    <3>1. (a \o b)[j] = s[j] /\ j \in DOMAIN s
      BY <1>1, <1>2, <1>5, <2>1, <2>2
    <3> QED
      BY <3>1
  <2>3. CASE ~ (j <= i - 1)
    <3>1. (a \o b)[j] = b[j - (i - 1)] /\ j - (i - 1) \in 1..(Len(s) - i)
      <4>1. (a \o b)[j] = IF j <= i - 1 THEN a[j] ELSE b[j - (i - 1)]
        BY <1>5, <2>1
      <4>2. j - (i - 1) \in 1..(Len(s) - i)
        BY <1>1, <2>1, <2>3
      <4> QED
        BY <2>3, <4>1, <4>2, Zenon
    <3>2. b[j - (i - 1)] = s[i + (j - (i - 1))] /\ i + (j - (i - 1)) = j + 1
      BY <1>1, <1>3, <3>1, <2>1
    <3>3. (a \o b)[j] = s[j + 1] /\ j + 1 \in DOMAIN s
      BY <1>1, <2>1, <3>1, <3>2
    <3> QED
      BY <3>3
  <2> QED
    BY <2>2, <2>3
<1>7. Len(s) = 1 => a \o b = <<>>
  BY <1>5, EmptySeq
<1> QED
  BY <1>4, <1>5, <1>6, <1>7

\* A recipient the checks do not block is on no list that is loaded, and each of its
\* traits of high severity has a query that raised, came back empty or is switched off.
LEMMA PassedScreen ==
  ASSUME NEW r, NEW blind, NEW empty, list.loaded, blockLevel # "none",
         external = {} \/ "external_tronscan" \in external,
         ~ ShouldBlock(AssessRisk(r, blind, empty), blockLevel)
  PROVE  Severe \cap Facts[r] \subseteq Missed(r, blind \cup empty) /\ r \notin list.addresses
<1> DEFINE own == {CheckBurnAddress(r), CheckSanctions(r),
                   CheckActivation(r, "activation" \in blind),
                   CheckSmartContract(r, "smart_contract" \in blind),
                   CheckUsdtBlacklist(r, "usdt_blacklist" \in blind),
                   CheckBalance("balance" \in blind)}
           scan == CheckTronscan(r, "external_tronscan" \in blind, "external_tronscan" \in empty)
           mist == CheckMisttrack(r, "external_misttrack" \in blind,
                                  "external_misttrack" \in empty)
           others == IF external = {} THEN {} ELSE {scan, mist}
<1>1. AssessRisk(r, blind, empty) = LevelFrom(own \cup others)
  BY Zenon DEF AssessRisk
<1>2. "fail" \notin own \cup others
  <2> HIDE DEF own, others
  <2>1. "fail" \in own \cup others => LevelFrom(own \cup others) = "high"
    BY DEF LevelFrom
  <2> QED
    BY <1>1, <2>1 DEF ShouldBlock
<1>3. CheckBurnAddress(r) # "fail" /\ CheckSanctions(r) # "fail"
      /\ CheckSmartContract(r, "smart_contract" \in blind) # "fail"
      /\ CheckUsdtBlacklist(r, "usdt_blacklist" \in blind) # "fail"
  BY <1>2
<1>4. external # {} => scan # "fail" /\ mist # "fail"
  BY <1>2
<1>5. /\ "burn" \notin Facts[r] /\ r \notin list.addresses
      /\ "contract" \in Facts[r] => "smart_contract" \in blind
      /\ "blacklisted" \in Facts[r] => "usdt_blacklist" \in blind
  BY <1>3 DEF CheckBurnAddress, CheckSanctions, CheckSmartContract, CheckUsdtBlacklist, Seen
<1>6. /\ "flagged" \in Facts[r] => "external_tronscan" \notin Queried \ (blind \cup empty)
      /\ "tainted" \in Facts[r] => "external_misttrack" \notin Queried \ (blind \cup empty)
  BY <1>4 DEF CheckTronscan, CheckMisttrack, Seen, Queried
<1>7. /\ DOMAIN QueryFor = {"contract", "blacklisted", "flagged", "tainted"}
      /\ QueryFor["contract"] = "smart_contract" /\ QueryFor["blacklisted"] = "usdt_blacklist"
      /\ QueryFor["flagged"] = "external_tronscan" /\ QueryFor["tainted"] = "external_misttrack"
  BY DEF QueryFor
<1>8. ASSUME NEW t \in Severe \cap Facts[r] PROVE t \in Missed(r, blind \cup empty)
  <2>1. t \in DOMAIN QueryFor
    BY <1>5 DEF Severe
  <2>2. QueryFor[t] \notin Queried \ (blind \cup empty)
    BY <1>5, <1>6, <1>7, <2>1
  <2> QED
    BY <2>1, <2>2 DEF Missed
<1> QED
  BY <1>5, <1>8

\* The traits a screen records are traits.
LEMMA MissedTraits ==
  ASSUME NEW r \in Recipient, NEW hidden
  PROVE  Missed(r, hidden) \subseteq Trait
BY ScreeningAssumption DEF Missed

----------------------------------------------------------------------------
(* The invariant holds initially and is kept.                              *)

LEMMA EmptyRequest == NoRequest \in Request
BY DEF NoRequest, Request

LEMMA InitHolds == Init => PreflightInv
<1> SUFFICES ASSUME Init PROVE PreflightInv
  OBVIOUS
<1> USE DEF Init, ScreeningInit, FundingInit
<1>1. ScreenType
  BY DEF ScreenType, NoCache, NotLoaded
<1>2. FundType
  BY Times, BalanceBound DEF FundType, NoPrice
<1>3. RequestType
  BY EmptyRequest DEF RequestType, Early
<1>4. ListInv /\ HazardStopsPayment /\ PriceInv /\ BurnGateHolds
  BY DEF ListInv, HazardStopsPayment, PriceInv, BurnGateHolds, NotLoaded
<1>5. FundsInv
  BY DEF FundsInv, Committed
<1> QED
  BY <1>1, <1>2, <1>3, <1>4, <1>5 DEF PreflightInv

\* The list and its copies are as before.
LEMMA SameScreening ==
  ASSUME PreflightInv, UNCHANGED screening, pc' # "idle" => list.loaded
  PROVE  ScreenType' /\ ListInv'
BY DEF PreflightInv, screening, ScreenType, ListInv

\* Wallets, price and clock are as before.
LEMMA SameFunding ==
  ASSUME PreflightInv, UNCHANGED funding
  PROVE  FundType'
BY DEF PreflightInv, funding, FundType

\* The transfers in flight keep their promise, whatever becomes of the request.
LEMMA SameTransfers ==
  ASSUME PreflightInv, UNCHANGED <<usdt, pending>>,
         pc' \in Committed /\ ~ req.crossed' =>
           req'.amount <= usdt[req'.wallet] /\ pending[req'.wallet] = <<>>
  PROVE  FundsInv'
BY DEF PreflightInv, FundsInv

\* A request that ends owes nothing.
LEMMA Dropped ==
  ASSUME Drop
  PROVE  RequestType' /\ HazardStopsPayment' /\ PriceInv' /\ BurnGateHolds' /\ pc' = "idle"
<1>1. pc' = "idle" /\ req' \in Request
  BY EmptyRequest DEF Drop
<1> QED
  BY <1>1 DEF RequestType, HazardStopsPayment, PriceInv, BurnGateHolds, Early

\* An ending request, with screening and transfers untouched.
LEMMA DroppedAlone ==
  ASSUME PreflightInv, Drop, UNCHANGED <<screening, usdt, pending>>, FundType'
  PROVE  PreflightInv'
<1>1. pc' = "idle"
  BY DEF Drop
<1>2. ScreenType' /\ ListInv'
  BY <1>1, SameScreening
<1>3. FundsInv'
  BY <1>1 DEF PreflightInv, FundsInv, Committed
<1> QED
  BY <1>2, <1>3, Dropped DEF PreflightInv

LEMMA ReceiveStep ==
  ASSUME PreflightInv, NEW name, NEW to \in Recipient, NEW a \in Nat, Receive(name, to, a)
  PROVE  PreflightInv'
<1> DEFINE given == [NoRequest EXCEPT !.to = to, !.amount = a]
<1>1. /\ UNCHANGED screening /\ UNCHANGED funding /\ list.loaded
      /\ \/ Len(Pool) > 1 /\ pc' = "pick" /\ req' = given
         \/ pc' = "screen" /\ \E w \in WalletSet : req' = [given EXCEPT !.wallet = w]
  BY DEF Receive
<1>2. given \in Request /\ given.to = to /\ given.next = 1
  <2>1. given \in Request /\ given.to = to /\ given.next = NoRequest.next
    BY EmptyRequest DEF Request
  <2> QED
    BY <2>1 DEF NoRequest
<1>3. ScreenType' /\ ListInv' /\ FundType'
  BY <1>1, SameScreening, SameFunding
<1>4. FundsInv'
  BY <1>1 DEF PreflightInv, FundsInv, funding, Committed
<1>5. RequestType'
  <2> HIDE DEF given
  <2>1. CASE Len(Pool) > 1 /\ pc' = "pick" /\ req' = given
    <3>1. 1 \in DOMAIN Pool
      BY <2>1, PoolIndex
    <3> QED
      BY <1>2, <2>1, <3>1 DEF RequestType, Early
  <2>2. ASSUME NEW w \in WalletSet, pc' = "screen", req' = [given EXCEPT !.wallet = w]
        PROVE  RequestType'
    <3>1. req' \in Request /\ req'.to = to /\ req'.wallet = w
      BY <1>2, <2>2 DEF Request
    <3> QED
      BY <2>2, <3>1 DEF RequestType, Early
  <2> QED
    BY <1>1, <2>1, <2>2
<1>6. HazardStopsPayment' /\ PriceInv' /\ BurnGateHolds'
  BY <1>1 DEF HazardStopsPayment, PriceInv, BurnGateHolds
<1> QED
  BY <1>3, <1>4, <1>5, <1>6 DEF PreflightInv

LEMMA PickStep ==
  ASSUME PreflightInv, NEW returns \in BOOLEAN, PickNext(returns)
  PROVE  PreflightInv'
<1> DEFINE w == Pool[req.next]
           r == IF returns /\ usdt[w] > req.balance
                THEN [req EXCEPT !.wallet = w, !.balance = usdt[w]] ELSE req
<1>1. /\ pc = "pick" /\ UNCHANGED screening /\ UNCHANGED funding /\ list.loaded
      /\ req \in Request /\ req.to \in Recipient /\ req.next \in DOMAIN Pool
      /\ usdt \in [WalletSet -> 0..MaxBalance]
  BY DEF PickNext, PreflightInv, RequestType, ListInv, FundType
<1>2. /\ \/ req.next < Len(Pool) /\ pc' = "pick" /\ req' = [r EXCEPT !.next = @ + 1]
         \/ Drop
         \/ r.wallet # "" /\ pc' = "screen" /\ req' = [r EXCEPT !.next = 1, !.balance = -1]
  BY Zenon DEF PickNext
<1>3. w \in WalletSet /\ usdt[w] \in Int
  BY <1>1, PoolIndex, BalanceBound
<1>4. r \in Request /\ r.to = req.to /\ r.next = req.next
  BY <1>1, <1>3 DEF Request
<1> HIDE DEF r, w
<1>5. CASE Drop
  BY <1>1, <1>5, DroppedAlone, SameFunding DEF funding
<1>6. CASE req.next < Len(Pool) /\ pc' = "pick" /\ req' = [r EXCEPT !.next = @ + 1]
  <2>1. req' \in Request /\ req'.to = req.to /\ req'.next = req.next + 1
    <3>1. r.next \in Nat /\ r.next + 1 \in Nat
      BY <1>1, <1>4, PoolIndex
    <3> QED
      BY <1>4, <1>6, <3>1 DEF Request
  <2>2. req.next + 1 \in DOMAIN Pool
    BY <1>1, <1>6, PoolIndex
  <2>3. RequestType'
    BY <1>1, <1>6, <2>1, <2>2 DEF RequestType, Early
  <2>4. HazardStopsPayment' /\ PriceInv' /\ BurnGateHolds'
    BY <1>6 DEF HazardStopsPayment, PriceInv, BurnGateHolds
  <2>5. FundsInv'
    BY <1>1, <1>6 DEF PreflightInv, FundsInv, funding, Committed
  <2> QED
    BY <1>1, <2>3, <2>4, <2>5, SameScreening, SameFunding DEF PreflightInv
<1>7. CASE r.wallet # "" /\ pc' = "screen" /\ req' = [r EXCEPT !.next = 1, !.balance = -1]
  <2>1. req' \in Request /\ req'.to = req.to /\ req'.wallet = r.wallet
    <3>1. -1 \in Int /\ 1 \in Nat
      OBVIOUS
    <3> QED
      BY <1>4, <1>7, <3>1 DEF Request
  <2>6. req'.wallet \in WalletSet
    BY <1>7, <2>1 DEF Request
  <2>2. RequestType'
    BY <1>1, <1>7, <2>1, <2>6 DEF RequestType, Early
  <2>3. HazardStopsPayment' /\ PriceInv' /\ BurnGateHolds'
    BY <1>7 DEF HazardStopsPayment, PriceInv, BurnGateHolds
  <2>4. FundsInv'
    BY <1>1, <1>7 DEF PreflightInv, FundsInv, funding, Committed
  <2> QED
    BY <1>1, <2>2, <2>3, <2>4, SameScreening, SameFunding DEF PreflightInv
<1> QED
  BY <1>2, <1>5, <1>6, <1>7

LEMMA ScreenStep ==
  ASSUME PreflightInv, NEW blind, NEW empty, Screen(blind, empty)
  PROVE  PreflightInv'
<1>1. CASE Drop
  BY <1>1, DroppedAlone, SameFunding DEF Screen, funding
<1>2. CASE /\ ~ (blockLevel # "none" /\ ShouldBlock(AssessRisk(req.to, blind, empty), blockLevel))
           /\ pc' = "usdt" /\ req' = [req EXCEPT !.missed = Missed(req.to, blind \cup empty)]
  <2>1. /\ pc = "screen" /\ list.loaded /\ req \in Request /\ req.to \in Recipient
        /\ req.wallet \in WalletSet
        /\ UNCHANGED screening /\ UNCHANGED funding
    BY DEF PreflightInv, RequestType, ListInv, Screen
  <2>2. ScreenType' /\ ListInv' /\ FundType'
    BY <2>1, SameScreening, SameFunding
  <2>3. FundsInv'
    BY <1>2, <2>1 DEF PreflightInv, FundsInv, funding, Committed
  <2>4. /\ req' \in Request /\ req'.missed = Missed(req.to, blind \cup empty)
        /\ req'.to = req.to /\ req'.wallet = req.wallet
    BY <1>2, <2>1, MissedTraits DEF Request
  <2>5. RequestType'
    BY <1>2, <2>1, <2>4 DEF RequestType
  <2>6. HazardStopsPayment'
    <3>1. blockLevel # "none" =>
            /\ Severe \cap Facts[req.to] \subseteq Missed(req.to, blind \cup empty)
            /\ req.to \notin list.addresses
      BY <1>2, <2>1, PassedScreen DEF PreflightInv, ScreenType
    <3>2. kept \subseteq list.addresses /\ blockLevel' = blockLevel /\ kept' = kept
      BY <2>1 DEF PreflightInv, ListInv, screening
    <3> QED
      BY <2>4, <3>1, <3>2 DEF HazardStopsPayment
  <2>7. PriceInv' /\ BurnGateHolds'
    BY <1>2 DEF PriceInv, BurnGateHolds
  <2> QED
    BY <2>2, <2>3, <2>5, <2>6, <2>7 DEF PreflightInv
<1> QED
  BY <1>1, <1>2 DEF Screen

\* A screened request goes on, to the same recipient, with the list as it was.
LEMMA GoesOn ==
  ASSUME PreflightInv, pc \notin Early, pc' \in {"usdt"} \cup Committed, UNCHANGED screening,
         req' \in Request, req'.to = req.to, req'.missed = req.missed,
         req'.wallet = req.wallet
  PROVE  ScreenType' /\ ListInv' /\ HazardStopsPayment' /\ RequestType'
<1>1. pc \notin {"idle", "pick", "screen"} /\ list.loaded
  BY DEF PreflightInv, ListInv, Early
<1>2. ScreenType' /\ ListInv'
  BY <1>1, SameScreening
<1>3. HazardStopsPayment'
  BY <1>1 DEF PreflightInv, HazardStopsPayment, screening
<1>4. RequestType'
  BY <1>1 DEF PreflightInv, RequestType, Committed
<1> QED
  BY <1>2, <1>3, <1>4

LEMMA CheckUsdtStep ==
  ASSUME PreflightInv, CheckUsdt
  PROVE  PreflightInv'
<1>1. CASE Drop
  BY <1>1, DroppedAlone, SameFunding DEF CheckUsdt, funding
<1>2. CASE /\ ~ (usdt[req.wallet] < req.amount)
           /\ pc' = "trx" /\ req' = [req EXCEPT !.crossed = pending[req.wallet] # <<>>]
  <2>1. /\ pc = "usdt" /\ req \in Request /\ req.wallet \in WalletSet
        /\ UNCHANGED screening /\ UNCHANGED funding
    BY DEF PreflightInv, RequestType, CheckUsdt
  <2>2. /\ req' \in Request /\ req'.missed = req.missed /\ req'.amount = req.amount
        /\ req'.to = req.to /\ req'.wallet = req.wallet
        /\ req'.crossed = (pending[req.wallet] # <<>>)
    BY <1>2, <2>1 DEF Request
  <2>3. ScreenType' /\ ListInv' /\ HazardStopsPayment' /\ RequestType'
    BY <1>2, <2>1, <2>2, GoesOn DEF Early, Committed
  <2>4. req.amount <= usdt[req.wallet]
    <3>1. usdt[req.wallet] \in 0..MaxBalance /\ req.amount \in Nat
      BY <2>1 DEF PreflightInv, FundType, Request
    <3> QED
      BY <1>2, <3>1
  <2>5. FundsInv'
    BY <2>1, <2>2, <2>4 DEF PreflightInv, FundsInv, funding
  <2>6. PriceInv' /\ BurnGateHolds'
    BY <1>2 DEF PriceInv, BurnGateHolds
  <2> QED
    BY <2>1, <2>3, <2>5, <2>6, SameFunding DEF PreflightInv
<1> QED
  BY <1>1, <1>2 DEF CheckUsdt

\* The request goes on without touching a wallet.
LEMMA FundsGoOn ==
  ASSUME PreflightInv, pc \in Committed, UNCHANGED <<usdt, pending>>,
         req'.crossed = req.crossed, req'.amount = req.amount, req'.wallet = req.wallet
  PROVE  FundsInv'
BY DEF PreflightInv, FundsInv

LEMMA CheckTrxStep ==
  ASSUME PreflightInv, NEW enough \in BOOLEAN, CheckTrx(enough)
  PROVE  PreflightInv'
<1>1. CASE Drop
  BY <1>1, DroppedAlone, SameFunding DEF CheckTrx, funding
<1>2. CASE pc' = "estimate" /\ UNCHANGED req
  <2>1. pc = "trx" /\ req \in Request /\ UNCHANGED screening /\ UNCHANGED funding
    BY DEF PreflightInv, RequestType, CheckTrx
  <2>2. ScreenType' /\ ListInv' /\ HazardStopsPayment' /\ RequestType'
    BY <1>2, <2>1, GoesOn DEF Early, Committed
  <2>3. FundsInv'
    BY <1>2, <2>1, FundsGoOn DEF Committed, funding
  <2>4. PriceInv' /\ BurnGateHolds'
    BY <1>2 DEF PriceInv, BurnGateHolds
  <2> QED
    BY <2>1, <2>2, <2>3, <2>4, SameFunding DEF PreflightInv
<1> QED
  BY <1>1, <1>2 DEF CheckTrx

LEMMA EstimateStep ==
  ASSUME PreflightInv, NEW e \in Nat, Estimate(e)
  PROVE  PreflightInv'
<1>1. pc = "estimate" /\ req \in Request /\ UNCHANGED screening /\ UNCHANGED funding
  BY DEF PreflightInv, RequestType, Estimate
<1>2. FeeLimit(0, 0) \in Int
  BY FeeType
<1>3. /\ req' \in Request /\ req'.missed = req.missed /\ req'.amount = req.amount
      /\ req'.to = req.to /\ req'.wallet = req.wallet /\ req'.crossed = req.crossed
      /\ req'.energy = e
  BY <1>1, <1>2 DEF Request, Estimate
<1>4. ScreenType' /\ ListInv' /\ HazardStopsPayment' /\ RequestType'
  BY <1>1, <1>3, GoesOn DEF Early, Committed, Estimate
<1>5. FundsInv'
  BY <1>1, <1>3, FundsGoOn DEF Committed, funding
<1>6. PriceInv' /\ BurnGateHolds'
  BY <1>3 DEF PriceInv, BurnGateHolds, Estimate
<1> QED
  BY <1>1, <1>4, <1>5, <1>6, SameFunding DEF PreflightInv

\* A read of the price leaves a price that is not zero and, unless it was fetched anew, the
\* one that was there.
LEMMA PriceAfter ==
  ASSUME PreflightInv, NEW rpc \in {"ok", "absent", "raises"}, PriceRead(rpc)
  PROVE  /\ FundType' /\ cached'.value # 0
         /\ cached' = cached \/ cached'.at = clock
         /\ cached.value # 0 /\ cached' # cached => cached'.at # cached.at
<1>1. /\ cached \in [value : Nat, at : Nat] /\ clock \in Nat /\ price \in Nat \ {0}
      /\ cached' = CacheAfter(rpc)
  BY DEF PreflightInv, FundType, PriceRead
<1>2. CASE Expired
  <2>1. /\ cached'.at = clock /\ cached'.value \in Nat \ {0}
        /\ cached' \in [value : Nat, at : Nat]
    BY <1>1, <1>2, Times DEF CacheAfter
  <2>2. cached.value # 0 => cached.at # clock
    BY <1>1, <1>2, Times DEF Expired
  <2> QED
    BY <2>1, <2>2 DEF PreflightInv, FundType, PriceRead
<1>3. CASE ~ Expired
  <2>1. cached' = cached
    BY <1>1, <1>3 DEF CacheAfter
  <2>2. cached.value # 0
    BY <1>3 DEF Expired
  <2> QED
    BY <2>1, <2>2 DEF PreflightInv, FundType, PriceRead
<1> QED
  BY <1>2, <1>3

LEMMA GateStep ==
  ASSUME PreflightInv, NEW rpc \in {"ok", "absent", "raises"}, Gate(rpc)
  PROVE  PreflightInv'
<1>1. /\ PriceRead(rpc) /\ pc = "gate" /\ req \in Request /\ req.energy # 0
      /\ UNCHANGED screening /\ UNCHANGED <<usdt, pending>>
  BY DEF PreflightInv, RequestType, PriceInv, Gate, PriceRead
<1>2. FundType' /\ cached'.value # 0
  BY <1>1, PriceAfter
<1>3. CASE Drop
  BY <1>1, <1>2, <1>3, DroppedAlone
<1>4. CASE /\ ~ (MaxBurn > 0 /\ req.energy * cached'.value > MaxBurn)
           /\ pc' = "fee" /\ req' = [req EXCEPT !.gatedAt = cached'.at]
  <2>1. /\ req' \in Request /\ req'.missed = req.missed /\ req'.amount = req.amount
        /\ req'.to = req.to /\ req'.wallet = req.wallet /\ req'.crossed = req.crossed
        /\ req'.energy = req.energy /\ req'.gatedAt = cached'.at
    BY <1>1, <1>2, <1>4 DEF Request, FundType
  <2>2. ScreenType' /\ ListInv' /\ HazardStopsPayment' /\ RequestType'
    BY <1>1, <1>4, <2>1, GoesOn DEF Early, Committed
  <2>3. FundsInv'
    BY <1>1, <2>1, FundsGoOn DEF Committed
  <2>4. MaxBurn > 0 => req.energy * cached'.value <= MaxBurn
    <3> req.energy \in Nat /\ cached'.value \in Nat
      BY <1>1, <1>2 DEF Request, FundType
    <3>1. PICK m \in Int : m = req.energy * cached'.value
      OBVIOUS
    <3>2. ~ (MaxBurn > 0 /\ m > MaxBurn)
      BY <1>4, <3>1
    <3>3. MaxBurn > 0 => m <= MaxBurn
      BY <3>2, Amounts
    <3> QED
      BY <3>1, <3>3
  <2>5. PriceInv' /\ BurnGateHolds'
    BY <1>1, <1>2, <1>4, <2>1, <2>4 DEF PriceInv, BurnGateHolds
  <2> QED
    BY <1>2, <2>2, <2>3, <2>5 DEF PreflightInv
<1> QED
  BY <1>3, <1>4 DEF Gate

LEMMA ComputeFeeStep ==
  ASSUME PreflightInv, NEW rpc \in {"ok", "absent", "raises"}, ComputeFee(rpc)
  PROVE  PreflightInv'
<1>1. /\ PriceRead(rpc) /\ pc = "fee" /\ pc' = "broadcast" /\ req \in Request
      /\ UNCHANGED screening /\ UNCHANGED <<usdt, pending>>
      /\ req' = [req EXCEPT !.fee = FeeLimit(req.energy, cached'.value)]
  BY DEF PreflightInv, RequestType, ComputeFee, PriceRead
<1>2. /\ FundType' /\ cached'.value # 0
      /\ cached.value # 0 /\ cached' # cached => cached'.at # cached.at
  BY <1>1, PriceAfter
<1>3. FeeLimit(req.energy, cached'.value) \in Int
  BY <1>1, <1>2, FeeType DEF Request, FundType
<1>4. /\ req' \in Request /\ req'.missed = req.missed /\ req'.amount = req.amount
      /\ req'.to = req.to /\ req'.wallet = req.wallet /\ req'.crossed = req.crossed
      /\ req'.energy = req.energy /\ req'.gatedAt = req.gatedAt
      /\ req'.fee = FeeLimit(req.energy, cached'.value)
  BY <1>1, <1>3 DEF Request
<1>5. ScreenType' /\ ListInv' /\ HazardStopsPayment' /\ RequestType'
  BY <1>1, <1>4, GoesOn DEF Early, Committed
<1>6. FundsInv'
  BY <1>1, <1>4, FundsGoOn DEF Committed
<1>7. BurnGateHolds'
  <2> SUFFICES ASSUME MaxBurn > 0, cached'.at = req.gatedAt
               PROVE  req'.fee <= Max({MinFee, (MaxBurn * MarginNum) \div MarginDen})
    BY <1>4 DEF BurnGateHolds
  <2>1. /\ req.energy # 0 /\ cached.value # 0 /\ cached.at = req.gatedAt
        /\ req.energy * cached.value <= MaxBurn
    BY <1>1 DEF PreflightInv, PriceInv
  <2>2. cached' = cached
    BY <1>2, <2>1
  <2>3. req.energy \in Nat /\ cached.value \in Nat
    BY <1>1 DEF PreflightInv, FundType, Request
  <2> QED
    BY <1>4, <2>1, <2>2, <2>3, FeeWithinGate
<1>8. PriceInv'
  BY <1>1 DEF PriceInv
<1> QED
  BY <1>2, <1>5, <1>6, <1>7, <1>8 DEF PreflightInv

\* Every transfer of a crossed queue is crossed.
LEMMA AllCrossed ==
  ASSUME NEW s \in Seq(Transfer)
  PROVE  /\ Crossed(s) \in Seq(Transfer) /\ Len(Crossed(s)) = Len(s)
         /\ \A i \in DOMAIN Crossed(s) : Crossed(s)[i].crossed
<1>1. Len(s) \in Nat /\ DOMAIN s = 1..Len(s) /\ \A i \in 1..Len(s) : s[i] \in Transfer
  OBVIOUS
<1>2. \A i \in 1..Len(s) : [s[i] EXCEPT !.crossed = TRUE] \in Transfer
                           /\ [s[i] EXCEPT !.crossed = TRUE].crossed
  BY <1>1 DEF Transfer
<1>3. Crossed(s) = [i \in 1..Len(s) |-> [s[i] EXCEPT !.crossed = TRUE]]
  BY <1>1 DEF Crossed
<1>4. Crossed(s) \in [1..Len(s) -> Transfer]
  BY <1>2, <1>3, Zenon
<1>5. Crossed(s) \in Seq(Transfer) /\ Len(Crossed(s)) = Len(s)
  BY <1>1, <1>4, SeqDef, LenProperties
<1> QED
  BY <1>2, <1>3, <1>5

LEMMA BroadcastStep ==
  ASSUME PreflightInv, Broadcast
  PROVE  PreflightInv'
<1> DEFINE w == req.wallet
           others == pending[w]
           t == [amount |-> req.amount, crossed |-> req.crossed \/ others # <<>>]
           queue == Append(Crossed(others), t)
<1>1. /\ pc = "broadcast" /\ req \in Request /\ w \in WalletSet /\ Drop
      /\ UNCHANGED screening /\ UNCHANGED <<usdt, price, cached, clock>>
      /\ pending' = [pending EXCEPT ![w] = queue]
  BY DEF PreflightInv, RequestType, Broadcast
<1>2. others \in Seq(Transfer) /\ pending \in [WalletSet -> Seq(Transfer)]
  BY <1>1 DEF PreflightInv, FundType
<1>3. t \in Transfer
  BY <1>1 DEF Transfer, Request
<1>4. /\ queue \in Seq(Transfer) /\ Len(queue) = Len(others) + 1
      /\ \A i \in 1..Len(others) : queue[i].crossed
      /\ queue[Len(others) + 1] = t
  <2> HIDE DEF t, others
  <2> QED
    BY <1>2, <1>3, AllCrossed
<1>5. ScreenType' /\ ListInv' /\ RequestType' /\ HazardStopsPayment' /\ PriceInv'
      /\ BurnGateHolds' /\ pc' = "idle"
  BY <1>1, Dropped, SameScreening
<1>6. FundType'
  BY <1>1, <1>2, <1>4 DEF PreflightInv, FundType
<1>7. FundsInv'
  <2>1. ASSUME NEW v \in WalletSet, NEW i \in DOMAIN pending'[v], ~ pending'[v][i].crossed
        PROVE  pending'[v][i].amount <= usdt'[v] /\ Len(pending'[v]) = 1
    <3>1. CASE v # w
      BY <1>1, <1>2, <2>1, <3>1 DEF PreflightInv, FundsInv
    <3>2. CASE v = w
      <4>1. pending'[v] = queue
        BY <1>1, <1>2, <3>2
      <4>2. i \in 1..(Len(others) + 1) /\ Len(others) \in Nat
        BY <1>2, <1>4, <4>1
      <4>3. i = Len(others) + 1
        BY <1>4, <2>1, <4>1, <4>2
      <4>4. ~ t.crossed
        BY <1>4, <2>1, <4>1, <4>3
      <4>5. ~ req.crossed /\ others = <<>>
        BY <4>4
      <4>6. req.amount <= usdt[w]
        BY <1>1, <4>5 DEF PreflightInv, FundsInv, Committed
      <4>7. Len(others) = 0
        BY <4>5
      <4>8. Len(queue) = 1 /\ queue[i].amount = req.amount
        BY <1>4, <4>3, <4>7
      <4> QED
        BY <1>1, <3>2, <4>1, <4>6, <4>8
    <3> QED
      BY <3>1, <3>2
  <2> QED
    BY <1>5, <2>1 DEF FundsInv, Committed
<1> QED
  BY <1>5, <1>6, <1>7 DEF PreflightInv

LEMMA ProcessStep ==
  ASSUME PreflightInv, Fail \/ Die \/ Start \/ Listed
  PROVE  PreflightInv'
<1>1. CASE Fail
  BY <1>1, DroppedAlone, SameFunding DEF Fail, funding
<1>2. CASE Die
  <2>1. /\ Drop /\ list' = NotLoaded /\ cached' = NoPrice
        /\ UNCHANGED <<blockLevel, external, published, cache, kept>>
        /\ UNCHANGED <<usdt, pending, price, clock>>
    BY <1>2 DEF Die, Unload, settings
  <2>2. RequestType' /\ HazardStopsPayment' /\ PriceInv' /\ BurnGateHolds' /\ pc' = "idle"
    BY <2>1, Dropped
  <2>3. ScreenType' /\ ListInv'
    BY <2>1, <2>2 DEF PreflightInv, ScreenType, ListInv, NotLoaded
  <2>4. FundType'
    BY <2>1 DEF PreflightInv, FundType, NoPrice
  <2>5. FundsInv'
    BY <2>1, <2>2 DEF PreflightInv, FundsInv, Committed
  <2> QED
    BY <2>2, <2>3, <2>4, <2>5 DEF PreflightInv
<1>3. CASE Start
  <2>1. /\ ~ list.loaded /\ UNCHANGED <<blockLevel, external, published>>
        /\ UNCHANGED funding /\ pc' = pc /\ req' = req
    BY <1>3 DEF Start, LoadFromUrl, LoadFromCache, DieInLoad, Starting, settings
  <2>2. pc = "idle"
    BY <2>1 DEF PreflightInv, ListInv
  <2>3. RequestType' /\ HazardStopsPayment' /\ PriceInv' /\ BurnGateHolds'
    BY <2>1, <2>2 DEF PreflightInv, RequestType, HazardStopsPayment, PriceInv, BurnGateHolds
  <2>4. FundType' /\ FundsInv'
    BY <2>1, <2>2, SameFunding DEF PreflightInv, FundsInv, Committed, funding
  <2>5. ScreenType' /\ ListInv'
    <3>1. CASE LoadFromUrl
      BY <2>1, <2>2, <3>1 DEF PreflightInv, ScreenType, ListInv, LoadFromUrl, Loaded, CacheOf
    <3>2. CASE LoadFromCache
      <4>1. CASE list' = Loaded(cache.addresses) /\ UNCHANGED <<kept, cache>>
        BY <2>1, <2>2, <4>1 DEF PreflightInv, ScreenType, ListInv, Loaded
      <4>2. CASE list' = Loaded({}) /\ kept' = {} /\ UNCHANGED cache
        BY <2>1, <2>2, <4>2 DEF PreflightInv, ScreenType, ListInv, Loaded
      <4> QED
        BY <3>2, <4>1, <4>2 DEF LoadFromCache
    <3>3. CASE DieInLoad
      BY <2>1, <2>2, <3>3 DEF PreflightInv, ScreenType, ListInv, DieInLoad, CacheOf
    <3> QED
      BY <1>3, <3>1, <3>2, <3>3 DEF Start
  <2> QED
    BY <2>3, <2>4, <2>5 DEF PreflightInv
<1>4. CASE Listed
  <2>1. PICK r \in Listable : Publish(r) /\ UNCHANGED funding /\ pc' = pc /\ req' = req
    BY <1>4 DEF Listed
  <2>2. ScreenType' /\ ListInv'
    BY <2>1, PreflightAssumption DEF PreflightInv, ScreenType, ListInv, Publish, settings
  <2>3. FundType' /\ FundsInv'
    BY <2>1, SameFunding DEF PreflightInv, FundsInv, funding
  <2>4. RequestType' /\ HazardStopsPayment'
    BY <2>1 DEF PreflightInv, RequestType, HazardStopsPayment, Publish, settings
  <2>5. PriceInv' /\ BurnGateHolds'
    BY <2>1 DEF PreflightInv, PriceInv, BurnGateHolds, funding
  <2> QED
    BY <2>2, <2>3, <2>4, <2>5 DEF PreflightInv
<1> QED
  BY <1>1, <1>2, <1>3, <1>4

LEMMA MinedStep ==
  ASSUME PreflightInv, Mined
  PROVE  PreflightInv'
<1>0. PICK w \in WalletSet : \E i \in DOMAIN pending[w] : Confirm(w, i)
  BY DEF Mined
<1>1. PICK i \in DOMAIN pending[w] : Confirm(w, i)
  BY <1>0
<1> DEFINE s == pending[w]
           left == RemoveAt(s, i)
<1>2. /\ usdt \in [WalletSet -> 0..MaxBalance] /\ pending \in [WalletSet -> Seq(Transfer)]
      /\ pending' = [pending EXCEPT ![w] = left]
      /\ usdt' = [usdt EXCEPT ![w] = IF s[i].amount <= @ THEN @ - s[i].amount ELSE @]
      /\ UNCHANGED screening /\ UNCHANGED <<price, cached, clock, pc, req>>
  BY <1>1 DEF Mined, Confirm, PreflightInv, FundType
<1>3. s \in Seq(Transfer) /\ usdt[w] \in 0..MaxBalance /\ s[i].amount \in Nat
  <2>1. s \in Seq(Transfer) /\ usdt[w] \in 0..MaxBalance
    BY <1>2
  <2>2. s[i] \in Transfer
    BY <2>1
  <2> QED
    BY <2>1, <2>2 DEF Transfer
<1>4. /\ left \in Seq(Transfer)
      /\ \A j \in DOMAIN left : \E k \in DOMAIN s : left[j] = s[k]
      /\ Len(s) = 1 => left = <<>>
  BY <1>3, RemovedOne
<1>5. ScreenType' /\ ListInv' /\ HazardStopsPayment'
  <2>1. ScreenType' /\ ListInv'
    BY <1>2, SameScreening DEF PreflightInv, ListInv
  <2> QED
    BY <1>2, <2>1 DEF PreflightInv, HazardStopsPayment, screening
<1>6. RequestType' /\ PriceInv' /\ BurnGateHolds'
  BY <1>2 DEF PreflightInv, RequestType, PriceInv, BurnGateHolds
<1>7. FundType'
  <2>1. (IF s[i].amount <= usdt[w] THEN usdt[w] - s[i].amount ELSE usdt[w]) \in 0..MaxBalance
    BY <1>3, BalanceBound
  <2> HIDE DEF s, left
  <2>2. usdt' \in [WalletSet -> 0..MaxBalance]
    BY <1>2, <2>1
  <2>3. pending' \in [WalletSet -> Seq(Transfer)]
    BY <1>2, <1>4
  <2> QED
    BY <1>2, <2>2, <2>3 DEF PreflightInv, FundType
<1>8. FundsInv'
  <2>1. ASSUME NEW v \in WalletSet, NEW j \in DOMAIN pending'[v], ~ pending'[v][j].crossed
        PROVE  pending'[v][j].amount <= usdt'[v] /\ Len(pending'[v]) = 1
    <3>1. CASE v # w
      BY <1>2, <2>1, <3>1 DEF PreflightInv, FundsInv
    <3>2. CASE v = w
      <4>1. pending'[v] = left
        BY <1>2, <3>2
      <4>2. PICK k \in DOMAIN s : left[j] = s[k]
        BY <1>4, <2>1, <4>1
      <4>3. Len(s) = 1
        BY <2>1, <4>1, <4>2 DEF PreflightInv, FundsInv
      <4>4. left = <<>>
        BY <1>4, <4>3
      <4> QED
        BY <2>1, <4>1, <4>4
    <3> QED
      BY <3>1, <3>2
  <2>2. ASSUME pc \in Committed, ~ req.crossed
        PROVE  req.amount <= usdt'[req.wallet] /\ pending'[req.wallet] = <<>>
    <3>1. pending[req.wallet] = <<>> /\ req.amount <= usdt[req.wallet]
      BY <2>2 DEF PreflightInv, FundsInv
    <3>2. req.wallet # w
      BY <1>1, <3>1
    <3> QED
      BY <1>2, <3>1, <3>2
  <2> QED
    BY <1>2, <2>1, <2>2 DEF FundsInv
<1> QED
  BY <1>5, <1>6, <1>7, <1>8 DEF PreflightInv

LEMMA MovedStep ==
  ASSUME PreflightInv, MovedByOthers
  PROVE  PreflightInv'
<1>1. PICK w \in WalletSet, b \in 0..MaxBalance :
        /\ Moved(w, b)
        /\ req' = IF req.wallet = w /\ b < usdt[w] THEN [req EXCEPT !.crossed = TRUE] ELSE req
  BY DEF MovedByOthers
<1>2. /\ usdt \in [WalletSet -> 0..MaxBalance] /\ pending \in [WalletSet -> Seq(Transfer)]
      /\ usdt' = [usdt EXCEPT ![w] = b]
      /\ pending' = IF b < usdt[w] THEN [pending EXCEPT ![w] = Crossed(@)] ELSE pending
      /\ UNCHANGED screening /\ UNCHANGED <<price, cached, clock, pc>> /\ req \in Request
  BY <1>1 DEF MovedByOthers, Moved, PreflightInv, FundType, RequestType
<1>3. pending[w] \in Seq(Transfer) /\ usdt[w] \in 0..MaxBalance
  BY <1>2
<1>4. /\ Crossed(pending[w]) \in Seq(Transfer)
      /\ \A i \in DOMAIN Crossed(pending[w]) : Crossed(pending[w])[i].crossed
  BY <1>3, AllCrossed
<1>5. /\ req' \in Request /\ req'.to = req.to /\ req'.missed = req.missed
      /\ req'.wallet = req.wallet /\ req'.amount = req.amount /\ req'.energy = req.energy
      /\ req'.gatedAt = req.gatedAt /\ req'.fee = req.fee /\ req'.next = req.next
      /\ req'.crossed = (req.crossed \/ (req.wallet = w /\ b < usdt[w]))
  BY <1>1, <1>2 DEF Request
<1>6. ScreenType' /\ ListInv' /\ HazardStopsPayment'
  <2>1. ScreenType' /\ ListInv'
    BY <1>2, SameScreening DEF PreflightInv, ListInv
  <2> QED
    BY <1>2, <1>5, <2>1 DEF PreflightInv, HazardStopsPayment, screening
<1>7. RequestType' /\ PriceInv' /\ BurnGateHolds'
  BY <1>2, <1>5 DEF PreflightInv, RequestType, PriceInv, BurnGateHolds
<1>8. FundType'
  BY <1>2, <1>4 DEF PreflightInv, FundType
<1>9. FundsInv'
  <2>1. ASSUME NEW v \in WalletSet, NEW j \in DOMAIN pending'[v], ~ pending'[v][j].crossed
        PROVE  pending'[v][j].amount <= usdt'[v] /\ Len(pending'[v]) = 1
    <3>1. CASE v # w
      BY <1>2, <2>1, <3>1 DEF PreflightInv, FundsInv
    <3>2. CASE v = w /\ b < usdt[w]
      <4>1. pending'[v] = Crossed(pending[w])
        BY <1>2, <3>2
      <4> QED
        BY <1>4, <2>1, <4>1
    <3>3. CASE v = w /\ ~ (b < usdt[w])
      <4>1. pending'[v] = pending[w] /\ usdt'[v] = b /\ usdt[w] <= b
        BY <1>2, <1>3, <3>3
      <4>2. pending[w][j].amount <= usdt[w] /\ Len(pending[w]) = 1
        BY <2>1, <4>1 DEF PreflightInv, FundsInv
      <4>3. pending[w][j].amount \in Nat
        <5>1. pending[w][j] \in Transfer
          BY <1>3, <2>1, <4>1
        <5> QED
          BY <5>1 DEF Transfer
      <4> QED
        BY <1>3, <4>1, <4>2, <4>3
    <3> QED
      BY <3>1, <3>2, <3>3
  <2>2. ASSUME pc \in Committed, ~ req'.crossed
        PROVE  req.amount <= usdt'[req.wallet] /\ pending'[req.wallet] = <<>>
    <3>1. /\ pending[req.wallet] = <<>> /\ req.amount <= usdt[req.wallet]
          /\ ~ (req.wallet = w /\ b < usdt[w])
      BY <1>5, <2>2 DEF PreflightInv, FundsInv
    <3>2. CASE req.wallet # w
      BY <1>2, <3>1, <3>2
    <3>3. CASE req.wallet = w
      <4>1. pending' = pending /\ usdt'[w] = b /\ usdt[w] <= b
        BY <1>2, <1>3, <3>1, <3>3
      <4>2. req.amount \in Nat
        BY <1>2 DEF Request
      <4> QED
        BY <1>3, <3>1, <3>3, <4>1, <4>2
    <3> QED
      BY <3>2, <3>3
  <2> QED
    BY <1>2, <1>5, <2>1, <2>2 DEF FundsInv
<1> QED
  BY <1>6, <1>7, <1>8, <1>9 DEF PreflightInv

LEMMA TimeStep ==
  ASSUME PreflightInv, TimePasses \/ UNCHANGED vars
  PROVE  PreflightInv'
<1>1. /\ UNCHANGED screening /\ UNCHANGED <<usdt, pending, cached, pc, req>>
      /\ clock' \in Nat /\ price' \in Nat \ {0}
  BY Times DEF TimePasses, Tick, Repriced, vars, funding, PreflightInv, FundType
<1>2. ScreenType' /\ ListInv'
  BY <1>1, SameScreening DEF PreflightInv, ListInv
<1>3. HazardStopsPayment' /\ RequestType'
  BY <1>1 DEF PreflightInv, HazardStopsPayment, RequestType, screening
<1>4. FundType' /\ FundsInv'
  BY <1>1 DEF PreflightInv, FundType, FundsInv
<1>5. PriceInv' /\ BurnGateHolds'
  BY <1>1 DEF PreflightInv, PriceInv, BurnGateHolds
<1> QED
  BY <1>2, <1>3, <1>4, <1>5 DEF PreflightInv

LEMMA NextStep == PreflightInv /\ [Next]_vars => PreflightInv'
<1> SUFFICES ASSUME PreflightInv, [Next]_vars PROVE PreflightInv'
  OBVIOUS
<1>1. CASE \E name \in Varied("funds", WalletSet \cup {"", "unknown"}, Pool[1]),
              to \in Varied("risk", Recipient, CHOOSE r \in Recipient \ Malformed : TRUE),
              a \in Varied("funds", Amount, Min(Amount)) : Receive(name, to, a)
  <2>1. PICK name \in Varied("funds", WalletSet \cup {"", "unknown"}, Pool[1]),
             to \in Varied("risk", Recipient, CHOOSE r \in Recipient \ Malformed : TRUE),
             a \in Varied("funds", Amount, Min(Amount)) : Receive(name, to, a)
    BY <1>1
  <2>2. to \in Recipient
    <3>1. (CHOOSE r \in Recipient \ Malformed : TRUE) \in Recipient
      BY PreflightAssumption
    <3> QED
      BY <3>1 DEF Varied
  <2>3. a \in Nat
    <3>1. Amount \subseteq Nat /\ Amount # {}
      BY PreflightAssumption
    <3>2. Min(Amount) \in Nat
      BY <3>1, LeastMember
    <3> QED
      BY <3>1, <3>2 DEF Varied
  <2> QED
    BY <2>1, <2>2, <2>3, ReceiveStep
<1>12. CASE \E returns \in BOOLEAN : PickNext(returns)
  BY <1>12, PickStep
<1>2. CASE \E blind \in SUBSET Queried, empty \in SUBSET external : Screen(blind, empty)
  BY <1>2, ScreenStep
<1>3. CASE CheckUsdt
  BY <1>3, CheckUsdtStep
<1>4. CASE \E enough \in BOOLEAN : CheckTrx(enough)
  BY <1>4, CheckTrxStep
<1>5. CASE \E e \in Varied("price", Energy \cup {0}, 0) : Estimate(e)
  <2>1. PICK e \in Varied("price", Energy \cup {0}, 0) : Estimate(e)
    BY <1>5
  <2>2. e \in Nat
    BY PreflightAssumption DEF Varied
  <2> QED
    BY <2>1, <2>2, EstimateStep
<1>6. CASE \E rpc \in {"ok", "absent", "raises"} : Gate(rpc) \/ ComputeFee(rpc)
  BY <1>6, GateStep, ComputeFeeStep
<1>7. CASE Broadcast
  BY <1>7, BroadcastStep
<1>8. CASE Fail \/ Die \/ Start \/ Listed
  BY <1>8, ProcessStep
<1>9. CASE Mined
  BY <1>9, MinedStep
<1>10. CASE MovedByOthers
  BY <1>10, MovedStep
<1>11. CASE TimePasses \/ UNCHANGED vars
  BY <1>11, TimeStep
<1> QED
  BY <1>1, <1>2, <1>3, <1>4, <1>5, <1>6, <1>7, <1>8, <1>9, <1>10, <1>11, <1>12, Zenon DEF Next

LEMMA Invariance == Spec => []PreflightInv
BY InitHolds, NextStep, PTL DEF Spec

----------------------------------------------------------------------------
(* The theorems.                                                           *)

\* No payout passes the screen for a recipient with a trait of high severity whose own
\* query showed it, nor for one on the list last downloaded whole, across restarts, lost
\* downloads and failing queries (assess_risk, should_block, load of sanctions.py).
THEOREM HazardStopped == Spec => []HazardStopsPayment
<1>1. PreflightInv => HazardStopsPayment
  BY DEF PreflightInv
<1> QED
  BY <1>1, Invariance, PTL

\* A transfer in flight that shared its time with no other withdrawal from its wallet is
\* covered when a block takes it, for any number of wallets and transfers (_send_impl).
THEOREM CoveredAlone == Spec => []CoveredUnlessCrossed
<1>1. PreflightInv => CoveredUnlessCrossed
  BY DEF PreflightInv, FundsInv, CoveredUnlessCrossed
<1> QED
  BY <1>1, Invariance, PTL

\* The fee limit of a broadcast keeps to MAX_ENERGY_BURN_TRX with its margin whenever both
\* reads of the price gave the same one, for any prices, estimates, margin and TTL
\* (the gate of _send_impl, compute_fee_limit_sun).
THEOREM BurnGated == Spec => []BurnGateHolds
<1>1. PreflightInv => BurnGateHolds
  BY DEF PreflightInv
<1> QED
  BY <1>1, Invariance, PTL
=============================================================================
