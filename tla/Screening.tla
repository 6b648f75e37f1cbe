----------------------------- MODULE Screening -----------------------------
(***************************************************************************)
(* Who may be paid: the sanctions list a process loads when it starts      *)
(* (sanctions.py), the checks of a recipient (risk.py) and the decision    *)
(* RISK_BLOCK_LEVEL makes of them.                                         *)
(***************************************************************************)
EXTENDS FiniteSets, Naturals

CONSTANTS
  Recipient,   \* valid addresses
  Facts,       \* what is true of each on chain and at the external services
  MaxStarts    \* bound: starts of the process

Trait == {"burn", "contract", "blacklisted", "inactive", "flagged", "tainted"}

ASSUME ScreeningAssumption ==
  /\ Facts \in [Recipient -> SUBSET Trait]
  /\ MaxStarts \in Nat

VARIABLES
  blockLevel,  \* RISK_BLOCK_LEVEL
  external,    \* the services RISK_USE_EXTERNAL and MISTTRACK_API_KEY have it ask
  refresh,     \* SANCTIONS_LIST_REFRESH
  published,   \* the addresses at SANCTIONS_LIST_URL
  cache,       \* the file of the last download
  list,        \* _addresses
  kept,        \* history: addresses of the last download that is whole on disk
  starts

screening == <<blockLevel, external, refresh, published, cache, list, kept, starts>>
settings == <<blockLevel, external, refresh>>

NotLoaded == [loaded |-> FALSE, addresses |-> {}]
Loaded(a) == [loaded |-> TRUE, addresses |-> a]
NoCache == [kind |-> "none", addresses |-> {}]
CacheOf(a) == [kind |-> "text", addresses |-> a]

ScreeningInit ==
  /\ blockLevel \in {"high", "medium", "none"}
  /\ external \in {{}, {"external_tronscan"}, {"external_tronscan", "external_misttrack"}}
  /\ refresh \in BOOLEAN
  /\ published = {}
  /\ cache = NoCache
  /\ list = NotLoaded
  /\ kept = {}
  /\ starts = 0

----------------------------------------------------------------------------
(* load() of sanctions.py, once per process, before requests are served.   *)

Starting == ~ list.loaded /\ starts < MaxStarts /\ starts' = starts + 1

\* The download is parsed, the text is written over the cache in place: whole, not at
\* all, or cut off (the error is logged).
LoadFromUrl ==
  /\ Starting
  /\ refresh
  /\ list' = Loaded(published)
  /\ \/ cache' = CacheOf(published) /\ kept' = published
     \/ UNCHANGED <<cache, kept>>
     \/ \E part \in SUBSET published : cache' = CacheOf(part) /\ kept' = {}
  /\ UNCHANGED <<settings, published>>

\* The process dies while it writes the cache.
DieInLoad ==
  /\ Starting
  /\ refresh
  /\ \E part \in SUBSET published : cache' = CacheOf(part)
  /\ kept' = {}
  /\ UNCHANGED <<settings, published, list>>

\* Mutant of LoadFromCache: nothing is read back.
LoadNothing ==
  /\ Starting
  /\ list' = Loaded({})
  /\ UNCHANGED <<settings, published, cache, kept>>

\* No refresh, or an unreachable URL: the cache; without one, or with one that cannot be
\* read, an EMPTY list that counts as loaded.
LoadFromCache ==
  /\ Starting
  /\ \/ list' = Loaded(cache.addresses) /\ UNCHANGED kept
     \/ list' = Loaded({}) /\ kept' = {}
  /\ UNCHANGED <<settings, published, cache>>

Publish(r) ==
  /\ published' = published \cup {r}
  /\ UNCHANGED <<settings, cache, list, kept, starts>>

\* The set goes with the process.
Unload ==
  /\ list.loaded
  /\ list' = NotLoaded
  /\ UNCHANGED <<settings, published, cache, kept, starts>>

----------------------------------------------------------------------------
(* The checks.  raises: the query of this one raises.  empty: a service   *)
(* answers 200 with a body that has none of the fields that are read.     *)

Seen(trait, r) == IF trait \in Facts[r] THEN "fail" ELSE "ok"

CheckBurnAddress(r) == Seen("burn", r)

CheckActivation(r, raises) ==
  IF raises THEN "skip" ELSE IF "inactive" \in Facts[r] THEN "warn" ELSE "ok"

\* tronpy raises for any address that is no contract: every error reads as OK.
CheckSmartContract(r, raises) == IF raises THEN "ok" ELSE Seen("contract", r)

CheckUsdtBlacklist(r, raises) == IF raises THEN "skip" ELSE Seen("blacklisted", r)

CheckSanctions(r) ==
  IF ~ list.loaded THEN "skip" ELSE IF r \in list.addresses THEN "fail" ELSE "ok"

CheckBalance(raises) == IF raises THEN "skip" ELSE "ok"

CheckTronscan(r, raises, empty) ==
  CASE raises -> "skip" [] empty /\ ~ raises -> "ok" [] OTHER -> Seen("flagged", r)

\* Without a key it is skipped.
CheckMisttrack(r, raises, empty) ==
  CASE raises \/ "external_misttrack" \notin external -> "skip"
    [] empty /\ ~ raises /\ "external_misttrack" \in external -> "ok"
    [] OTHER -> Seen("tainted", r)

\* Every failing check has severity "high".
LevelFrom(statuses) ==
  CASE "fail" \in statuses -> "high"
    [] "fail" \notin statuses /\ "warn" \in statuses -> "medium"
    [] OTHER -> "low"

Queried == {"activation", "smart_contract", "usdt_blacklist", "balance"} \cup external

\* blind: the checks whose query raises.  empty: those with an empty answer.
AssessRisk(r, blind, empty) ==
  LevelFrom({CheckBurnAddress(r), CheckSanctions(r),
             CheckActivation(r, "activation" \in blind),
             CheckSmartContract(r, "smart_contract" \in blind),
             CheckUsdtBlacklist(r, "usdt_blacklist" \in blind),
             CheckBalance("balance" \in blind)}
    \cup IF external = {} THEN {}
         ELSE {CheckTronscan(r, "external_tronscan" \in blind, "external_tronscan" \in empty),
               CheckMisttrack(r, "external_misttrack" \in blind, "external_misttrack" \in empty)})

\* The query that shows a trait of high severity, and the traits no query showed: it
\* raised, came back empty or was not made.
QueryFor == [contract |-> "smart_contract", blacklisted |-> "usdt_blacklist",
             flagged |-> "external_tronscan", tainted |-> "external_misttrack"]

Severe == {"burn"} \cup DOMAIN QueryFor

Missed(r, hidden) ==
  {t \in DOMAIN QueryFor \cap Facts[r] : QueryFor[t] \notin Queried \ hidden}

ShouldBlock(level, at) ==
  /\ at # "none"
  /\ level = "high" \/ (at = "medium" /\ level = "medium")
============================================================================
