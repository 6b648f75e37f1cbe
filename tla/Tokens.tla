------------------------------- MODULE Tokens -------------------------------
(***************************************************************************)
(* API tokens: the TokenStore of tokens.py, the `skr-crypto token'         *)
(* commands, which open the same SQLite table from processes of their own, *)
(* and the check of X-API-Key in security.py.                              *)
(*                                                                         *)
(* A token's id stands for its plaintext as well: the store keeps a salted *)
(* hash that only that plaintext matches.  A plaintext exists outside the  *)
(* store only if a command printed it (known).                             *)
(*                                                                         *)
(* A server process has two names for a store.  security.py imports the    *)
(* singleton as _token_store, an in-memory store that is empty when the    *)
(* process starts; the lifespan then points tokens.tokens at a store on    *)
(* the database and leaves the imported name alone.  Requests are checked  *)
(* against the imported one.                                               *)
(***************************************************************************)
EXTENDS FiniteSets, Naturals

CONSTANTS
  Token,        \* token ids
  NoToken,
  AuthToken,    \* the key of the AUTH_TOKEN setting
  Operator,     \* processes of the CLI
  ScopeChoice,  \* scope sets operators ask for
  MaxKills      \* bound: commands killed or failing

ALL_SCOPES == {"admin", "send", "read", "metrics"}

\* AUTH_TOKEN must be set (config), and it is no minted token.
ASSUME TokensAssumption ==
  /\ NoToken \notin Token /\ AuthToken \notin Token \cup {NoToken}
  /\ ScopeChoice \subseteq SUBSET ALL_SCOPES
  /\ MaxKills \in Nat

VARIABLES
  table,         \* the tokens table: status, scopes and created_by of each id
  op,            \* the command each CLI process is running
  known,         \* plaintexts that were printed
  asked,         \* history: ids a revoke command was asked to revoke
  tokens,        \* what tokens.tokens names: "none", "memory" or "database"
  _token_store,  \* what security._token_store names
  answer,        \* the last answer to a request
  kills          \* commands killed so far

vars == <<table, op, known, asked, tokens, _token_store, answer, kills>>
server == <<tokens, _token_store, answer>>
console == <<op, known, asked, kills>>

NoRow == [status |-> "none", scopes |-> {}, by |-> NoToken]
NoCommand == [pc |-> "idle", token |-> NoToken, new |-> NoToken, scopes |-> {}]
NoAnswer == [result |-> "none", key |-> NoToken, scope |-> "read", row |-> NoRow]

Active(tb) == {t \in Token : tb[t].status = "active"}
Revoked(tb) == {t \in Token : tb[t].status = "revoked"}

Row == [status : {"none", "active", "revoked"}, scopes : SUBSET ALL_SCOPES,
        by : Token \cup {NoToken}]
Command == [pc : {"idle", "print", "revoke", "rotate", "rotated"},
            token : Token \cup {NoToken}, new : Token \cup {NoToken},
            scopes : SUBSET ALL_SCOPES]
Store == {"none", "memory", "database"}
Result == {"id", "legacy", "scope", "revoked", "invalid"}
Answer == [result : Result \cup {"none"}, key : Token \cup {NoToken, AuthToken},
           scope : ALL_SCOPES, row : Row]

\* Every variable has the values the code can give it.
TypeOK ==
  /\ table \in [Token -> Row]
  /\ known \subseteq Token /\ asked \subseteq Token
  /\ op \in [Operator -> Command]
  /\ tokens \in Store /\ _token_store \in Store
  /\ answer \in Answer
  /\ kills \in 0..MaxKills

Init ==
  /\ table = [t \in Token |-> NoRow]
  /\ known = {} /\ asked = {}
  /\ op = [o \in Operator |-> NoCommand]
  /\ tokens = "none" /\ _token_store = "none"
  /\ answer = NoAnswer
  /\ kills = 0

----------------------------------------------------------------------------
(* Scopes.                                                                 *)

\* _IMPLIES.
Implies(s) ==
  CASE s = "admin" -> {"admin", "send", "read", "metrics"}
    [] s = "send" -> {"send", "read"}
    [] s = "read" -> {"read"}
    [] s = "metrics" -> {"metrics"}

ScopeSatisfies(scopes, required) == required \in UNION {Implies(s) : s \in scopes}

----------------------------------------------------------------------------
(* The commands.  Each opens the database, and may be killed or see a      *)
(* statement fail (a locked database) between any two of its steps.        *)

\* Mutant of Minted: INSERT OR REPLACE meets an id that is in use.
MintedOver(t, scopes, by) ==
  /\ scopes # {}
  /\ table' = [table EXCEPT ![t] = [status |-> "active", scopes |-> scopes, by |-> by]]

\* create, with validated scopes: an id no row has (12 random hex digits), and the
\* plaintext still to be printed.
Minted(t, scopes, by) ==
  /\ table[t].status = "none"
  /\ scopes # {}
  /\ table' = [table EXCEPT ![t] = [status |-> "active", scopes |-> scopes, by |-> by]]

Create(o, scopes) ==
  /\ op[o].pc = "idle"
  /\ \E t \in Token :
       /\ Minted(t, scopes, NoToken)
       /\ op' = [op EXCEPT ![o] = [NoCommand EXCEPT !.pc = "print", !.new = t]]
  /\ UNCHANGED <<known, asked, kills, server>>

\* output.print_value: the one time the plaintext is shown.
PrintValue(o) ==
  /\ op[o].pc = "print"
  /\ known' = known \cup {op[o].new}
  /\ op' = [op EXCEPT ![o] = NoCommand]
  /\ UNCHANGED <<table, asked, kills, server>>

\* revoke and rotate look the token up, refuse a revoked one and ask the operator.
LookUp(o, t, pc) ==
  /\ op[o].pc = "idle"
  /\ table[t].status = "active"
  /\ op' = [op EXCEPT ![o] = [NoCommand EXCEPT !.pc = pc, !.token = t,
                                               !.scopes = table[t].scopes]]
  /\ UNCHANGED <<table, known, asked, kills, server>>

\* UPDATE ... WHERE id = ? AND revoked_at IS NULL.
Marked(t) ==
  table' = [table EXCEPT ![t].status = IF @ = "active" THEN "revoked" ELSE @]

Revoke(o) ==
  /\ op[o].pc = "revoke"
  /\ Marked(op[o].token)
  /\ asked' = asked \cup {op[o].token}
  /\ op' = [op EXCEPT ![o] = NoCommand]
  /\ UNCHANGED <<known, kills, server>>

\* Mutant of RotateCreate: an error of create is swallowed.
RotateCreateSwallows(o) ==
  /\ op[o].pc = "rotate"
  /\ op' = [op EXCEPT ![o].pc = "rotated"]
  /\ UNCHANGED <<table, known, asked, kills, server>>

\* The same scopes, created_by the old id.
RotateCreate(o) ==
  /\ op[o].pc = "rotate"
  /\ \E t \in Token :
       /\ Minted(t, op[o].scopes, op[o].token)
       /\ op' = [op EXCEPT ![o] = [@ EXCEPT !.pc = "rotated", !.new = t]]
  /\ UNCHANGED <<known, asked, kills, server>>

RotateRevoke(o) ==
  /\ op[o].pc = "rotated"
  /\ Marked(op[o].token)
  /\ op' = [op EXCEPT ![o].pc = "print"]
  /\ UNCHANGED <<known, asked, kills, server>>

\* The operator declines: nothing was written yet.
Abort(o) ==
  /\ op[o].pc \in {"revoke", "rotate"}
  /\ op' = [op EXCEPT ![o] = NoCommand]
  /\ UNCHANGED <<table, known, asked, kills, server>>

\* The command dies; what it was about to print is lost.
Kill(o) ==
  /\ op[o].pc # "idle"
  /\ kills < MaxKills
  /\ kills' = kills + 1
  /\ op' = [op EXCEPT ![o] = NoCommand]
  /\ UNCHANGED <<table, known, asked, server>>

----------------------------------------------------------------------------
(* The server.                                                             *)

\* The modules are imported: tokens.py makes an in-memory store, and security.py takes its
\* own name for it.
Import ==
  /\ tokens = "none"
  /\ tokens' = "memory" /\ _token_store' = tokens'
  /\ UNCHANGED <<table, console, answer>>

\* The lifespan: a store on the database is bound to the name in tokens.py.
InitTokenStore ==
  /\ tokens = "memory"
  /\ tokens' = "database"
  /\ UNCHANGED <<table, console, _token_store, answer>>

Stop ==
  /\ tokens = "database"
  /\ tokens' = "none" /\ _token_store' = "none"
  /\ answer' = NoAnswer
  /\ UNCHANGED <<table, console>>

\* The rows of a store: no code puts any into the one in memory.
Rows(store) == IF store = "database" THEN table ELSE [t \in Token |-> NoRow]

\* A match among the active rows decides, and its last_used_at, which no decision reads, is
\* set; without one, a second look tells a revoked token from an unknown one.
Verify(rows, key, scope) ==
  CASE rows[key].status = "active" -> IF ScopeSatisfies(rows[key].scopes, scope) THEN "id" ELSE "scope"
    [] rows[key].status = "revoked" -> "revoked"
    [] rows[key].status = "none" -> "invalid"

\* _verify_with_scope: AUTH_TOKEN short-circuits, any other key goes to the store.
Checked(rows, key, scope) == IF key = AuthToken THEN "legacy" ELSE Verify(rows, key, scope)

\* A request with a key its caller got from an operator, or AUTH_TOKEN.
Request(key, scope) ==
  /\ tokens = "database"
  /\ answer' = [result |-> Checked(Rows(_token_store), key, scope), key |-> key, scope |-> scope,
                row |-> IF key = AuthToken THEN NoRow ELSE table[key]]
  /\ UNCHANGED <<table, console, tokens, _token_store>>

Next ==
  \/ \E o \in Operator :
       \/ \E s \in ScopeChoice : Create(o, s)
       \/ \E t \in Token, pc \in {"revoke", "rotate"} : LookUp(o, t, pc)
       \/ PrintValue(o) \/ Revoke(o) \/ RotateCreate(o) \/ RotateRevoke(o)
       \/ Abort(o) \/ Kill(o)
  \/ \E key \in known \cup {AuthToken}, s \in ALL_SCOPES : Request(key, s)
  \/ Import \/ InitTokenStore \/ Stop

Spec == Init /\ [][Next]_vars

----------------------------------------------------------------------------
(* Properties.                                                             *)

\* "Cannot be undone": no write of another command, based on a row it read earlier, makes
\* a revoked token valid again or changes what a token may do (create, revoke).
RevokedIsFinal ==
  [][\A t \in Token :
       /\ table[t].status = "revoked" => table'[t].status = "revoked"
       /\ table[t].status # "none" => table'[t].scopes = table[t].scopes]_vars

\* What replaced t.
Successors(t) == {c \in Token : table[c].by = t /\ table[c].scopes = table[t].scopes}

\* Tokens that a rotation revoked and whose successor nobody was shown or will be.
Stranded ==
  {t \in Revoked(table) \ asked :
     Successors(t) \cap (known \cup {op[o].new : o \in Operator}) = {}}

\* A token revoked without a revoke command asking for it has a successor with its scopes,
\* whatever other commands do meanwhile, and the operator has seen the successor's
\* plaintext or is about to, but for one rotation per command that died: rotate revokes
\* the old token before it prints the new one (rotate_cmd).
RotationKeepsAccess ==
  /\ \A t \in Revoked(table) \ asked : Successors(t) # {}
  /\ Cardinality(Stranded) <= kills

\* "The token immediately becomes valid [...] a new token is picked up on the next
\* authenticated call": a request with a printed token whose row is active and has the
\* scope is accepted (_verify_with_scope, verify).
MintedIsAccepted ==
  answer.row.status = "active" /\ ScopeSatisfies(answer.row.scopes, answer.scope) =>
    answer.result = "id"
============================================================================
