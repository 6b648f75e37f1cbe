---------------------------- MODULE TokensProofs ----------------------------
(***************************************************************************)
(* Theorems about Tokens, for any set of tokens and operators, any choice  *)
(* of scopes, and commands that die at any point.                          *)
(***************************************************************************)
EXTENDS Tokens, FiniteSetTheorems, TLAPS

USE TokensAssumption

----------------------------------------------------------------------------
(* The inductive invariant.                                                *)

\* A command c that is between two of its statements knows the token it is about; one
\* that has minted a token and not printed it yet knows that one.
Informed(c, tb) ==
  /\ c.pc = "idle" => c = NoCommand
  /\ c.pc \in {"revoke", "rotate", "rotated"} =>
       c.token \in Token /\ tb[c.token].status # "none"
  /\ c.pc \in {"revoke", "rotate"} => c.new = NoToken
  /\ c.pc \in {"print", "rotated"} => c.new \in Token /\ tb[c.new].status # "none"
  /\ c.pc \in {"rotate", "rotated"} => c.scopes = tb[c.token].scopes
  /\ c.pc = "rotated" => tb[c.new].by = c.token /\ tb[c.new].scopes = c.scopes

CommandInv == \A o \in Operator : Informed(op[o], table)

\* A printed plaintext has a row, and an id without a row has no parent.
RowInv ==
  /\ \A t \in known : table[t].status # "none"
  /\ \A t \in Token : table[t].status = "none" => table[t] = NoRow

\* The rotations whose successor is lost are finitely many, so they can be counted.
AccessInv == IsFiniteSet(Stranded) /\ RotationKeepsAccess

TokensInv == TypeOK /\ CommandInv /\ RowInv /\ AccessInv

----------------------------------------------------------------------------
(* Type correctness.                                                       *)

\* A command belongs to one operator; the server starts, answers and stops.
OperatorStep(o) ==
  \/ \E s \in ScopeChoice : Create(o, s)
  \/ \E t \in Token, pc \in {"revoke", "rotate"} : LookUp(o, t, pc)
  \/ PrintValue(o) \/ Revoke(o) \/ RotateCreate(o) \/ RotateRevoke(o)
  \/ Abort(o) \/ Kill(o)

ServerStep ==
  \/ \E key \in known \cup {AuthToken}, s \in ALL_SCOPES : Request(key, s)
  \/ Import \/ InitTokenStore \/ Stop

\* Every step is one of an operator or one of the server.
LEMMA NextSplit ==
  Next <=> (\E o \in Operator : OperatorStep(o)) \/ ServerStep
BY Zenon DEF Next, OperatorStep, ServerStep

\* The server reads the table and writes nothing the commands know of.
LEMMA ServerReads ==
  ASSUME ServerStep \/ UNCHANGED vars
  PROVE  UNCHANGED <<table, op, known, asked, kills>>
BY DEF ServerStep, Request, Import, InitTokenStore, Stop, console, vars

\* The records that stand for nothing have the types of the others.
LEMMA NothingTyped ==
  NoRow \in Row /\ NoCommand \in Command /\ NoAnswer \in Answer
BY DEF NoRow, Row, NoCommand, Command, NoAnswer, Answer, ALL_SCOPES

\* create fills an empty row and leaves the others alone.
LEMMA MintedRow ==
  ASSUME TypeOK, NEW t \in Token, NEW s \in SUBSET ALL_SCOPES,
         NEW by \in Token \cup {NoToken}, Minted(t, s, by)
  PROVE  /\ table' \in [Token -> Row]
         /\ table[t].status = "none" /\ table'[t].status = "active"
         /\ table'[t].scopes = s /\ table'[t].by = by
         /\ \A u \in Token \ {t} : table'[u] = table[u]
BY DEF TypeOK, Minted, Row

\* The guarded UPDATE of revoke touches nothing but the status of an active row.
LEMMA MarkedRow ==
  ASSUME TypeOK, NEW t, Marked(t)
  PROVE  /\ table' \in [Token -> Row]
         /\ \A u \in Token :
              /\ table'[u].scopes = table[u].scopes /\ table'[u].by = table[u].by
              /\ u # t \/ table[u].status # "active" => table'[u] = table[u]
              /\ u = t /\ table[u].status = "active" => table'[u].status = "revoked"
<1>1. CASE t \in Token
  BY <1>1 DEF TypeOK, Marked, Row
<1>2. CASE t \notin Token
  <2>1. table' = table
    BY <1>2 DEF TypeOK, Marked
  <2> QED
    BY <1>2, <2>1 DEF TypeOK
<1> QED
  BY <1>1, <1>2

\* TypeOK is inductive relative to what the commands in progress know.
LEMMA TypeStep ==
  ASSUME TypeOK, CommandInv, [Next]_vars
  PROVE  TypeOK'
<1> USE NothingTyped DEF TypeOK, server, console
<1>1. ASSUME NEW o \in Operator, OperatorStep(o) PROVE TypeOK'
  <2>0. op[o] \in Command
    OBVIOUS
  <2>1. ASSUME NEW s \in ScopeChoice, Create(o, s) PROVE TypeOK'
    <3>1. PICK t \in Token :
            /\ Minted(t, s, NoToken)
            /\ op' = [op EXCEPT ![o] = [NoCommand EXCEPT !.pc = "print", !.new = t]]
      BY <2>1 DEF Create
    <3>2. table' \in [Token -> Row]
      BY <3>1, MintedRow
    <3>3. [NoCommand EXCEPT !.pc = "print", !.new = t] \in Command
      BY DEF Command, NoCommand
    <3> QED
      BY <2>1, <3>1, <3>2, <3>3 DEF Create
  <2>2. ASSUME NEW t \in Token, NEW p \in {"revoke", "rotate"}, LookUp(o, t, p) PROVE TypeOK'
    <3>1. [NoCommand EXCEPT !.pc = p, !.token = t, !.scopes = table[t].scopes] \in Command
      BY DEF Command, NoCommand, Row
    <3> QED
      BY <2>2, <3>1 DEF LookUp
  <2>3. CASE PrintValue(o) BY <2>3 DEF PrintValue, CommandInv, Informed
  <2>4. CASE Revoke(o)
    <3>1. table' \in [Token -> Row]
      BY <2>4, MarkedRow DEF Revoke
    <3> QED
      BY <2>4, <3>1 DEF Revoke, CommandInv, Informed
  <2>5. CASE RotateCreate(o)
    <3>1. PICK t \in Token :
            /\ Minted(t, op[o].scopes, op[o].token)
            /\ op' = [op EXCEPT ![o] = [@ EXCEPT !.pc = "rotated", !.new = t]]
      BY <2>5 DEF RotateCreate
    <3>2. table' \in [Token -> Row]
      BY <2>0, <3>1, MintedRow DEF Command
    <3>3. [op[o] EXCEPT !.pc = "rotated", !.new = t] \in Command
      BY <2>0 DEF Command
    <3> QED
      BY <2>5, <3>1, <3>2, <3>3 DEF RotateCreate
  <2>6. CASE RotateRevoke(o)
    <3>1. table' \in [Token -> Row]
      BY <2>6, MarkedRow DEF RotateRevoke
    <3>2. [op[o] EXCEPT !.pc = "print"] \in Command
      BY <2>0 DEF Command
    <3> QED
      BY <2>6, <3>1, <3>2 DEF RotateRevoke
  <2>7. CASE Abort(o) BY <2>7 DEF Abort
  <2>8. CASE Kill(o) BY <2>8 DEF Kill
  <2> QED
    BY <1>1, <2>1, <2>2, <2>3, <2>4, <2>5, <2>6, <2>7, <2>8 DEF OperatorStep
<1>2. ASSUME NEW k \in known \cup {AuthToken}, NEW s \in ALL_SCOPES, Request(k, s)
      PROVE  TypeOK'
  <2>0. k # AuthToken => k \in Token
    OBVIOUS
  <2>1. Rows(_token_store) \in [Token -> Row]
    BY DEF Rows
  <2>2. Checked(Rows(_token_store), k, s) \in Result
    <3>1. CASE k = AuthToken
      BY <3>1 DEF Checked, Result
    <3>2. CASE k # AuthToken
      <4>1. Rows(_token_store)[k].status \in {"none", "active", "revoked"}
        BY <2>0, <2>1, <3>2 DEF Row
      <4> QED
        BY <3>2, <4>1 DEF Checked, Verify, Result
    <3> QED
      BY <3>1, <3>2
  <2>3. PICK r \in Row : r = IF k = AuthToken THEN NoRow ELSE table[k]
    BY <2>0
  <2>4. PICK c \in Result : c = Checked(Rows(_token_store), k, s)
    BY <2>2
  <2>5. [result |-> c, key |-> k, scope |-> s, row |-> r] \in Answer
    BY <2>0 DEF Answer
  <2> QED
    BY <1>2, <2>3, <2>4, <2>5 DEF Request
<1>3. CASE Import \/ InitTokenStore \/ Stop
  <2>1. tokens' \in Store /\ _token_store' \in Store /\ answer' \in Answer
    BY <1>3 DEF Import, InitTokenStore, Stop, Store
  <2> QED
    BY <1>3, <2>1 DEF Import, InitTokenStore, Stop
<1>4. CASE UNCHANGED vars BY <1>4 DEF vars
<1> QED
  BY <1>1, <1>2, <1>3, <1>4, NextSplit DEF ServerStep

----------------------------------------------------------------------------
(* A row, once minted, only ever changes from active to revoked.           *)

\* What one step may do to the table and to what was printed.
RowsKept ==
  /\ known \subseteq known'
  /\ \A t \in Token :
       /\ table[t].status = "revoked" => table'[t].status = "revoked"
       /\ table[t].status # "none" => /\ table'[t].status # "none"
                                      /\ table'[t].scopes = table[t].scopes
                                      /\ table'[t].by = table[t].by

\* Every step keeps the rows: create never reuses an id, revoke is guarded, and no
\* request writes one.
LEMMA RowsStep ==
  ASSUME TypeOK, [Next]_vars
  PROVE  RowsKept
<1> USE DEF server, console, RowsKept
<1>1. ASSUME NEW o \in Operator, OperatorStep(o) PROVE RowsKept
  <2>0. op[o] \in Command
    BY DEF TypeOK
  <2>1. ASSUME NEW s \in ScopeChoice, Create(o, s) PROVE RowsKept
    <3>1. PICK t \in Token : Minted(t, s, NoToken)
      BY <2>1 DEF Create
    <3> QED
      BY <2>1, <3>1, MintedRow DEF Create
  <2>2. CASE RotateCreate(o)
    <3>1. PICK t \in Token : Minted(t, op[o].scopes, op[o].token)
      BY <2>2 DEF RotateCreate
    <3>2. op[o].scopes \in SUBSET ALL_SCOPES /\ op[o].token \in Token \cup {NoToken}
      BY <2>0 DEF Command
    <3> QED
      BY <2>2, <3>1, <3>2, MintedRow DEF RotateCreate
  <2>3. CASE Revoke(o) BY <2>3, MarkedRow DEF Revoke
  <2>4. CASE RotateRevoke(o) BY <2>4, MarkedRow DEF RotateRevoke
  <2>5. CASE PrintValue(o) BY <2>5 DEF PrintValue
  <2>6. CASE \/ \E t \in Token, p \in {"revoke", "rotate"} : LookUp(o, t, p)
             \/ Abort(o) \/ Kill(o)
    BY <2>6 DEF LookUp, Abort, Kill
  <2> QED
    BY <1>1, <2>1, <2>2, <2>3, <2>4, <2>5, <2>6 DEF OperatorStep
<1>2. CASE ServerStep \/ UNCHANGED vars BY <1>2, ServerReads
<1> QED
  BY <1>1, <1>2, NextSplit

----------------------------------------------------------------------------
(* The commands.                                                           *)

\* CommandInv is inductive: what a command has read stays true whatever the other
\* commands do meanwhile, because rows are kept.
LEMMA CommandStep ==
  ASSUME TypeOK, CommandInv, [Next]_vars
  PROVE  CommandInv'
<1>0. RowsKept
  BY RowsStep
<1>1. ASSUME NEW o \in Operator, op'[o] = op[o] PROVE Informed(op[o], table')
  BY <1>0 DEF CommandInv, Informed, RowsKept
<1>2. Informed(NoCommand, table')
  BY DEF Informed, NoCommand
<1> USE DEF server, console
<1>3. ASSUME NEW o \in Operator, OperatorStep(o) PROVE CommandInv'
  <2>0. op[o] \in Command /\ op \in [Operator -> Command]
    BY DEF TypeOK
  <2>1. SUFFICES /\ \A s \in Operator \ {o} : op'[s] = op[s]
                 /\ Informed(op'[o], table')
    BY <1>1 DEF CommandInv, Informed
  <2>2. ASSUME NEW s \in ScopeChoice, Create(o, s) PROVE <2>1!1
    <3>1. PICK t \in Token :
            /\ Minted(t, s, NoToken)
            /\ op' = [op EXCEPT ![o] = [NoCommand EXCEPT !.pc = "print", !.new = t]]
      BY <2>2 DEF Create
    <3>2. table'[t].status = "active"
      BY <3>1, MintedRow
    <3> QED
      BY <2>0, <3>1, <3>2 DEF NoCommand, Informed
  <2>3. ASSUME NEW t \in Token, NEW p \in {"revoke", "rotate"}, LookUp(o, t, p)
        PROVE  <2>1!1
    BY <2>0, <2>3 DEF LookUp, NoCommand, Informed
  <2>4. CASE PrintValue(o) BY <1>2, <2>0, <2>4 DEF PrintValue
  <2>5. CASE Revoke(o) BY <1>2, <2>0, <2>5 DEF Revoke
  <2>6. CASE RotateCreate(o)
    <3>1. PICK t \in Token :
            /\ Minted(t, op[o].scopes, op[o].token)
            /\ op' = [op EXCEPT ![o] = [@ EXCEPT !.pc = "rotated", !.new = t]]
      BY <2>6 DEF RotateCreate
    <3>2. /\ table'[t].status = "active" /\ table'[t].scopes = op[o].scopes
          /\ table'[t].by = op[o].token
      BY <2>0, <3>1, MintedRow DEF Command
    <3>3. /\ op[o].token \in Token /\ table[op[o].token].status # "none"
          /\ op[o].scopes = table[op[o].token].scopes
      BY <2>6 DEF RotateCreate, CommandInv, Informed
    <3>4. /\ table'[op[o].token].status # "none"
          /\ op[o].scopes = table'[op[o].token].scopes
      BY <1>0, <3>3 DEF RowsKept
    <3>5. /\ op'[o].pc = "rotated" /\ op'[o].new = t
          /\ op'[o].token = op[o].token /\ op'[o].scopes = op[o].scopes
      BY <2>0, <3>1 DEF Command
    <3> QED
      BY <2>0, <3>1, <3>2, <3>3, <3>4, <3>5 DEF Informed
  <2>7. CASE RotateRevoke(o)
    <3>1. op' = [op EXCEPT ![o].pc = "print"] /\ op[o].new \in Token
          /\ table[op[o].new].status # "none"
      BY <2>7 DEF RotateRevoke, CommandInv, Informed
    <3>2. op'[o].pc = "print" /\ op'[o].new = op[o].new
      BY <2>0, <3>1 DEF Command
    <3> QED
      BY <1>0, <2>0, <3>1, <3>2 DEF Informed, RowsKept
  <2>8. CASE Abort(o) BY <1>2, <2>0, <2>8 DEF Abort
  <2>9. CASE Kill(o) BY <1>2, <2>0, <2>9 DEF Kill
  <2> QED
    BY <1>3, <2>2, <2>3, <2>4, <2>5, <2>6, <2>7, <2>8, <2>9 DEF OperatorStep
<1>4. ASSUME UNCHANGED op PROVE CommandInv'
  BY <1>1, <1>4 DEF CommandInv, Informed
<1>5. CASE ServerStep \/ UNCHANGED vars
  BY <1>4, <1>5, ServerReads
<1> QED
  BY <1>3, <1>5, NextSplit

\* RowInv is inductive: a plaintext is printed by the command that minted its row.
LEMMA RowStep ==
  ASSUME TypeOK, CommandInv, RowInv, [Next]_vars
  PROVE  RowInv'
<1>0. RowsKept
  BY RowsStep
<1> USE DEF server, console, RowInv
<1>1. ASSUME NEW o \in Operator, OperatorStep(o) PROVE RowInv'
  <2>0. op[o] \in Command /\ known \subseteq Token
    BY DEF TypeOK
  <2>1. ASSUME NEW s \in ScopeChoice, Create(o, s) PROVE RowInv'
    <3>1. PICK t \in Token : Minted(t, s, NoToken)
      BY <2>1 DEF Create
    <3> QED
      BY <1>0, <2>0, <2>1, <3>1, MintedRow DEF Create, RowsKept
  <2>2. CASE RotateCreate(o)
    <3>1. PICK t \in Token : Minted(t, op[o].scopes, op[o].token)
      BY <2>2 DEF RotateCreate
    <3>2. op[o].scopes \in SUBSET ALL_SCOPES /\ op[o].token \in Token \cup {NoToken}
      BY <2>0 DEF Command
    <3> QED
      BY <1>0, <2>0, <2>2, <3>1, <3>2, MintedRow DEF RotateCreate, RowsKept
  <2>3. CASE Revoke(o)
    <3>1. Marked(op[o].token) /\ known' = known
      BY <2>3 DEF Revoke
    <3> QED
      BY <1>0, <2>0, <3>1, MarkedRow DEF RowsKept
  <2>4. CASE RotateRevoke(o)
    <3>1. Marked(op[o].token) /\ known' = known
      BY <2>4 DEF RotateRevoke
    <3> QED
      BY <1>0, <2>0, <3>1, MarkedRow DEF RowsKept
  <2>5. CASE PrintValue(o) BY <2>5 DEF PrintValue, CommandInv, Informed
  <2>6. CASE \/ \E t \in Token, p \in {"revoke", "rotate"} : LookUp(o, t, p)
             \/ Abort(o) \/ Kill(o)
    BY <2>6 DEF LookUp, Abort, Kill
  <2> QED
    BY <1>1, <2>1, <2>2, <2>3, <2>4, <2>5, <2>6 DEF OperatorStep
<1>2. CASE ServerStep \/ UNCHANGED vars BY <1>2, ServerReads
<1> QED
  BY <1>1, <1>2, NextSplit

\* A rotation revokes the old token after it has minted the new one, with the same
\* scopes; from then on the new one is printed or in the hands of a command, and a command
\* that dies forgets one token, the successor of at most one other.
LEMMA RotationStep ==
  ASSUME TypeOK, CommandInv, RowInv, AccessInv, [Next]_vars
  PROVE  AccessInv'
<1>0. RowsKept /\ (\A c \in Token : table[c].status = "none" => table[c].by = NoToken)
  BY RowsStep DEF RowInv, NoRow
<1> DEFINE Held(c) == c \in known \/ \E o \in Operator : op[o].new = c
<1>h. Stranded = {t \in Revoked(table) \ asked : \A c \in Successors(t) : ~ Held(c)}
  BY DEF Stranded
<1>i. Stranded' = {t \in Revoked(table)' \ asked' : \A c \in Successors(t)' : ~ Held(c)'}
  BY DEF Stranded
<1> USE DEF server, console
<1>a. IsFiniteSet(Stranded) /\ Cardinality(Stranded) \in Nat /\ kills \in Nat
  BY FS_CardinalityType DEF AccessInv, TypeOK
\* A successor stays one.
<1>1. ASSUME NEW t \in Token, table[t].status # "none", NEW c \in Successors(t)
      PROVE  c \in Successors(t)'
  <2>1. c \in Token /\ table[c].by = t /\ table[c].scopes = table[t].scopes
    BY DEF Successors
  <2>2. table[c].status # "none"
    BY <1>0, <2>1
  <2> QED
    BY <1>0, <1>1, <2>1, <2>2 DEF RowsKept, Successors
\* Who is stranded after a step was, or lost its successor in this step.
<1>b. ASSUME NEW t \in Revoked(table) \ asked, t \in Stranded', t \notin Stranded
      PROVE  \E c \in Successors(t) : Held(c) /\ ~ Held(c)'
  BY <1>b, <1>1, <1>h, <1>i DEF Revoked
<1>c. ASSUME NEW t \in Revoked(table) \ asked PROVE Successors(t)' # {}
  BY <1>1 DEF AccessInv, RotationKeepsAccess, Revoked
<1>d. ASSUME Stranded' \subseteq Stranded, kills' = kills,
             \A t \in Revoked(table)' \ asked' : Successors(t)' # {}
      PROVE  AccessInv'
  <2>1. IsFiniteSet(Stranded') /\ Cardinality(Stranded') <= Cardinality(Stranded)
    BY <1>a, <1>d, FS_Subset
  <2>2. Cardinality(Stranded') \in Nat
    BY <2>1, FS_CardinalityType
  <2>3. Cardinality(Stranded') <= kills'
    BY <1>a, <1>d, <2>1, <2>2 DEF AccessInv, RotationKeepsAccess
  <2> QED
    BY <1>d, <2>1, <2>3 DEF AccessInv, RotationKeepsAccess
<1>2. ASSUME Revoked(table)' \ asked' \subseteq Revoked(table) \ asked,
             \A c \in Token : Held(c) => Held(c)', kills' = kills
      PROVE  AccessInv'
  <2>1. Stranded' \subseteq Stranded
    BY <1>2, <1>b, <1>i DEF Successors
  <2> QED
    BY <1>2, <1>c, <1>d, <2>1
<1>3. ASSUME NEW o \in Operator, OperatorStep(o) PROVE AccessInv'
  <2>0. op[o] \in Command /\ op \in [Operator -> Command] /\ known \subseteq Token
        /\ kills \in Nat
    BY DEF TypeOK
  <2>1. ASSUME NEW s \in ScopeChoice, Create(o, s) PROVE AccessInv'
    <3>1. PICK t \in Token :
            /\ Minted(t, s, NoToken)
            /\ op' = [op EXCEPT ![o] = [NoCommand EXCEPT !.pc = "print", !.new = t]]
      BY <2>1 DEF Create
    <3>2. Revoked(table)' = Revoked(table)
      BY <3>1, MintedRow DEF Revoked
    <3>3. op[o].new = NoToken
      BY <2>1 DEF Create, CommandInv, Informed, NoCommand
    <3>4. \A c \in Token : Held(c) => Held(c)'
      BY <2>0, <2>1, <3>1, <3>3 DEF Create
    <3> QED
      BY <1>2, <2>1, <3>2, <3>4 DEF Create
  <2>2. ASSUME NEW t \in Token, NEW p \in {"revoke", "rotate"}, LookUp(o, t, p)
        PROVE  AccessInv'
    <3>1. op[o].new = NoToken
      BY <2>2 DEF LookUp, CommandInv, Informed, NoCommand
    <3>2. \A c \in Token : Held(c) => Held(c)'
      BY <2>0, <2>2, <3>1 DEF LookUp
    <3> QED
      BY <1>2, <2>2, <3>2 DEF LookUp, Revoked
  <2>3. CASE PrintValue(o)
    <3>1. \A c \in Token : Held(c) => Held(c)'
      BY <2>0, <2>3 DEF PrintValue
    <3> QED
      BY <1>2, <2>3, <3>1 DEF PrintValue, Revoked
  <2>4. CASE Revoke(o)
    <3>1. op[o].new = NoToken
      BY <2>4 DEF Revoke, CommandInv, Informed
    <3>2. \A c \in Token : Held(c) => Held(c)'
      BY <2>0, <2>4, <3>1 DEF Revoke
    <3>3. Revoked(table)' \ asked' \subseteq Revoked(table) \ asked
      BY <2>4, MarkedRow DEF Revoke, Revoked
    <3> QED
      BY <1>2, <2>4, <3>2, <3>3 DEF Revoke
  <2>5. CASE RotateCreate(o)
    <3>1. PICK t \in Token :
            /\ Minted(t, op[o].scopes, op[o].token)
            /\ op' = [op EXCEPT ![o] = [@ EXCEPT !.pc = "rotated", !.new = t]]
      BY <2>5 DEF RotateCreate
    <3>0. op[o].scopes \in SUBSET ALL_SCOPES /\ op[o].token \in Token \cup {NoToken}
      BY <2>0 DEF Command
    <3>2. Revoked(table)' = Revoked(table)
      <4>1. /\ table[t].status = "none" /\ table'[t].status = "active"
            /\ \A u \in Token \ {t} : table'[u] = table[u]
        BY <3>0, <3>1, MintedRow
      <4> QED
        BY <4>1 DEF Revoked
    <3>3. op[o].new = NoToken
      BY <2>5 DEF RotateCreate, CommandInv, Informed
    <3>4. \A c \in Token : Held(c) => Held(c)'
      BY <2>0, <2>5, <3>1, <3>3 DEF RotateCreate
    <3> QED
      BY <1>2, <2>5, <3>2, <3>4 DEF RotateCreate
  <2>6. CASE RotateRevoke(o)
    <3>1. /\ op[o].pc = "rotated" /\ Marked(op[o].token)
          /\ op' = [op EXCEPT ![o].pc = "print"] /\ UNCHANGED <<known, asked, kills>>
      BY <2>6 DEF RotateRevoke
    <3>2. op'[o].new = op[o].new /\ \A s \in Operator : op'[s].new = op[s].new
      BY <2>0, <3>1 DEF Command
    <3>3. \A c \in Token : Held(c) => Held(c)'
      BY <3>1, <3>2
    <3>4. /\ op[o].token \in Token /\ table[op[o].token].status # "none"
          /\ op[o].new \in Token
          /\ table[op[o].new].by = op[o].token
          /\ table[op[o].new].scopes = table[op[o].token].scopes
      BY <3>1 DEF CommandInv, Informed
    <3> PICK n, old : n = op[o].new /\ old = op[o].token
      OBVIOUS
    <3>s. n \in Successors(old)
      BY <3>4 DEF Successors
    <3>5. n \in Successors(old)' /\ Held(n)'
      BY <1>1, <3>2, <3>4, <3>s
    <3>6. Revoked(table)' \subseteq Revoked(table) \cup {op[o].token}
      BY <3>1, MarkedRow DEF Revoked
    <3>7. Stranded' \subseteq Stranded
      <4> SUFFICES ASSUME NEW t \in Stranded' PROVE t \in Stranded
        OBVIOUS
      <4>1. t # old
        BY <1>i, <3>5
      <4>2. t \in Revoked(table) \ asked
        BY <1>i, <3>1, <3>6, <4>1
      <4> QED
        BY <1>b, <3>3, <4>2 DEF Successors
    <3>8. \A t \in Revoked(table)' \ asked' : Successors(t)' # {}
      BY <1>c, <3>1, <3>5, <3>6
    <3> QED
      BY <1>d, <3>1, <3>7, <3>8
  <2>7. CASE Abort(o)
    <3>1. op[o].new = NoToken
      BY <2>7 DEF Abort, CommandInv, Informed
    <3>2. \A c \in Token : Held(c) => Held(c)'
      BY <2>0, <2>7, <3>1 DEF Abort
    <3> QED
      BY <1>2, <2>7, <3>2 DEF Abort, Revoked
  <2>8. CASE Kill(o)
    <3>1. kills' = kills + 1 /\ UNCHANGED <<table, asked, known>>
          /\ op' = [op EXCEPT ![o] = NoCommand]
      BY <2>8 DEF Kill
    <3>2. Revoked(table)' \ asked' = Revoked(table) \ asked
      BY <3>1 DEF Revoked
    <3>3. ASSUME NEW c, Held(c), ~ Held(c)' PROVE c = op[o].new
      BY <2>0, <3>1, <3>3
    <3> PICK p : p = table[op[o].new].by
      OBVIOUS
    <3>4. Stranded' \subseteq Stranded \cup {p}
      <4> SUFFICES ASSUME NEW t \in Stranded', t \notin Stranded PROVE t = p
        OBVIOUS
      <4>1. t \in Revoked(table) \ asked
        BY <1>i, <3>2
      <4>2. PICK c \in Successors(t) : Held(c) /\ ~ Held(c)'
        BY <1>b, <4>1
      <4>3. c = op[o].new
        BY <3>3, <4>2
      <4> QED
        BY <4>2, <4>3 DEF Successors
    <3>5. /\ IsFiniteSet(Stranded \cup {p})
          /\ Cardinality(Stranded \cup {p}) <= Cardinality(Stranded) + 1
      <4>1. PICK S : S = Stranded
        OBVIOUS
      <4>2. IsFiniteSet(S) /\ Cardinality(S) \in Nat
        BY <1>a, <4>1
      <4>3. /\ IsFiniteSet(S \cup {p})
            /\ Cardinality(S \cup {p}) = Cardinality(S)
               \/ Cardinality(S \cup {p}) = Cardinality(S) + 1
        BY <4>2, FS_AddElement
      <4> QED
        BY <4>1, <4>2, <4>3
    <3>6. IsFiniteSet(Stranded') /\ Cardinality(Stranded') <= Cardinality(Stranded \cup {p})
      BY <3>4, <3>5, FS_Subset
    <3>7. Cardinality(Stranded') \in Nat /\ Cardinality(Stranded \cup {p}) \in Nat
      BY <3>5, <3>6, FS_CardinalityType
    <3>8. Cardinality(Stranded') <= kills'
      BY <1>a, <3>1, <3>5, <3>6, <3>7 DEF AccessInv, RotationKeepsAccess
    <3>9. \A t \in Revoked(table)' \ asked' : Successors(t)' # {}
      BY <1>c, <3>2
    <3> QED
      BY <3>6, <3>8, <3>9 DEF AccessInv, RotationKeepsAccess
  <2> QED
    BY <1>3, <2>1, <2>2, <2>3, <2>4, <2>5, <2>6, <2>7, <2>8 DEF OperatorStep
<1>4. CASE ServerStep \/ UNCHANGED vars
  BY <1>2, <1>4, ServerReads DEF Revoked
<1> QED
  BY <1>3, <1>4, NextSplit

\* TokensInv is inductive.
LEMMA TokensHold == Spec => []TokensInv
<1>1. Init => TokensInv
  <2> SUFFICES ASSUME Init PROVE TokensInv
    OBVIOUS
  <2> USE DEF Init
  <2>1. TypeOK
    BY NothingTyped DEF TypeOK, Store
  <2>2. CommandInv /\ RowInv
    BY DEF CommandInv, Informed, RowInv, NoCommand
  <2>3. Revoked(table) = {}
    BY DEF Revoked, NoRow
  <2>4. Stranded = {}
    BY <2>3 DEF Stranded
  <2>5. AccessInv
    BY <2>3, <2>4, FS_EmptySet DEF AccessInv, RotationKeepsAccess
  <2> QED
    BY <2>1, <2>2, <2>5 DEF TokensInv
<1>2. TokensInv /\ [Next]_vars => TokensInv'
  BY TypeStep, CommandStep, RowStep, RotationStep DEF TokensInv
<1> QED
  BY <1>1, <1>2, PTL DEF Spec

----------------------------------------------------------------------------
(* Theorems.                                                               *)

\* Every reachable state of the token store, its commands and the server is well typed.
THEOREM TypeCorrect == Spec => []TypeOK
<1>1. TokensInv => TypeOK
  BY DEF TokensInv
<1> QED
  BY <1>1, TokensHold, PTL

\* "Cannot be undone": no interleaving of commands and requests makes a revoked token
\* valid again, or changes the scopes of a token that exists.
THEOREM RevokedStays == Spec => RevokedIsFinal
<1>1. TokensInv /\ [Next]_vars =>
        [\A t \in Token :
           /\ table[t].status = "revoked" => table'[t].status = "revoked"
           /\ table[t].status # "none" => table'[t].scopes = table[t].scopes]_vars
  BY RowsStep DEF TokensInv, RowsKept
<1> QED
  BY <1>1, TokensHold, PTL DEF Spec, RevokedIsFinal

\* A rotation keeps access: a token revoked without a revoke command asking for it has a
\* successor with its scopes, and the rotations whose successor no operator was shown are
\* at most as many as the commands that died.
THEOREM RotationsKeepAccess == Spec => []RotationKeepsAccess
<1>1. TokensInv => RotationKeepsAccess
  BY DEF TokensInv, AccessInv
<1> QED
  BY <1>1, TokensHold, PTL
============================================================================
