--------------------------- MODULE KeystoreProofs ---------------------------
(***************************************************************************)
(* Theorems about Keystore: for any number of commands, wallets, keys and  *)
(* passphrases, with commands killed anywhere and writes cut short.        *)
(***************************************************************************)
EXTENDS Keystore, FiniteSetTheorems, TLAPS

----------------------------------------------------------------------------
(* The inductive invariant.                                                *)

\* The steps of a command that has the document it will write.
Writing == {"look", "unlink", "create", "write", "check", "discard", "replace"}
\* Those of one that has a temporary file, and of one that has written it.
Holding == {"write", "check", "discard", "replace"}
Written == {"check", "discard", "replace"}
Active(o) == op[o].pc # "idle"

SetupInv == provider \in ByName => names # {}

\* What a command has in hand at each step.
Equipped(c) ==
  /\ c.pc # "idle" => c.cmd # "none" /\ c.name \in Name /\ c.pass \in Passphrase
  /\ c.cmd = "add" => c.key \in Key
  /\ c.cmd = "rename" => c.new \in Name
  /\ c.pc = "init" => c.cmd = "encrypt"
  /\ c.pc = "load" /\ c.cmd = "encrypt" => c.key \in Key
  /\ c.pc \in Writing => c.doc.whole
  /\ c.pc \in Holding <=> c.node # NoFile

CommandInv == \A o \in Operator : Equipped(op[o])

\* One passphrase per document.
Uniform(file) == \A v, w \in file.wallets : v.pass = w.pass

UniformInv ==
  /\ \A i \in Inode : Uniform(content[i])
  /\ \A o \in Operator : Uniform(op[o].doc)

\* The two names are never the same file, and a file that is named and torn is still to be
\* written, or its writer was killed.
NameInv ==
  /\ tmp # NoFile => tmp # path
  /\ \A i \in {path, tmp} \ {NoFile} :
       ~ content[i].whole /\ short = 0 =>
         kills > 0 \/ \E o \in Operator : op[o].pc = "write" /\ op[o].node = i

OneInv ==
  ~ overlap => \A o, p \in Operator : Active(o) /\ Active(p) => o = p

\* A command that runs alone owns the temporary file, and its document is the edit of what
\* the keystore still holds.
Owns(c) ==
  /\ c.pc = "create" => tmp = NoFile
  /\ c.pc \in Holding => c.node = tmp

Edits(c) ==
  /\ c.pc \in Written => content[tmp] = c.doc
  /\ c.pc \in Writing =>
       /\ Pairs(c.doc) = Counted(c)
       /\ path # NoFile =>
            \A v \in content[path].wallets, w \in c.doc.wallets : v.pass = w.pass

SoloInv ==
  /\ ~ overlap => \A o \in Operator : Owns(op[o])
  /\ ~ overlap /\ short = 0 =>
       /\ \A o \in Operator : Edits(op[o])
       /\ path # NoFile => content[path].whole

KeystoreInv ==
  /\ TypeOK /\ SetupInv /\ CommandInv /\ UniformInv /\ NameInv /\ OneInv /\ SoloInv
  /\ SavedKeyIsKept

----------------------------------------------------------------------------
(* The operators.                                                          *)

\* There is an inode to create the temporary file with.
LEMMA FreeInode ==
  ASSUME tmp = NoFile
  PROVE  \E i \in Inode : Unused(i)
<1> DEFINE held == {op[o].node : o \in Operator}
           f == [o \in Operator |-> op[o].node]
<1>1. IsFiniteSet(Operator) /\ IsFiniteSet(Inode) /\ NoFile \notin Inode
  BY KeystoreAssumption
<1>2. f \in Surjection(Operator, held)
  BY DEF Surjection
<1> HIDE DEF held, f
<1>3. IsFiniteSet(held) /\ Cardinality(held) <= Cardinality(Operator)
  BY <1>1, <1>2, FS_Surjection
<1>4. /\ IsFiniteSet(held \cup {path})
      /\ Cardinality(held \cup {path}) = IF path \in held THEN Cardinality(held)
                                         ELSE Cardinality(held) + 1
  BY <1>3, FS_AddElement
<1>5. /\ Cardinality(held) \in Nat /\ Cardinality(Operator) \in Nat
      /\ Cardinality(Inode) \in Nat
  BY <1>1, <1>3, FS_CardinalityType
<1>6. Cardinality(held \cup {path}) <= Cardinality(Operator) + 1
  BY <1>3, <1>4, <1>5
<1>7. ~ (Inode \subseteq held \cup {path})
  <2> SUFFICES ASSUME Inode \in SUBSET (held \cup {path}) PROVE FALSE
    OBVIOUS
  <2>1. Cardinality(Inode) <= Cardinality(held \cup {path})
    BY <1>4, FS_Subset
  <2>2. Cardinality(held \cup {path}) \in Nat
    BY <1>4, FS_CardinalityType
  <2>3. Cardinality(Inode) > Cardinality(Operator) + 1
    BY KeystoreAssumption
  <2> QED
    BY <1>5, <1>6, <2>1, <2>2, <2>3
<1>8. PICK i \in Inode : i \notin held /\ i # path
  BY <1>7
<1>9. Unused(i)
  BY <1>1, <1>8 DEF Unused, held
<1> QED
  BY <1>9

\* What a document holds when every entry is encrypted anew.
LEMMA SealedPairs ==
  ASSUME NEW ws \in SUBSET Wallet, NEW p \in Passphrase
  PROVE  /\ Sealed(ws, p) \in File /\ Sealed(ws, p).whole
         /\ \A w \in Sealed(ws, p).wallets : w.pass = p
         /\ Pairs(Sealed(ws, p)) = {<<w.name, w.key>> : w \in ws}
<1>1. \A w \in ws : /\ [w EXCEPT !.pass = p] \in Wallet
                    /\ [w EXCEPT !.pass = p].pass = p
                    /\ [w EXCEPT !.pass = p].name = w.name
                    /\ [w EXCEPT !.pass = p].key = w.key
  BY DEF Wallet
<1>2. Sealed(ws, p).whole /\ Sealed(ws, p).wallets = {[w EXCEPT !.pass = p] : w \in ws}
  BY DEF Sealed, Doc
<1>3. Sealed(ws, p) \in File
  BY <1>1 DEF Sealed, Doc, File
<1>4. Pairs(Sealed(ws, p)) = {<<w.name, w.key>> : w \in ws}
  <2>1. ASSUME NEW x \in Pairs(Sealed(ws, p)) PROVE x \in {<<w.name, w.key>> : w \in ws}
    <3>1. PICK v \in Sealed(ws, p).wallets : x = <<v.name, v.key>>
      BY <2>1 DEF Pairs
    <3>2. PICK w \in ws : v = [w EXCEPT !.pass = p]
      BY <1>2
    <3> QED
      BY <1>1, <3>1, <3>2
  <2>2. ASSUME NEW w \in ws PROVE <<w.name, w.key>> \in Pairs(Sealed(ws, p))
    <3>1. [w EXCEPT !.pass = p] \in Sealed(ws, p).wallets
      BY <1>2
    <3> QED
      BY <1>1, <3>1 DEF Pairs
  <2> QED
    BY <2>1, <2>2
<1> QED
  BY <1>1, <1>2, <1>3, <1>4

\* The edits of wallets are wallets.
LEMMA EditedWallets ==
  ASSUME NEW c \in Command, NEW ws \in SUBSET Wallet, Edited(c, ws).ok,
         c.cmd # "none", c.name \in Name, c.pass \in Passphrase,
         c.cmd \in {"add", "encrypt"} => c.key \in Key,
         c.cmd = "rename" => c.new \in Name
  PROVE  Edited(c, ws).wallets \in SUBSET Wallet
<1>0. c.cmd \in {"add", "remove", "rename", "encrypt"}
  BY DEF Command
<1>1. CASE c.cmd \in {"add", "encrypt"}
  BY <1>1 DEF Edited, Saves, Refused, Wallet
<1>2. CASE c.cmd = "remove"
  BY <1>2 DEF Edited, Saves, Refused
<1>3. CASE c.cmd = "rename"
  <2>1. \A w \in ws : [w EXCEPT !.name = c.new] \in Wallet
    BY <1>3 DEF Wallet
  <2> QED
    BY <1>3, <2>1 DEF Edited, Saves, Refused
<1> QED
  BY <1>0, <1>1, <1>2, <1>3

\* The edit of a command is, name by name and key by key, what its operator counts on.
LEMMA EditCounted ==
  ASSUME NEW c \in Command, NEW ws \in SUBSET Wallet, Edited(c, ws).ok,
         c.cmd # "none", c.name \in Name, c.pass \in Passphrase,
         c.cmd \in {"add", "encrypt"} => c.key \in Key,
         c.cmd = "rename" => c.new \in Name,
         NEW d, d = Sealed(Edited(c, ws).wallets, c.pass),
         NEW e, e.cmd = c.cmd, e.name = c.name, e.new = c.new, e.key = c.key, e.doc = d,
         saved = {<<w.name, w.key>> : w \in ws}
  PROVE  /\ Edited(c, ws).wallets \in SUBSET Wallet
         /\ Pairs(d) = Counted(e)
<1> DEFINE own == {w \in ws : w.name = c.name}
           new == [name |-> c.name, key |-> c.key, pass |-> c.pass]
<1>0. c.cmd \in {"add", "remove", "rename", "encrypt"}
  BY DEF Command
<1>a. \A W \in SUBSET Wallet : Pairs(Sealed(W, c.pass)) = {<<w.name, w.key>> : w \in W}
  BY SealedPairs
<1>1. CASE c.cmd \in {"add", "encrypt"}
  <2>1. Edited(c, ws).wallets = ws \cup {new}
    BY <1>1 DEF Edited, Saves, Refused
  <2>2. new \in Wallet /\ new.name = c.name /\ new.key = c.key
    BY <1>1 DEF Wallet
  <2>3. Edited(c, ws).wallets \in SUBSET Wallet
    BY <2>1, <2>2
  <2>4. Pairs(d) = {<<w.name, w.key>> : w \in ws \cup {new}} /\ d.wallets # {}
    <3>1. Pairs(d) = {<<w.name, w.key>> : w \in ws \cup {new}}
      BY <1>a, <2>1, <2>3, Zenon
    <3>2. <<c.name, c.key>> \in Pairs(d)
      BY <2>2, <3>1
    <3> QED
      BY <3>1, <3>2 DEF Pairs
  <2>5. {<<w.name, w.key>> : w \in ws \cup {new}} = saved \cup {<<c.name, c.key>>}
    BY <2>2
  <2>6. Counted(e) = saved \cup {<<c.name, c.key>>}
    BY <1>1, <2>4 DEF Counted
  <2> QED
    BY <2>3, <2>4, <2>5, <2>6
<1>2. CASE c.cmd = "remove"
  <2>1. Edited(c, ws).wallets = ws \ own
    BY <1>2 DEF Edited, Saves, Refused
  <2>2. Pairs(d) = {<<w.name, w.key>> : w \in ws \ own}
    <3>1. ws \ own \in SUBSET Wallet
      OBVIOUS
    <3> QED
      BY <1>a, <2>1, <3>1, Zenon
  <2>3. Counted(e) = {s \in saved : s[1] # c.name}
    BY <1>2 DEF Counted
  <2>4. {<<w.name, w.key>> : w \in ws \ own} = {s \in saved : s[1] # c.name}
    OBVIOUS
  <2> QED
    BY <2>1, <2>2, <2>3, <2>4
<1>3. CASE c.cmd = "rename"
  <2> DEFINE renamed == {[w EXCEPT !.name = c.new] : w \in own}
  <2>1. Edited(c, ws).wallets = (ws \ own) \cup renamed
    BY <1>3 DEF Edited, Saves, Refused
  <2>2. \A w \in ws : /\ [w EXCEPT !.name = c.new] \in Wallet
                      /\ [w EXCEPT !.name = c.new].name = c.new
                      /\ [w EXCEPT !.name = c.new].key = w.key
    BY <1>3 DEF Wallet
  <2>3. (ws \ own) \cup renamed \in SUBSET Wallet
    BY <2>2
  <2>4. Pairs(d) = {<<w.name, w.key>> : w \in (ws \ own) \cup renamed}
    BY <1>a, <2>1, <2>3, Zenon
  <2>5. Counted(e) = {IF s[1] = c.name THEN <<c.new, s[2]>> ELSE s : s \in saved}
    BY <1>3 DEF Counted
  <2>6. ASSUME NEW w \in (ws \ own) \cup renamed
        PROVE  <<w.name, w.key>> \in {IF s[1] = c.name THEN <<c.new, s[2]>> ELSE s : s \in saved}
    <3>1. CASE w \in ws \ own
      <4>1. <<w.name, w.key>> \in saved /\ <<w.name, w.key>>[1] # c.name
        BY <3>1
      <4> QED
        BY <4>1
    <3>2. CASE w \in renamed
      <4>1. PICK v \in own : w = [v EXCEPT !.name = c.new]
        BY <3>2
      <4>2. <<v.name, v.key>> \in saved /\ <<v.name, v.key>>[1] = c.name
            /\ <<v.name, v.key>>[2] = v.key /\ w.name = c.new /\ w.key = v.key
        BY <2>2, <4>1
      <4> QED
        BY <4>2
    <3> QED
      BY <3>1, <3>2
  <2>7. ASSUME NEW s \in saved
        PROVE  (IF s[1] = c.name THEN <<c.new, s[2]>> ELSE s)
                 \in {<<w.name, w.key>> : w \in (ws \ own) \cup renamed}
    <3>1. PICK w \in ws : s = <<w.name, w.key>>
      OBVIOUS
    <3>2. CASE s[1] = c.name
      <4>1. w \in own
        BY <3>1, <3>2
      <4>2. [w EXCEPT !.name = c.new] \in renamed
        BY <4>1
      <4>3. <<c.new, s[2]>> = <<[w EXCEPT !.name = c.new].name, [w EXCEPT !.name = c.new].key>>
        BY <2>2, <3>1
      <4> QED
        BY <3>2, <4>2, <4>3
    <3>3. CASE s[1] # c.name
      BY <3>1, <3>3
    <3> QED
      BY <3>2, <3>3
  <2>8. Pairs(d) \subseteq Counted(e)
    BY <2>4, <2>5, <2>6, Zenon
  <2>9. Counted(e) \subseteq Pairs(d)
    BY <2>4, <2>5, <2>7, Zenon
  <2> QED
    BY <2>1, <2>3, <2>8, <2>9
<1> QED
  BY <1>0, <1>1, <1>2, <1>3

----------------------------------------------------------------------------
(* The invariant holds initially and is kept.                              *)

\* No command at all.
LEMMA Nothing ==
  /\ NoCommand \in Command /\ Equipped(NoCommand) /\ Uniform(NoCommand.doc)
  /\ NoCommand.pc = "idle"
<1>1. NoCommand \in Command
  BY DEF NoCommand, Command, Torn, File
<1> QED
  BY <1>1 DEF NoCommand, Equipped, Uniform, Torn, Writing, Holding, Written

LEMMA InitHolds == Init => KeystoreInv
<1> SUFFICES ASSUME Init PROVE KeystoreInv
  OBVIOUS
<1>1. \A o \in Operator : op[o] = NoCommand
  BY DEF Init
<1>2. TypeOK
  <2>1. Torn \in File
    BY DEF Torn, File
  <2>2. content \in [Inode -> File] /\ op \in [Operator -> Command]
    BY <2>1, Nothing DEF Init
  <2> QED
    BY <2>2 DEF Init, TypeOK, Down
<1>3. SetupInv
  BY DEF Init, SetupInv, ByName
<1>4. CommandInv
  BY <1>1, Nothing DEF CommandInv
<1>5. UniformInv
  BY <1>1, Nothing DEF Init, UniformInv, Uniform, Torn
<1>6. NameInv /\ OneInv
  BY <1>1, Nothing DEF Init, NameInv, OneInv, Active
<1>7. SoloInv
  BY <1>1, Nothing DEF Init, SoloInv, Owns, Edits, Writing, Holding, Written
<1>8. SavedKeyIsKept
  BY DEF Init, SavedKeyIsKept
<1> QED
  BY <1>2, <1>3, <1>4, <1>5, <1>6, <1>7, <1>8 DEF KeystoreInv

\* A command that is not running owns and edits nothing, whatever the files are.
LEMMA IdleIsFree ==
  ASSUME NEW c, c.pc = "idle"
  PROVE  Owns(c) /\ Edits(c) /\ Owns(c)' /\ Edits(c)'
BY DEF Owns, Edits, Writing, Holding, Written

\* Beside a command that runs alone no other runs.
LEMMA OthersIdle ==
  ASSUME KeystoreInv, ~ overlap, NEW o \in Operator, Active(o), NEW p \in Operator, p # o
  PROVE  op[p].pc = "idle"
BY DEF KeystoreInv, OneInv, Active

\* A command moves on, and the files stay as they are.
LEMMA CommandStep ==
  ASSUME KeystoreInv, NEW o \in Operator, NEW c \in Command, op' = [op EXCEPT ![o] = c],
         UNCHANGED <<setup, files, saved, short, pool>>, overlap' \in BOOLEAN,
         started' \in Nat, kills' \in Nat, kills' >= kills, overlap => overlap',
         Equipped(c), Uniform(c.doc), op[o].pc = "write" => kills' > 0,
         ~ overlap' /\ c.pc # "idle" => \A p \in Operator \ {o} : ~ Active(p),
         ~ overlap => Owns(c), ~ overlap /\ short = 0 => Edits(c)
  PROVE  KeystoreInv'
<1>0. /\ TypeOK /\ content' = content /\ path' = path /\ tmp' = tmp /\ saved' = saved
      /\ short' = short /\ provider' = provider /\ names' = names /\ pool' = pool
      /\ op'[o] = c /\ \A p \in Operator \ {o} : op'[p] = op[p]
  BY DEF KeystoreInv, TypeOK, files, setup
<1>1. TypeOK'
  BY <1>0 DEF TypeOK
<1>2. SetupInv' /\ SavedKeyIsKept'
  BY <1>0 DEF KeystoreInv, TypeOK, SetupInv, SavedKeyIsKept
<1>3. CommandInv'
  BY <1>0 DEF KeystoreInv, CommandInv, Equipped, Holding
<1>4. UniformInv'
  BY <1>0 DEF KeystoreInv, UniformInv, Uniform
<1>5. NameInv'
  <2>1. ASSUME NEW i \in {path, tmp} \ {NoFile}, ~ content[i].whole, short = 0
        PROVE  kills' > 0 \/ \E p \in Operator : op'[p].pc = "write" /\ op'[p].node = i
    <3>1. kills \in Nat /\ kills' \in Nat /\ kills' >= kills
      BY <1>0 DEF TypeOK
    <3>2. kills > 0 \/ \E p \in Operator : op[p].pc = "write" /\ op[p].node = i
      BY <2>1 DEF KeystoreInv, NameInv
    <3>3. CASE kills > 0
      BY <3>1, <3>3
    <3>4. ASSUME NEW p \in Operator, op[p].pc = "write", op[p].node = i
          PROVE  kills' > 0 \/ \E q \in Operator : op'[q].pc = "write" /\ op'[q].node = i
      BY <1>0, <3>4
    <3> QED
      BY <3>2, <3>3, <3>4
  <2> QED
    BY <1>0, <2>1 DEF KeystoreInv, NameInv
<1>6. OneInv'
  BY <1>0 DEF KeystoreInv, OneInv, Active
<1>7. SoloInv'
  <2>1. Owns(c)' <=> Owns(c)
    BY <1>0 DEF Owns, Holding
  <2>3. ASSUME ~ overlap', NEW p \in Operator PROVE Owns(op[p])'
    <3>1. CASE p = o
      BY <1>0, <2>1, <2>3, <3>1 DEF Owns, Holding
    <3>2. CASE p # o
      BY <1>0, <2>3, <3>2 DEF KeystoreInv, SoloInv, Owns, Holding
    <3> QED
      BY <3>1, <3>2
  <2>4. ASSUME ~ overlap', short = 0, NEW p \in Operator PROVE Edits(op[p])'
    <3>1. CASE p = o
      <4>1. Counted(op[p])' = Counted(c)
        <5>1. saved' = saved /\ op'[p] = c
          BY <1>0, <3>1
        <5> QED
          BY <5>1, Zenon DEF Counted
      <4>2. Edits(c)
        BY <2>4
      <4> QED
        BY <1>0, <3>1, <4>1, <4>2 DEF Edits, Written
    <3>2. CASE p # o
      <4>1. Counted(op[p])' = Counted(op[p])
        <5>1. saved' = saved /\ op'[p] = op[p]
          BY <1>0, <3>2
        <5> QED
          BY <5>1, Zenon DEF Counted
      <4>2. Edits(op[p])
        BY <2>4 DEF KeystoreInv, SoloInv
      <4> QED
        BY <1>0, <3>2, <4>1, <4>2 DEF Edits, Written
    <3> QED
      BY <3>1, <3>2
  <2>5. ~ overlap' /\ short = 0 /\ path # NoFile => content[path].whole
    BY DEF KeystoreInv, SoloInv
  <2> QED
    BY <1>0, <2>3, <2>4, <2>5 DEF SoloInv
<1> QED
  BY <1>1, <1>2, <1>3, <1>4, <1>5, <1>6, <1>7 DEF KeystoreInv

LEMMA Counts ==
  ASSUME KeystoreInv
  PROVE  /\ started \in Nat /\ kills \in Nat /\ short \in Nat /\ overlap \in BOOLEAN
         /\ \A o \in Operator : op[o] \in Command /\ Equipped(op[o]) /\ Uniform(op[o].doc)
BY DEF KeystoreInv, TypeOK, CommandInv, UniformInv

\* A command ends where it leaves no file half written.
LEMMA LeaveStep ==
  ASSUME KeystoreInv, NEW o \in Operator, Leave(o), UNCHANGED <<setup, files, saved, short, pool>>,
         UNCHANGED <<overlap, started>>, kills' \in Nat, kills' >= kills,
         op[o].pc = "write" => kills' > 0
  PROVE  KeystoreInv'
<1>1. op' = [op EXCEPT ![o] = NoCommand]
  BY DEF Leave
<1>2. Owns(NoCommand) /\ Edits(NoCommand)
  BY Nothing, IdleIsFree
<1> QED
  BY <1>1, <1>2, Counts, Nothing, CommandStep

\* A command starts; one that starts beside another makes an overlap.
LEMMA BeginStep ==
  ASSUME KeystoreInv, NEW o \in Operator, NEW c \in Command, Begin(o, c),
         Equipped(c), c.doc = Torn, c.pc \in {"load", "init"}
  PROVE  KeystoreInv'
<1>1. /\ op' = [op EXCEPT ![o] = c] /\ started' \in Nat
      /\ overlap' = (overlap \/ \E p \in Operator \ {o} : op[p].pc # "idle")
      /\ UNCHANGED <<setup, files, saved, short, pool>> /\ kills' = kills /\ op[o].pc = "idle"
  BY Counts DEF Begin
<1>2. Owns(c) /\ Edits(c)
  BY DEF Owns, Edits, Writing, Holding, Written
<1>3. Uniform(c.doc)
  BY DEF Uniform, Torn
<1>4. overlap' \in BOOLEAN /\ (overlap => overlap')
      /\ (~ overlap' => \A p \in Operator \ {o} : ~ Active(p))
  BY <1>1, Zenon DEF Active
<1>5. kills' \in Nat /\ kills' >= kills
  BY <1>1, Counts
<1> QED
  BY <1>1, <1>2, <1>3, <1>4, <1>5, CommandStep

LEMMA StartsStep ==
  ASSUME KeystoreInv, NEW o \in Operator, NEW p \in Passphrase, NEW n \in Name,
         \/ \E k \in Key : AddCmd(o, n, k, p) \/ GenerateCmd(o, n, k, p)
         \/ RemoveCmd(o, n, p)
         \/ \E m \in Name : RenameCmd(o, n, m, p)
         \/ \E k \in Key \cup {Null}, f \in BOOLEAN : EncryptCmd(o, n, k, p, f)
  PROVE  KeystoreInv'
<1> USE DEF NoCommand
<1>1. ASSUME NEW k \in Key, AddCmd(o, n, k, p) \/ GenerateCmd(o, n, k, p) PROVE KeystoreInv'
  <2>1. PICK c : c = [NoCommand EXCEPT !.cmd = "add", !.pc = "load", !.name = n, !.key = k,
                                       !.pass = p]
    OBVIOUS
  <2>2. c \in Command
    BY <2>1 DEF Command, Torn, File
  <2>3. Equipped(c) /\ c.doc = Torn /\ c.pc = "load"
    BY <2>1 DEF Equipped, Writing, Holding, Written
  <2>4. Begin(o, c)
    BY <1>1, <2>1 DEF AddCmd, GenerateCmd
  <2> QED
    BY <2>2, <2>3, <2>4, BeginStep
<1>2. ASSUME RemoveCmd(o, n, p) PROVE KeystoreInv'
  <2>1. PICK c : c = [NoCommand EXCEPT !.cmd = "remove", !.pc = "load", !.name = n, !.pass = p]
    OBVIOUS
  <2>2. c \in Command
    BY <2>1 DEF Command, Torn, File
  <2>3. Equipped(c) /\ c.doc = Torn /\ c.pc = "load"
    BY <2>1 DEF Equipped, Writing, Holding, Written
  <2>4. Begin(o, c)
    BY <1>2, <2>1 DEF RemoveCmd
  <2> QED
    BY <2>2, <2>3, <2>4, BeginStep
<1>3. ASSUME NEW m \in Name, RenameCmd(o, n, m, p) PROVE KeystoreInv'
  <2>1. PICK c : c = [NoCommand EXCEPT !.cmd = "rename", !.pc = "load", !.name = n, !.new = m,
                                       !.pass = p]
    OBVIOUS
  <2>2. c \in Command
    BY <2>1 DEF Command, Torn, File
  <2>3. Equipped(c) /\ c.doc = Torn /\ c.pc = "load"
    BY <2>1 DEF Equipped, Writing, Holding, Written
  <2>4. Begin(o, c)
    BY <1>3, <2>1 DEF RenameCmd
  <2> QED
    BY <2>2, <2>3, <2>4, BeginStep
<1>4. ASSUME NEW k \in Key \cup {Null}, NEW f \in BOOLEAN, EncryptCmd(o, n, k, p, f)
      PROVE  KeystoreInv'
  <2>1. PICK c : c = [NoCommand EXCEPT !.cmd = "encrypt", !.pc = "init", !.name = n, !.key = k,
                                       !.pass = p, !.force = f]
    OBVIOUS
  <2>2. c \in Command
    BY <2>1 DEF Command, Torn, File
  <2>3. Equipped(c) /\ c.doc = Torn /\ c.pc = "init"
    BY <2>1 DEF Equipped, Writing, Holding, Written
  <2>4. Begin(o, c)
    BY <1>4, <2>1 DEF EncryptCmd
  <2> QED
    BY <2>2, <2>3, <2>4, BeginStep
<1> QED
  BY <1>1, <1>2, <1>3, <1>4

\* The command that acts is the only one, unless there is an overlap.
LEMMA ActsAlone ==
  ASSUME KeystoreInv, NEW o \in Operator, Active(o), ~ overlap
  PROVE  \A p \in Operator \ {o} : ~ Active(p)
BY DEF KeystoreInv, OneInv, Active

LEMMA InitKeystoreStep ==
  ASSUME KeystoreInv, NEW o \in Operator, InitKeystore(o)
  PROVE  KeystoreInv'
<1>1. /\ UNCHANGED <<setup, files, saved, short, pool>> /\ UNCHANGED <<overlap, started, kills>>
      /\ op[o].pc = "init" /\ op[o] \in Command /\ Equipped(op[o]) /\ kills \in Nat
      /\ started \in Nat /\ overlap \in BOOLEAN
  BY Counts DEF InitKeystore, counts
<1>c. /\ kills' \in Nat /\ kills' >= kills /\ started' \in Nat /\ overlap' \in BOOLEAN
      /\ (overlap => overlap') /\ (~ overlap' => ~ overlap) /\ op[o].pc # "write"
  BY <1>1
<1>2. CASE Leave(o)
  BY <1>1, <1>2, LeaveStep
<1>3. CASE op' = [op EXCEPT ![o] = [@ EXCEPT !.pc = "look", !.doc = Doc({})]]
  <2>1. PICK c : c = [op[o] EXCEPT !.pc = "look", !.doc = Doc({})]
    OBVIOUS
  <2>2. op' = [op EXCEPT ![o] = c]
    BY <1>3, <2>1
  <2>3. /\ c \in Command /\ c.pc = "look" /\ c.doc = Doc({})
        /\ c.cmd = op[o].cmd /\ c.name = op[o].name /\ c.pass = op[o].pass
        /\ c.key = op[o].key /\ c.new = op[o].new /\ c.node = op[o].node
    BY <1>1, <2>1 DEF Command, Doc, File
  <2>4. c.doc.whole /\ c.doc.wallets = {} /\ c.cmd = "encrypt" /\ Uniform(c.doc)
    BY <1>1, <2>3 DEF Doc, Uniform, Equipped, Holding
  <2>5. Equipped(c)
    BY <1>1, <2>3, <2>4 DEF Equipped, Holding
  <2>6. Owns(c)
    BY <2>3 DEF Owns, Holding
  <2>7. Edits(c)
    <3>1. Counted(c) = {}
      BY <2>4 DEF Counted
    <3>2. Pairs(c.doc) = {}
      BY <2>4 DEF Pairs
    <3> QED
      BY <2>3, <2>4, <3>1, <3>2 DEF Edits, Written
  <2>8. ~ overlap' /\ c.pc # "idle" => \A p \in Operator \ {o} : ~ Active(p)
    BY <1>1, <1>c, ActsAlone DEF Active
  <2> QED
    BY <1>1, <2>2, <2>3, <2>4, <2>5, <2>6, <2>7, <2>8, <1>c, CommandStep
<1> QED
  BY <1>2, <1>3 DEF InitKeystore

LEMMA LoadStep ==
  ASSUME KeystoreInv, NEW o \in Operator, Load(o)
  PROVE  KeystoreInv'
<1>1. /\ UNCHANGED <<setup, files, saved, short, pool>> /\ UNCHANGED <<overlap, started, kills>>
      /\ op[o].pc = "load" /\ op[o] \in Command /\ Equipped(op[o]) /\ kills \in Nat
      /\ started \in Nat /\ overlap \in BOOLEAN
  BY Counts DEF Load, counts
<1>c. /\ kills' \in Nat /\ kills' >= kills /\ started' \in Nat /\ overlap' \in BOOLEAN
      /\ (overlap => overlap') /\ (~ overlap' => ~ overlap) /\ op[o].pc # "write"
  BY <1>1
<1>2. CASE Leave(o)
  BY <1>1, <1>2, LeaveStep
<1>3. CASE ~ Leave(o)
  <2> DEFINE ws == content[path].wallets
             e == Edited(op[o], ws)
  <2>1. /\ path # NoFile /\ Opens(content[path], op[o].pass) /\ e.ok
        /\ op' = [op EXCEPT ![o] = [@ EXCEPT !.pc = "look",
                                             !.doc = Sealed(e.wallets, op[o].pass)]]
    BY <1>3 DEF Load
  <2>2. content[path] \in File /\ ws \in SUBSET Wallet
    BY <2>1 DEF KeystoreInv, TypeOK, File
  <2>3. PICK d : d = Sealed(e.wallets, op[o].pass)
    OBVIOUS
  <2>4. PICK c : c = [op[o] EXCEPT !.pc = "look", !.doc = d]
    OBVIOUS
  <2>5. op' = [op EXCEPT ![o] = c]
    BY <2>1, <2>3, <2>4
  <2>6. e.wallets \in SUBSET Wallet
    BY <1>1, <2>1, <2>2, EditedWallets DEF Equipped, Holding
  <2>7. /\ d \in File /\ d.whole /\ \A w \in d.wallets : w.pass = op[o].pass
    BY <1>1, <2>3, <2>6, SealedPairs DEF Equipped, Holding
  <2>8. /\ c \in Command /\ c.pc = "look" /\ c.doc = d
        /\ c.cmd = op[o].cmd /\ c.name = op[o].name /\ c.pass = op[o].pass
        /\ c.key = op[o].key /\ c.new = op[o].new /\ c.node = op[o].node
    BY <1>1, <2>4, <2>7 DEF Command
  <2>9. Equipped(c) /\ Uniform(c.doc) /\ Owns(c)
    BY <1>1, <2>7, <2>8 DEF Equipped, Uniform, Owns, Holding
  <2>10. ASSUME ~ overlap, short = 0 PROVE Edits(c)
    <3>1. saved = {<<w.name, w.key>> : w \in ws}
      BY <2>1, <2>10 DEF KeystoreInv, SavedKeyIsKept, Pairs
    <3>2. Pairs(d) = Counted(c)
      BY <1>1, <2>1, <2>2, <2>3, <2>8, <3>1, EditCounted DEF Equipped, Holding
    <3>3. \A v \in content[path].wallets, w \in d.wallets : v.pass = w.pass
      BY <2>1, <2>7 DEF Opens
    <3> QED
      BY <2>8, <3>2, <3>3 DEF Edits, Written
  <2>11. ~ overlap' /\ c.pc # "idle" => \A p \in Operator \ {o} : ~ Active(p)
    BY <1>1, <1>c, ActsAlone DEF Active
  <2> QED
    BY <1>1, <2>5, <2>8, <2>9, <2>10, <2>11, <1>c, CommandStep
<1> QED
  BY <1>2, <1>3

LEMMA LookStep ==
  ASSUME KeystoreInv, NEW o \in Operator, LookForTmp(o)
  PROVE  KeystoreInv'
<1>1. /\ UNCHANGED <<setup, files, saved, short, pool>> /\ UNCHANGED <<overlap, started, kills>>
      /\ op[o].pc = "look" /\ op[o] \in Command /\ Equipped(op[o]) /\ kills \in Nat
      /\ started \in Nat /\ overlap \in BOOLEAN /\ Uniform(op[o].doc)
  BY Counts DEF LookForTmp, counts
<1>c. /\ kills' \in Nat /\ kills' >= kills /\ started' \in Nat /\ overlap' \in BOOLEAN
      /\ (overlap => overlap') /\ (~ overlap' => ~ overlap) /\ op[o].pc # "write"
  BY <1>1
<1>2. PICK c : c = [op[o] EXCEPT !.pc = IF tmp = NoFile THEN "create" ELSE "unlink"]
  OBVIOUS
<1>3. op' = [op EXCEPT ![o] = c]
  BY <1>2 DEF LookForTmp
<1>4. /\ c \in Command /\ c.pc \in {"create", "unlink"} /\ c.doc = op[o].doc
      /\ c.cmd = op[o].cmd /\ c.name = op[o].name /\ c.pass = op[o].pass
      /\ c.key = op[o].key /\ c.new = op[o].new /\ c.node = op[o].node
      /\ c.pc = "create" => tmp = NoFile
  BY <1>1, <1>2 DEF Command
<1>5. Equipped(c) /\ Uniform(c.doc) /\ Owns(c)
  BY <1>1, <1>4 DEF Equipped, Owns, Writing, Holding, Written
<1>6. ASSUME ~ overlap, short = 0 PROVE Edits(c)
  <2>1. Edits(op[o])
    BY <1>6 DEF KeystoreInv, SoloInv
  <2>2. Counted(c) = Counted(op[o])
    BY <1>4, Zenon DEF Counted
  <2> QED
    BY <1>1, <1>4, <2>1, <2>2 DEF Edits, Writing, Holding, Written
<1>7. ~ overlap' /\ c.pc # "idle" => \A p \in Operator \ {o} : ~ Active(p)
  BY <1>1, <1>c, ActsAlone DEF Active
<1> QED
  BY <1>1, <1>3, <1>4, <1>5, <1>6, <1>7, <1>c, CommandStep

LEMMA CheckPathStep ==
  ASSUME KeystoreInv, NEW o \in Operator, CheckPath(o)
  PROVE  KeystoreInv'
<1>1. /\ UNCHANGED <<setup, files, saved, short, pool>> /\ UNCHANGED <<overlap, started, kills>>
      /\ op[o].pc = "check" /\ op[o] \in Command /\ Equipped(op[o]) /\ kills \in Nat
      /\ started \in Nat /\ overlap \in BOOLEAN /\ Uniform(op[o].doc)
  BY Counts DEF CheckPath, counts
<1>c. /\ kills' \in Nat /\ kills' >= kills /\ started' \in Nat /\ overlap' \in BOOLEAN
      /\ (overlap => overlap') /\ (~ overlap' => ~ overlap) /\ op[o].pc # "write"
  BY <1>1
<1>2. PICK q \in {"discard", "replace"} : op' = [op EXCEPT ![o].pc = q]
  BY DEF CheckPath
<1>3. PICK c : c = [op[o] EXCEPT !.pc = q]
  OBVIOUS
<1>4. op' = [op EXCEPT ![o] = c]
  BY <1>2, <1>3
<1>5. /\ c \in Command /\ c.pc \in {"discard", "replace"} /\ c.doc = op[o].doc
      /\ c.cmd = op[o].cmd /\ c.name = op[o].name /\ c.pass = op[o].pass
      /\ c.key = op[o].key /\ c.new = op[o].new /\ c.node = op[o].node
  BY <1>1, <1>3 DEF Command
<1>6. Equipped(c) /\ Uniform(c.doc)
  BY <1>1, <1>5 DEF Equipped, Writing, Holding
<1>7. ~ overlap => Owns(c)
  <2>1. ~ overlap => Owns(op[o])
    BY DEF KeystoreInv, SoloInv
  <2> QED
    BY <1>1, <1>5, <2>1 DEF Owns, Holding
<1>8. ASSUME ~ overlap, short = 0 PROVE Edits(c)
  <2>1. Edits(op[o])
    BY <1>8 DEF KeystoreInv, SoloInv
  <2>2. Counted(c) = Counted(op[o])
    BY <1>5, Zenon DEF Counted
  <2> QED
    BY <1>1, <1>5, <2>1, <2>2 DEF Edits, Writing, Written
<1>9. ~ overlap' /\ c.pc # "idle" => \A p \in Operator \ {o} : ~ Active(p)
  BY <1>1, <1>c, ActsAlone DEF Active
<1> QED
  BY <1>1, <1>4, <1>5, <1>6, <1>7, <1>8, <1>9, <1>c, CommandStep

LEMMA KillStep ==
  ASSUME KeystoreInv, NEW o \in Operator, Kill(o)
  PROVE  KeystoreInv'
<1>1. /\ UNCHANGED <<setup, files, saved, short, pool>> /\ UNCHANGED <<overlap, started>>
      /\ kills' \in Nat /\ kills' >= kills /\ kills' > 0 /\ Leave(o)
  BY Counts DEF Kill
<1> QED
  BY <1>1, LeaveStep

\* A running command moves on and changes the files.
LEMMA FileStep ==
  ASSUME KeystoreInv, NEW o \in Operator, Active(o), NEW c \in Command,
         op' = [op EXCEPT ![o] = c], UNCHANGED <<setup, pool, overlap, started, kills>>,
         content' \in [Inode -> File], path' \in Inode \cup {NoFile},
         tmp' \in Inode \cup {NoFile}, short' \in Nat,
         Equipped(c), Uniform(c.doc), \A i \in Inode : Uniform(content'[i]),
         NameInv', SavedKeyIsKept',
         ~ overlap => Owns(c)',
         ~ overlap /\ short' = 0 => Edits(c)' /\ (path' # NoFile => content'[path'].whole)
  PROVE  KeystoreInv'
<1>0. /\ TypeOK /\ op'[o] = c /\ \A p \in Operator \ {o} : op'[p] = op[p]
      /\ provider' = provider /\ names' = names /\ pool' = pool /\ overlap' = overlap
      /\ started' = started /\ kills' = kills
  BY DEF KeystoreInv, TypeOK, setup
<1>1. TypeOK'
  BY <1>0 DEF TypeOK
<1>2. SetupInv'
  BY <1>0 DEF KeystoreInv, SetupInv
<1>3. CommandInv'
  BY <1>0 DEF KeystoreInv, CommandInv, Equipped, Holding
<1>4. UniformInv'
  BY <1>0 DEF KeystoreInv, UniformInv, Uniform
<1>5. ~ overlap' => \A p \in Operator \ {o} : op'[p].pc = "idle"
  BY <1>0, OthersIdle
<1>6. OneInv'
  BY <1>5 DEF OneInv, Active
<1>7. SoloInv'
  <2>1. ASSUME ~ overlap', NEW p \in Operator PROVE Owns(op[p])'
    <3>1. CASE p = o
      BY <1>0, <2>1, <3>1 DEF Owns, Holding
    <3>2. CASE p # o
      BY <1>5, <2>1, <3>2 DEF Owns, Holding
    <3> QED
      BY <3>1, <3>2
  <2>2. ASSUME ~ overlap', short' = 0, NEW p \in Operator PROVE Edits(op[p])'
    <3>1. CASE p = o
      <4>1. op'[p] = c
        BY <1>0, <3>1
      <4>2. Counted(op[p])' = Counted(c)'
        BY <4>1, Zenon DEF Counted
      <4>3. Edits(c)'
        BY <1>0, <2>2
      <4> QED
        BY <4>1, <4>2, <4>3 DEF Edits, Written
    <3>2. CASE p # o
      BY <1>5, <2>2, <3>2 DEF Edits, Writing, Holding, Written
    <3> QED
      BY <3>1, <3>2
  <2> QED
    BY <1>0, <2>1, <2>2 DEF SoloInv
<1> QED
  BY <1>1, <1>2, <1>3, <1>4, <1>6, <1>7 DEF KeystoreInv

\* What a step of a running command starts from.
LEMMA Before ==
  ASSUME KeystoreInv, NEW o \in Operator
  PROVE  /\ content \in [Inode -> File] /\ path \in Inode \cup {NoFile}
         /\ tmp \in Inode \cup {NoFile} /\ short \in Nat /\ kills \in Nat
         /\ op[o] \in Command /\ Equipped(op[o]) /\ Uniform(op[o].doc)
         /\ op \in [Operator -> Command]
         /\ \A i \in Inode : Uniform(content[i])
         /\ ~ overlap => Owns(op[o])
         /\ ~ overlap /\ short = 0 => Edits(op[o]) /\ (path # NoFile => content[path].whole)
BY DEF KeystoreInv, TypeOK, CommandInv, UniformInv, SoloInv

\* The same document and the same wallets counted on.
LEMMA SameCounted ==
  ASSUME NEW c, NEW d, c.doc = d.doc, c.cmd = d.cmd, c.name = d.name, c.new = d.new,
         c.key = d.key, saved' = saved
  PROVE  Counted(c)' = Counted(d)
BY Zenon DEF Counted

LEMMA UnlinkStep ==
  ASSUME KeystoreInv, NEW o \in Operator, UnlinkTmp(o)
  PROVE  KeystoreInv'
<1>1. /\ op[o].pc = "unlink" /\ tmp' = NoFile /\ UNCHANGED <<setup, pool, overlap, started, kills>>
      /\ content' = content /\ path' = path /\ saved' = saved /\ short' = short
  BY DEF UnlinkTmp, counts
<1>2. PICK c \in Command :
        /\ op' = [op EXCEPT ![o] = c] /\ Equipped(c) /\ Uniform(c.doc)
        /\ c.pc # "idle" => /\ c.pc = "create" /\ c.doc = op[o].doc /\ c.cmd = op[o].cmd
                            /\ c.name = op[o].name /\ c.new = op[o].new /\ c.key = op[o].key
  <2>1. CASE tmp = NoFile
    <3>1. op' = [op EXCEPT ![o] = NoCommand]
      BY <2>1 DEF UnlinkTmp, Leave
    <3> QED
      BY <3>1, Nothing
  <2>2. CASE tmp # NoFile
    <3>1. PICK c : c = [op[o] EXCEPT !.pc = "create"]
      OBVIOUS
    <3>2. op' = [op EXCEPT ![o] = c]
      BY <2>2, <3>1 DEF UnlinkTmp
    <3>3. /\ c \in Command /\ c.pc = "create" /\ c.doc = op[o].doc /\ c.cmd = op[o].cmd
          /\ c.name = op[o].name /\ c.new = op[o].new /\ c.key = op[o].key
          /\ c.pass = op[o].pass /\ c.node = op[o].node
      BY <3>1, Before DEF Command
    <3>4. Equipped(c) /\ Uniform(c.doc)
      BY <1>1, <3>3, Before DEF Equipped, Writing, Holding, Written
    <3> QED
      BY <3>2, <3>3, <3>4
  <2> QED
    BY <2>1, <2>2
<1>3. Owns(c)'
  <2>1. c.pc \in {"idle", "create"}
    BY <1>2
  <2> QED
    BY <1>1, <2>1 DEF Owns, Holding
<1>4. ASSUME ~ overlap, short = 0 PROVE Edits(c)'
  <2>1. CASE c.pc = "idle"
    BY <2>1, IdleIsFree
  <2>2. CASE c.pc # "idle"
    <3>1. Edits(op[o])
      BY <1>4, Before
    <3>2. Counted(c)' = Counted(op[o])
      BY <1>1, <1>2, <2>2, SameCounted
    <3>3. Pairs(c.doc) = Pairs(op[o].doc) /\ c.pc = "create" /\ c.doc = op[o].doc
      BY <1>2, <2>2
    <3> QED
      BY <1>1, <3>1, <3>2, <3>3 DEF Edits, Writing, Holding, Written
  <2> QED
    BY <2>1, <2>2
<1>5. NameInv'
  <2>1. ASSUME NEW i \in {path} \ {NoFile}, ~ content[i].whole, short = 0
        PROVE  kills > 0 \/ \E p \in Operator : op'[p].pc = "write" /\ op'[p].node = i
    <3>1. kills > 0 \/ \E p \in Operator : op[p].pc = "write" /\ op[p].node = i
      BY <2>1 DEF KeystoreInv, NameInv
    <3> QED
      BY <1>1, <1>2, <3>1, Before
  <2> QED
    BY <1>1, <2>1 DEF NameInv
<1>6. SavedKeyIsKept'
  BY <1>1 DEF KeystoreInv, SavedKeyIsKept
<1>7. Active(o)
  BY <1>1 DEF Active
<1>8. ~ overlap /\ short' = 0 => Edits(c)' /\ (path' # NoFile => content'[path'].whole)
  BY <1>1, <1>4, Before
<1> QED
  BY <1>1, <1>2, <1>3, <1>5, <1>6, <1>7, <1>8, Before, FileStep

LEMMA CreateStep ==
  ASSUME KeystoreInv, NEW o \in Operator, CreateTmp(o)
  PROVE  KeystoreInv'
<1>1. /\ op[o].pc = "create" /\ UNCHANGED <<setup, pool, overlap, started, kills>>
      /\ path' = path /\ saved' = saved /\ short' = short
  BY DEF CreateTmp, counts
<1>2. CASE tmp # NoFile
  <2>1. Leave(o) /\ content' = content /\ tmp' = tmp
    BY <1>2 DEF CreateTmp
  <2>2. UNCHANGED <<setup, files, saved, short, pool>> /\ kills' \in Nat /\ kills' >= kills
        /\ UNCHANGED <<overlap, started>>
    BY <1>1, <2>1, Counts DEF files
  <2> QED
    BY <1>1, <2>1, <2>2, LeaveStep
<1>3. CASE tmp = NoFile
  <2>1. PICK i \in Inode : /\ Unused(i) /\ tmp' = i /\ content' = [content EXCEPT ![i] = Torn]
                           /\ op' = [op EXCEPT ![o] = [@ EXCEPT !.pc = "write", !.node = i]]
    <3>1. Unused(CHOOSE i \in Inode : Unused(i)) /\ (CHOOSE i \in Inode : Unused(i)) \in Inode
      BY <1>3, FreeInode
    <3> QED
      BY <1>3, <3>1 DEF CreateTmp
  <2>2. PICK c : c = [op[o] EXCEPT !.pc = "write", !.node = i]
    OBVIOUS
  <2>3. op' = [op EXCEPT ![o] = c]
    BY <2>1, <2>2
  <2>4. /\ c \in Command /\ c.pc = "write" /\ c.doc = op[o].doc /\ c.cmd = op[o].cmd
        /\ c.name = op[o].name /\ c.new = op[o].new /\ c.key = op[o].key
        /\ c.pass = op[o].pass /\ c.node = i
    BY <2>2, Before DEF Command
  <2>5. i # NoFile /\ i # path
    BY <2>1, KeystoreAssumption DEF Unused
  <2>6. Equipped(c) /\ Uniform(c.doc)
    BY <1>1, <2>4, <2>5, Before DEF Equipped, Writing, Holding, Written
  <2>7. /\ content' \in [Inode -> File] /\ \A j \in Inode : Uniform(content'[j])
        /\ path # NoFile => content'[path] = content[path]
    <3>1. Torn \in File /\ Uniform(Torn)
      BY DEF Torn, File, Uniform
    <3> QED
      BY <2>1, <2>5, <3>1, Before
  <2>8. Owns(c)'
    BY <2>1, <2>4 DEF Owns, Holding
  <2>9. ASSUME ~ overlap, short = 0 PROVE Edits(c)'
    <3>1. Edits(op[o])
      BY <2>9, Before
    <3>2. Counted(c)' = Counted(op[o])
      BY <1>1, <2>4, SameCounted
    <3>3. Pairs(c.doc) = Pairs(op[o].doc)
      BY <2>4
    <3> QED
      BY <1>1, <2>4, <2>7, <3>1, <3>2, <3>3 DEF Edits, Writing, Holding, Written
  <2>10. NameInv'
    <3>1. ASSUME NEW j \in {path, i} \ {NoFile}, ~ content'[j].whole, short = 0
          PROVE  kills > 0 \/ \E p \in Operator : op'[p].pc = "write" /\ op'[p].node = j
      <4>1. CASE j = i
        BY <2>3, <2>4, <4>1, Before
      <4>2. CASE j = path
        <5>1. kills > 0 \/ \E p \in Operator : op[p].pc = "write" /\ op[p].node = j
          BY <2>7, <3>1, <4>2 DEF KeystoreInv, NameInv
        <5> QED
          BY <1>1, <2>3, <5>1, Before
      <4> QED
        BY <4>1, <4>2
    <3> QED
      BY <1>1, <2>1, <2>5, <3>1 DEF NameInv
  <2>11. SavedKeyIsKept'
    BY <1>1, <2>7 DEF KeystoreInv, SavedKeyIsKept, Pairs
  <2>12. Active(o)
    BY <1>1 DEF Active
  <2>13. ~ overlap /\ short' = 0 => Edits(c)' /\ (path' # NoFile => content'[path'].whole)
    BY <1>1, <2>7, <2>9, Before
  <2> QED
    BY <1>1, <2>1, <2>3, <2>4, <2>6, <2>7, <2>8, <2>10, <2>11, <2>12, <2>13, Before, FileStep
<1> QED
  BY <1>2, <1>3

LEMMA WriteStep ==
  ASSUME KeystoreInv, NEW o \in Operator, WriteTmp(o)
  PROVE  KeystoreInv'
<1>1. /\ op[o].pc = "write" /\ UNCHANGED <<setup, pool, overlap, started, kills>>
      /\ path' = path /\ tmp' = tmp /\ saved' = saved
      /\ op' = [op EXCEPT ![o].pc = "check"]
  BY DEF WriteTmp
<1>2. PICK c : c = [op[o] EXCEPT !.pc = "check"]
  OBVIOUS
<1>3. op' = [op EXCEPT ![o] = c]
  BY <1>1, <1>2
<1>4. /\ c \in Command /\ c.pc = "check" /\ c.doc = op[o].doc /\ c.cmd = op[o].cmd
      /\ c.name = op[o].name /\ c.new = op[o].new /\ c.key = op[o].key
      /\ c.pass = op[o].pass /\ c.node = op[o].node
  BY <1>2, Before DEF Command
<1>5. PICK n \in Inode : n = op[o].node /\ n # NoFile /\ op[o].doc \in File /\ op[o].doc.whole
  <2>1. op[o].node # NoFile /\ op[o].node \in Inode \cup {NoFile} /\ op[o].doc \in File
    BY <1>1, Before DEF Equipped, Command, Holding
  <2> QED
    BY <1>1, <2>1, Before DEF Equipped, Writing, Holding, Written
<1>6. Equipped(c) /\ Uniform(c.doc)
  BY <1>1, <1>4, Before DEF Equipped, Writing, Holding, Written
<1>7. /\ short' \in Nat /\ content' \in [Inode -> File]
      /\ \A i \in Inode : Uniform(content'[i])
      /\ \A i \in Inode \ {n} : content'[i] = content[i]
      /\ short' = 0 => short = 0 /\ content'[n] = op[o].doc
  <2>1. CASE content' = [content EXCEPT ![op[o].node] = op[o].doc] /\ UNCHANGED short
    BY <1>5, <2>1, Before
  <2>2. CASE short' = short + 1 /\ UNCHANGED content
    BY <2>2, Before
  <2> QED
    BY <2>1, <2>2 DEF WriteTmp
<1>8. ~ overlap => n = tmp /\ n # path
  <2>1. ~ overlap => n = tmp
    BY <1>1, <1>5, Before DEF Owns, Holding
  <2> QED
    BY <1>5, <2>1 DEF KeystoreInv, NameInv
<1>9. ~ overlap => Owns(c)'
  BY <1>1, <1>4, <1>5, <1>8 DEF Owns, Holding
<1>10. ASSUME ~ overlap, short' = 0 PROVE Edits(c)' /\ (path' # NoFile => content'[path'].whole)
  <2>1. Edits(op[o]) /\ short = 0 /\ (path # NoFile => content[path].whole)
    BY <1>7, <1>10, Before
  <2>2. Counted(c)' = Counted(op[o])
    BY <1>1, <1>4, SameCounted
  <2>3. Pairs(c.doc) = Pairs(op[o].doc)
    BY <1>4
  <2>4. content'[tmp] = c.doc /\ (path # NoFile => content'[path] = content[path])
    BY <1>4, <1>7, <1>8, <1>10, Before
  <2> QED
    BY <1>1, <1>4, <2>1, <2>2, <2>3, <2>4 DEF Edits, Writing, Holding, Written
<1>11. NameInv'
  <2>1. ASSUME NEW j \in {path, tmp} \ {NoFile}, ~ content'[j].whole, short' = 0
        PROVE  kills > 0 \/ \E p \in Operator : op'[p].pc = "write" /\ op'[p].node = j
    <3>1. j # n /\ content'[j] = content[j] /\ short = 0
      BY <1>5, <1>7, <2>1, Before
    <3>2. kills > 0 \/ \E p \in Operator : op[p].pc = "write" /\ op[p].node = j
      BY <2>1, <3>1 DEF KeystoreInv, NameInv
    <3> QED
      BY <1>3, <1>5, <3>1, <3>2, Before
  <2> QED
    BY <1>1, <2>1 DEF KeystoreInv, NameInv
<1>12. SavedKeyIsKept'
  <2>1. ASSUME ~ overlap, short' = 0, path # NoFile PROVE content'[path] = content[path]
    BY <1>7, <1>8, <2>1, Before
  <2> QED
    BY <1>1, <1>7, <2>1 DEF KeystoreInv, SavedKeyIsKept, Pairs
<1>13. Active(o)
  BY <1>1 DEF Active
<1> QED
  BY <1>1, <1>3, <1>4, <1>6, <1>7, <1>9, <1>10, <1>11, <1>12, <1>13, Before, FileStep

LEMMA ReplaceStep ==
  ASSUME KeystoreInv, NEW o \in Operator, Replace(o) \/ DiscardTmp(o)
  PROVE  KeystoreInv'
<1>1. /\ op[o].pc \in {"replace", "discard"}
      /\ UNCHANGED <<setup, pool, overlap, started, kills>>
      /\ tmp' = NoFile /\ content' = content /\ short' = short
  BY DEF Replace, DiscardTmp, counts
<1>2. PICK c \in Command : /\ op' = [op EXCEPT ![o] = c] /\ Equipped(c) /\ Uniform(c.doc)
                           /\ c.pc \in {"idle", "load"}
  <2>1. CASE Leave(o)
    BY <2>1, Nothing DEF Leave
  <2>2. CASE /\ op[o].cmd = "encrypt" /\ op[o].key # Null
             /\ op' = [op EXCEPT ![o] = [@ EXCEPT !.pc = "load", !.node = NoFile]]
    <3>1. PICK c : c = [op[o] EXCEPT !.pc = "load", !.node = NoFile]
      OBVIOUS
    <3>2. op' = [op EXCEPT ![o] = c]
      BY <2>2, <3>1
    <3>3. /\ c \in Command /\ c.pc = "load" /\ c.doc = op[o].doc /\ c.cmd = op[o].cmd
          /\ c.name = op[o].name /\ c.new = op[o].new /\ c.key = op[o].key
          /\ c.pass = op[o].pass /\ c.node = NoFile
      BY <3>1, Before DEF Command
    <3>4. op[o].key \in Key
      BY <2>2, Before DEF Command
    <3>5. Equipped(c) /\ Uniform(c.doc)
      BY <1>1, <2>2, <3>3, <3>4, Before DEF Equipped, Writing, Holding, Written
    <3> QED
      BY <3>2, <3>3, <3>5
  <2> QED
    BY <2>1, <2>2 DEF Replace, DiscardTmp
<1>3. Owns(c)' /\ Edits(c)'
  BY <1>2 DEF Owns, Edits, Writing, Holding, Written
<1>4. Active(o)
  BY <1>1 DEF Active
<1>5. \/ path' = path /\ saved' = saved
      \/ path' = tmp /\ tmp # NoFile /\ saved' = Counted(op[o])
  BY DEF Replace, DiscardTmp
<1>6. path' \in Inode \cup {NoFile}
  BY <1>5, Before
<1>7. ASSUME path' = tmp, tmp # NoFile, ~ overlap, short = 0 PROVE content[tmp] = op[o].doc
  BY <1>1, <1>7, Before DEF Edits, Written
<1>8. ASSUME path' # NoFile, ~ overlap, short = 0 PROVE content[path'].whole
  <2>1. op[o].doc.whole
    BY <1>1, Before DEF Equipped, Writing, Holding, Written
  <2> QED
    BY <1>5, <1>7, <1>8, <2>1, Before
<1>9. NameInv'
  <2>1. ASSUME NEW j \in {path', NoFile} \ {NoFile}, ~ content[j].whole, short = 0
        PROVE  kills > 0 \/ \E p \in Operator : op'[p].pc = "write" /\ op'[p].node = j
    <3>1. kills > 0 \/ \E p \in Operator : op[p].pc = "write" /\ op[p].node = j
      BY <1>5, <2>1 DEF KeystoreInv, NameInv
    <3> QED
      BY <1>1, <1>2, <3>1, Before
  <2> QED
    BY <1>1, <2>1 DEF NameInv
<1>10. SavedKeyIsKept'
  <2>1. CASE path' = path /\ saved' = saved
    BY <1>1, <2>1 DEF KeystoreInv, SavedKeyIsKept
  <2>2. CASE path' = tmp /\ tmp # NoFile /\ saved' = Counted(op[o])
    <3>1. ASSUME ~ overlap, short = 0 PROVE Pairs(content[tmp]) = saved'
      <4>1. content[tmp] = op[o].doc
        BY <1>7, <2>2, <3>1
      <4>2. Pairs(op[o].doc) = Counted(op[o])
        BY <1>1, <3>1, Before DEF Edits, Writing, Holding, Written
      <4> QED
        BY <2>2, <4>1, <4>2
    <3>2. Pairs(content[path])' = Pairs(content[tmp])
      BY <1>1, <2>2 DEF Pairs
    <3> QED
      BY <1>1, <2>2, <3>1, <3>2 DEF SavedKeyIsKept
  <2> QED
    BY <1>5, <2>1, <2>2
<1>11. ~ overlap /\ short' = 0 => Edits(c)' /\ (path' # NoFile => content'[path'].whole)
  BY <1>1, <1>3, <1>8
<1> QED
  BY <1>1, <1>2, <1>3, <1>4, <1>6, <1>9, <1>10, <1>11, Before, FileStep

LEMMA ServerStep ==
  ASSUME KeystoreInv, \/ \E p \in Passphrase : Start(p)
                      \/ Stop
                      \/ UNCHANGED vars
  PROVE  KeystoreInv'
<1>1. /\ UNCHANGED <<provider, names, content, path, tmp, op, saved, overlap, started, kills, short>>
      /\ pool'.up \in BOOLEAN
  <2>1. /\ Down.up \in BOOLEAN /\ Fetched.up \in BOOLEAN
        /\ \A p \in Passphrase : Unlocked(p).up \in BOOLEAN
    BY DEF Fetched, Unlocked, Down, Serving
  <2>2. pool'.up \in BOOLEAN
    BY <2>1 DEF KeystoreInv, TypeOK, Start, Stop, vars
  <2> QED
    BY <2>2 DEF Start, Stop, vars, setup, files, counts
<1>2. TypeOK' /\ SetupInv'
  BY <1>1 DEF KeystoreInv, TypeOK, SetupInv
<1>3. CommandInv' /\ UniformInv' /\ NameInv' /\ OneInv' /\ SavedKeyIsKept'
  BY <1>1 DEF KeystoreInv, CommandInv, Equipped, UniformInv, Uniform, NameInv, OneInv, Active, Holding,
              SavedKeyIsKept
<1>4. SoloInv'
  <2>1. ASSUME NEW o \in Operator PROVE Counted(op[o])' = Counted(op[o])
    BY <1>1, Zenon DEF Counted
  <2> QED
    BY <1>1, <2>1 DEF KeystoreInv, SoloInv, Owns, Edits, Holding, Written
<1> QED
  BY <1>2, <1>3, <1>4 DEF KeystoreInv

LEMMA NextStep == KeystoreInv /\ [Next]_vars => KeystoreInv'
<1> SUFFICES ASSUME KeystoreInv, [Next]_vars PROVE KeystoreInv'
  OBVIOUS
<1>1. ASSUME NEW o \in Operator,
             \E p \in Passphrase, n \in Name :
                \/ \E k \in Key : AddCmd(o, n, k, p) \/ GenerateCmd(o, n, k, p)
                \/ RemoveCmd(o, n, p)
                \/ \E m \in Name : RenameCmd(o, n, m, p)
                \/ \E k \in Key \cup {Null}, f \in BOOLEAN : EncryptCmd(o, n, k, p, f)
      PROVE  KeystoreInv'
  BY <1>1, StartsStep
<1>2. ASSUME NEW o \in Operator,
             \/ InitKeystore(o) \/ Load(o) \/ LookForTmp(o) \/ UnlinkTmp(o) \/ CreateTmp(o)
             \/ WriteTmp(o) \/ CheckPath(o) \/ DiscardTmp(o) \/ Replace(o) \/ Kill(o)
      PROVE  KeystoreInv'
  BY <1>2, InitKeystoreStep, LoadStep, LookStep, UnlinkStep, CreateStep, WriteStep, CheckPathStep,
     ReplaceStep, KillStep
<1>3. CASE (\E p \in Passphrase : Start(p)) \/ Stop \/ UNCHANGED vars
  BY <1>3, ServerStep
<1> QED
  BY <1>1, <1>2, <1>3, Zenon DEF Next

LEMMA Invariance == Spec => []KeystoreInv
BY InitHolds, NextStep, PTL DEF Spec

----------------------------------------------------------------------------
(* The theorems.                                                           *)

\* The keystore file is torn only by a write cut short or by commands that overlap, however
\* many are killed and whatever they leave behind (_atomic_write of keystore.py).
THEOREM TornByRace == Spec => []TornOnlyByRace
<1>1. KeystoreInv => TornOnlyByRace
  <2> SUFFICES ASSUME KeystoreInv, path # NoFile, ~ content[path].whole, ~ (short > 0)
               PROVE  overlap /\ (kills > 0 \/ \E o \in Operator :
                                                 op[o].pc = "write" /\ op[o].node = path)
    BY DEF TornOnlyByRace
  <2>1. short = 0
    BY DEF KeystoreInv, TypeOK
  <2>2. overlap
    BY <2>1 DEF KeystoreInv, SoloInv
  <2> QED
    BY <2>1, <2>2 DEF KeystoreInv, NameInv
<1> QED
  BY <1>1, Invariance, PTL

\* While commands follow one another the file holds exactly the wallets put in place and
\* not taken out, for every sequence of add, generate, remove, rename and encrypt and with
\* any of them refused or killed (add_wallet, remove_wallet, rename_wallet, init_keystore).
THEOREM SavedKept == Spec => []SavedKeyIsKept
<1>1. KeystoreInv => SavedKeyIsKept
  BY DEF KeystoreInv
<1> QED
  BY <1>1, Invariance, PTL

\* A step leaves the keystore file alone, or is the rename of a command's own file.
LEMMA SameOrReplaced ==
  ASSUME KeystoreInv, [Next]_vars, path # NoFile, ~ overlap, short = 0
  PROVE  \/ path' = path /\ content'[path] = content[path]
         \/ \E o \in Operator : Replace(o) /\ path' = tmp /\ tmp # NoFile
<1>1. ASSUME NEW o \in Operator, CreateTmp(o) PROVE path' = path /\ content'[path] = content[path]
  <2>1. CASE tmp # NoFile
    BY <1>1, <2>1 DEF CreateTmp
  <2>2. CASE tmp = NoFile
    <3>1. PICK i \in Inode : Unused(i) /\ content' = [content EXCEPT ![i] = Torn]
      <4>1. Unused(CHOOSE i \in Inode : Unused(i)) /\ (CHOOSE i \in Inode : Unused(i)) \in Inode
        BY <2>2, FreeInode
      <4> QED
        BY <1>1, <2>2, <4>1 DEF CreateTmp
    <3>2. i # path
      BY <3>1 DEF Unused
    <3> QED
      BY <1>1, <3>1, <3>2, Before DEF CreateTmp
  <2> QED
    BY <2>1, <2>2
<1>2. ASSUME NEW o \in Operator, WriteTmp(o) PROVE path' = path /\ content'[path] = content[path]
  <2>1. op[o].node = tmp /\ tmp # NoFile
    BY <1>2, Before DEF WriteTmp, Owns, Equipped, Holding
  <2>2. tmp # path
    BY <2>1 DEF KeystoreInv, NameInv
  <2> QED
    BY <1>2, <2>1, <2>2, Before DEF WriteTmp
<1>3. ASSUME NEW o \in Operator, Replace(o)
      PROVE  \/ path' = path /\ content'[path] = content[path]
             \/ path' = tmp /\ tmp # NoFile
  BY <1>3 DEF Replace
<1>4. ASSUME NEW o \in Operator,
             \/ InitKeystore(o) \/ Load(o) \/ LookForTmp(o) \/ UnlinkTmp(o)
             \/ CheckPath(o) \/ DiscardTmp(o) \/ Kill(o)
      PROVE  path' = path /\ content'[path] = content[path]
  BY <1>4 DEF InitKeystore, Load, LookForTmp, UnlinkTmp, CheckPath, DiscardTmp, Kill, files
<1>5. ASSUME NEW o \in Operator, NEW c, Begin(o, c)
      PROVE  path' = path /\ content'[path] = content[path]
  BY <1>5 DEF Begin, files
<1>6. ASSUME NEW o \in Operator, NEW p \in Passphrase, NEW n \in Name,
             \/ \E k \in Key : AddCmd(o, n, k, p) \/ GenerateCmd(o, n, k, p)
             \/ RemoveCmd(o, n, p)
             \/ \E m \in Name : RenameCmd(o, n, m, p)
             \/ \E k \in Key \cup {Null}, f \in BOOLEAN : EncryptCmd(o, n, k, p, f)
      PROVE  path' = path /\ content'[path] = content[path]
  <2>1. \E c : Begin(o, c)
    BY <1>6, Zenon DEF AddCmd, GenerateCmd, RemoveCmd, RenameCmd, EncryptCmd
  <2> QED
    BY <1>5, <2>1
<1>7. CASE (\E p \in Passphrase : Start(p)) \/ Stop \/ UNCHANGED vars
  BY <1>7 DEF Start, Stop, vars, files
<1> QED
  BY <1>1, <1>2, <1>3, <1>4, <1>6, <1>7, Zenon DEF Next

\* No command rewrites a keystore under another passphrase than the one it opened with
\* (load_keystore before every change, save_keystore).
THEOREM PassphraseProved == Spec => PassphraseIsProved
<1>1. ASSUME KeystoreInv, [Next]_vars
      PROVE  [path # NoFile /\ ~ overlap /\ short = 0 =>
               \A v \in content[path].wallets, w \in content'[path'].wallets : v.pass = w.pass]_vars
  <2> SUFFICES ASSUME path # NoFile, ~ overlap, short = 0,
                      NEW v \in content[path].wallets, NEW w \in content'[path'].wallets
               PROVE  v.pass = w.pass
    OBVIOUS
  <2>1. CASE path' = path /\ content'[path] = content[path]
    BY <1>1, <2>1 DEF KeystoreInv, TypeOK, UniformInv, Uniform
  <2>2. ASSUME NEW o \in Operator, Replace(o), path' = tmp, tmp # NoFile PROVE v.pass = w.pass
    <3>1. op[o].pc = "replace" /\ content' = content
      BY <2>2 DEF Replace
    <3>2. Edits(op[o])
      BY <1>1, Before
    <3> QED
      BY <2>2, <3>1, <3>2 DEF Edits, Writing, Holding, Written
  <2> QED
    BY <1>1, <2>1, <2>2, SameOrReplaced
<1> QED
  BY <1>1, Invariance, PTL DEF Spec, PassphraseIsProved

\* A server that starts on the encrypted file while no commands overlapped and no write was
\* short has exactly the wallets that commands saved (load_wallets, _atomic_write).
THEOREM ServesSaved == Spec => StartServesSaved
<1>1. ASSUME KeystoreInv, [Next]_vars
      PROVE  [~ pool.up /\ pool'.up /\ provider = "encrypted_file" /\ ~ overlap /\ short = 0 =>
               {<<w.name, w.key>> : w \in pool'.wallets} = saved]_vars
  <2> SUFFICES ASSUME ~ pool.up, pool'.up, provider = "encrypted_file", ~ overlap, short = 0
               PROVE  {<<w.name, w.key>> : w \in pool'.wallets} = saved
    OBVIOUS
  <2>1. PICK p \in Passphrase : Start(p)
    <3>1. pool' # pool
      OBVIOUS
    <3>2. ~ Stop
      BY DEF Stop
    <3>3. ASSUME NEW o \in Operator,
                 \/ InitKeystore(o) \/ Load(o) \/ LookForTmp(o) \/ UnlinkTmp(o) \/ CreateTmp(o)
                 \/ WriteTmp(o) \/ CheckPath(o) \/ DiscardTmp(o) \/ Replace(o) \/ Kill(o) \/ \E c : Begin(o, c)
          PROVE  pool' = pool
      BY <3>3 DEF InitKeystore, Load, LookForTmp, UnlinkTmp, CreateTmp, WriteTmp, CheckPath, DiscardTmp, Replace,
                  Kill,
                  Begin
    <3>4. UNCHANGED vars => pool' = pool
      BY DEF vars
    <3> QED
      BY <1>1, <3>1, <3>2, <3>3, <3>4, Zenon
         DEF Next, AddCmd, GenerateCmd, RemoveCmd, RenameCmd, EncryptCmd
  <2>2. /\ path # NoFile
        /\ pool'.wallets = {[name |-> w.name, key |-> w.key] : w \in content[path].wallets}
    BY <2>1 DEF Start, Unlocked, Down, Serving, ByName
  <2>3. {<<w.name, w.key>> : w \in pool'.wallets} = Pairs(content[path])
    <3>1. ASSUME NEW v \in content[path].wallets
          PROVE  \E w \in pool'.wallets : <<w.name, w.key>> = <<v.name, v.key>>
      <4>1. [name |-> v.name, key |-> v.key] \in pool'.wallets
        BY <2>2
      <4> QED
        BY <4>1
    <3>2. ASSUME NEW w \in pool'.wallets
          PROVE  \E v \in content[path].wallets : <<w.name, w.key>> = <<v.name, v.key>>
      BY <2>2
    <3> QED
      BY <3>1, <3>2 DEF Pairs
  <2> QED
    BY <1>1, <2>2, <2>3 DEF KeystoreInv, SavedKeyIsKept
<1> QED
  BY <1>1, Invariance, PTL DEF Spec, StartServesSaved

\* Every variable of the commands and the files keeps its type.
THEOREM TypeCorrect == Spec => []TypeOK
<1>1. KeystoreInv => TypeOK
  BY DEF KeystoreInv
<1> QED
  BY <1>1, Invariance, PTL
=============================================================================
