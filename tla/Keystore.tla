------------------------------ MODULE Keystore ------------------------------
(***************************************************************************)
(* Where private keys live: the encrypted keystore file, the `skr-crypto   *)
(* wallet' commands that rewrite it, and the key providers a starting      *)
(* server loads its wallet pool from.                                      *)
(*                                                                         *)
(* Every command is a process of its own and nothing locks the file.  A    *)
(* write goes to <path>.tmp, which all commands share, and is renamed over *)
(* the path.  Files are inodes, since a process keeps writing to the inode *)
(* it opened after another process has unlinked or renamed its name.       *)
(*                                                                         *)
(* Ciphertext is kept as the wallet with the passphrase it opens with; the *)
(* salt travels with the document and decides nothing.                     *)
(***************************************************************************)
EXTENDS FiniteSets, Naturals

CONSTANTS
  Operator,    \* processes of the CLI
  Name,        \* wallet names
  Key,         \* private keys
  Null,        \* no key, name or passphrase
  Passphrase,
  Variable,    \* per-wallet settings, WALLET_<NAME>_...
  Missing,     \* a setting that is not there
  Malformed,   \* a setting that is no 32-byte hex key, or a file of unsafe mode
  Inode,
  NoFile,
  MaxKills,    \* bound: commands killed
  MaxShort,    \* bound: short writes
  MaxCommands  \* bound: commands started

ASSUME KeystoreAssumption ==
  /\ Null \notin Key /\ NoFile \notin Inode
  /\ Missing \notin Key /\ Malformed \notin Key
  /\ IsFiniteSet(Inode) /\ IsFiniteSet(Operator)
  /\ Cardinality(Inode) > Cardinality(Operator) + 1
  /\ MaxKills \in Nat /\ MaxShort \in Nat /\ MaxCommands \in Nat

ByName == {"env", "file", "keychain", "1password"}
Down == [up |-> FALSE, wallets |-> {}]
Serving(ws) == [up |-> TRUE, wallets |-> ws]

VARIABLES
  provider,  \* KEY_PROVIDER
  secret,    \* what each setting holds, for the providers that go by name
  varOf,     \* _env_var_for: the setting of each wallet name
  names,     \* WALLETS, or the one wallet of the settings without it
  content,   \* what each inode holds
  path,      \* the inode of the keystore file
  tmp,       \* the inode of the temporary file
  op,        \* the command each process is running
  pool,      \* the wallets of the running server, Down when there is none
  saved,     \* history: wallets a command has put in place and none has taken out
  overlap,   \* history: two commands have run at once
  started, kills, short

vars == <<provider, secret, varOf, names, content, path, tmp, op, pool, saved,
          overlap, started, kills, short>>
files == <<content, path, tmp>>
setup == <<provider, secret, varOf, names>>
counts == <<started, kills, short>>

\* A file that is empty or cut off, and a complete document.
Torn == [whole |-> FALSE, wallets |-> {}]
Doc(ws) == [whole |-> TRUE, wallets |-> ws]
Wallet == [name : Name, key : Key, pass : Passphrase]

NoCommand == [cmd |-> "none", pc |-> "idle", name |-> Null, new |-> Null,
              key |-> Null, pass |-> Null, force |-> FALSE, doc |-> Torn,
              node |-> NoFile]

File == [whole : BOOLEAN, wallets : SUBSET Wallet]
Command == [cmd : {"none", "add", "remove", "rename", "encrypt"},
            pc : {"idle", "init", "load", "look", "unlink", "create", "write", "check",
                  "discard", "replace"},
            name : Name \cup {Null}, new : Name \cup {Null}, key : Key \cup {Null},
            pass : Passphrase \cup {Null}, force : BOOLEAN, doc : File,
            node : Inode \cup {NoFile}]

TypeOK ==
  /\ provider \in ByName \cup {"encrypted_file"}
  /\ content \in [Inode -> File]
  /\ path \in Inode \cup {NoFile} /\ tmp \in Inode \cup {NoFile}
  /\ op \in [Operator -> Command]
  /\ pool.up \in BOOLEAN /\ overlap \in BOOLEAN
  /\ started \in Nat /\ kills \in Nat /\ short \in Nat

Init ==
  /\ provider \in ByName \cup {"encrypted_file"}
  /\ IF provider \in ByName
     THEN /\ secret \in [Variable -> Key \cup {Missing, Malformed}]
          /\ varOf \in [Name -> Variable]
          /\ names \in (SUBSET Name) \ {{}}
     ELSE /\ secret = [v \in Variable |-> Missing]
          /\ varOf = [n \in Name |-> CHOOSE v \in Variable : TRUE]
          /\ names = Name
  /\ content = [i \in Inode |-> Torn]
  /\ path = NoFile /\ tmp = NoFile
  /\ op = [o \in Operator |-> NoCommand]
  /\ pool = Down
  /\ saved = {} /\ overlap = FALSE
  /\ started = 0 /\ kills = 0 /\ short = 0

----------------------------------------------------------------------------
(* The commands.  Other providers only get printed instructions.           *)

Begin(o, command) ==
  /\ provider = "encrypted_file"
  /\ op[o].pc = "idle"
  /\ started < MaxCommands
  /\ started' = started + 1
  /\ op' = [op EXCEPT ![o] = command]
  /\ overlap' = (overlap \/ \E p \in Operator \ {o} : op[p].pc # "idle")
  /\ UNCHANGED <<setup, files, pool, saved, kills, short>>

\* `wallet add': the keystore must exist.
AddCmd(o, n, k, p) ==
  /\ path # NoFile
  /\ Begin(o, [NoCommand EXCEPT !.cmd = "add", !.pc = "load", !.name = n, !.key = k, !.pass = p])

\* `wallet generate' does the same with a new key.
GenerateCmd(o, n, k, p) ==
  /\ k \notin {s[2] : s \in saved}
  /\ AddCmd(o, n, k, p)

RemoveCmd(o, n, p) ==
  Begin(o, [NoCommand EXCEPT !.cmd = "remove", !.pc = "load", !.name = n, !.pass = p])

RenameCmd(o, old, new, p) ==
  Begin(o, [NoCommand EXCEPT !.cmd = "rename", !.pc = "load", !.name = old, !.new = new,
                             !.pass = p])

\* `wallet encrypt': an existing file needs --force; then passphrase and key are asked
\* for, and the key may be left out.
EncryptCmd(o, n, k, p, force) ==
  /\ path = NoFile \/ force
  /\ Begin(o, [NoCommand EXCEPT !.cmd = "encrypt", !.pc = "init", !.name = n, !.key = k,
                                !.pass = p, !.force = force])

\* The command ends without a word more to the file.
Leave(o) == op' = [op EXCEPT ![o] = NoCommand]

\* init_keystore looks again.
InitKeystore(o) ==
  /\ op[o].pc = "init"
  /\ IF path # NoFile /\ ~ op[o].force
     THEN Leave(o)
     ELSE op' = [op EXCEPT ![o] = [@ EXCEPT !.pc = "look", !.doc = Doc({})]]
  /\ UNCHANGED <<setup, files, pool, saved, overlap, counts>>

\* Mutant of Opens: the passphrase is not proved.
OpensUnproved(file, p) == file.whole

\* load_keystore: a whole document, every wallet of which opens with the passphrase.
\* An empty keystore opens with any.
Opens(file, p) == file.whole /\ \A w \in file.wallets : w.pass = p

Refused == [ok |-> FALSE, wallets |-> {}]
Saves(ws) == [ok |-> TRUE, wallets |-> ws]

\* Mutant of Edited: the new entry is saved alone.
EditedAlone(c, ws) == Saves({[name |-> c.name, key |-> c.key, pass |-> c.pass]})

\* The wallets a command saves, given those it read, or its refusal of a name that is
\* taken or absent.
Edited(c, ws) ==
  LET taken == {w.name : w \in ws}
      own == {w \in ws : w.name = c.name}
  IN CASE c.cmd \in {"add", "encrypt"} ->
            IF c.name \in taken THEN Refused
            ELSE Saves(ws \cup {[name |-> c.name, key |-> c.key, pass |-> c.pass]})
       [] c.cmd = "remove" -> IF own = {} THEN Refused ELSE Saves(ws \ own)
       [] c.cmd = "rename" ->
            IF own = {} \/ c.new \in taken THEN Refused
            ELSE Saves((ws \ own) \cup {[w EXCEPT !.name = c.new] : w \in own})

\* save_keystore encrypts every entry anew.
Sealed(ws, p) == Doc({[w EXCEPT !.pass = p] : w \in ws})

\* add_wallet, remove_wallet and rename_wallet read the whole file first.
Load(o) ==
  /\ op[o].pc = "load"
  /\ IF path # NoFile /\ Opens(content[path], op[o].pass)
     THEN LET e == Edited(op[o], content[path].wallets)
          IN IF e.ok
             THEN op' = [op EXCEPT ![o] = [@ EXCEPT !.pc = "look",
                                                    !.doc = Sealed(e.wallets, op[o].pass)]]
             ELSE Leave(o)
     ELSE Leave(o)
  /\ UNCHANGED <<setup, files, pool, saved, overlap, counts>>

----------------------------------------------------------------------------
(* _atomic_write.                                                          *)

\* tmp.exists().
LookForTmp(o) ==
  /\ op[o].pc = "look"
  /\ op' = [op EXCEPT ![o].pc = IF tmp = NoFile THEN "create" ELSE "unlink"]
  /\ UNCHANGED <<setup, files, pool, saved, overlap, counts>>

\* A leftover temporary file is removed, whoever it belongs to; one that has gone
\* meanwhile ends the command.
UnlinkTmp(o) ==
  /\ op[o].pc = "unlink"
  /\ tmp' = NoFile
  /\ IF tmp = NoFile THEN Leave(o) ELSE op' = [op EXCEPT ![o].pc = "create"]
  /\ UNCHANGED <<setup, content, path, pool, saved, overlap, counts>>

Unused(i) == i \notin {path, tmp} /\ \A o \in Operator : op[o].node # i

\* O_EXCL: another command's file ends this one.
CreateTmp(o) ==
  /\ op[o].pc = "create"
  /\ IF tmp # NoFile
     THEN Leave(o) /\ UNCHANGED <<content, tmp>>
     ELSE LET i == CHOOSE i \in Inode : Unused(i)
          IN /\ tmp' = i
             /\ content' = [content EXCEPT ![i] = Torn]
             /\ op' = [op EXCEPT ![o] = [@ EXCEPT !.pc = "write", !.node = i]]
  /\ UNCHANGED <<setup, path, pool, saved, overlap, counts>>

\* os.write and fsync.  The count os.write returns is not looked at: on a full disk
\* the file stays cut off and the command goes on.
WriteTmp(o) ==
  /\ op[o].pc = "write"
  /\ op' = [op EXCEPT ![o].pc = "check"]
  /\ \/ content' = [content EXCEPT ![op[o].node] = op[o].doc] /\ UNCHANGED short
     \/ short < MaxShort /\ short' = short + 1 /\ UNCHANGED content
  /\ UNCHANGED <<setup, path, tmp, pool, saved, overlap, started, kills>>

Pairs(file) == {<<w.name, w.key>> : w \in file.wallets}

\* The wallets a command's operator now counts on.
Counted(c) ==
  CASE c.doc.wallets = {} /\ c.cmd = "encrypt" -> {}
    [] c.doc.wallets # {} /\ c.cmd = "encrypt" -> saved \cup {<<c.name, c.key>>}
    [] c.cmd = "add" -> saved \cup {<<c.name, c.key>>}
    [] c.cmd = "remove" -> {s \in saved : s[1] # c.name}
    [] c.cmd = "rename" -> {IF s[1] = c.name THEN <<c.new, s[2]>> ELSE s : s \in saved}

\* Mutant of Replace: renamed before it is written.
ReplaceUnwritten(o) ==
  /\ op[o].pc = "write"
  /\ path' = op[o].node
  /\ tmp' = NoFile
  /\ op' = [op EXCEPT ![o].pc = "check"]
  /\ UNCHANGED <<setup, content, pool, saved, overlap, counts>>

\* path.exists(), once more: only an init_keystore without force minds.
CheckPath(o) ==
  LET c == op[o]
      refused == path # NoFile /\ c.cmd = "encrypt" /\ c.doc.wallets = {} /\ ~ c.force
  IN /\ c.pc = "check"
     /\ op' = [op EXCEPT ![o].pc = IF refused THEN "discard" ELSE "replace"]
     /\ UNCHANGED <<setup, files, pool, saved, overlap, counts>>

\* Refused: whatever file now has the temporary name is removed.
DiscardTmp(o) ==
  /\ op[o].pc = "discard"
  /\ tmp' = NoFile
  /\ Leave(o)
  /\ UNCHANGED <<setup, content, path, pool, saved, overlap, counts>>

\* os.replace, of whatever file now has the temporary name; none ends the command.
\* encrypt goes on to add its wallet.
Replace(o) ==
  /\ op[o].pc = "replace"
  /\ tmp' = NoFile
  /\ IF tmp = NoFile
     THEN Leave(o) /\ UNCHANGED <<path, saved>>
     ELSE /\ path' = tmp
          /\ saved' = Counted(op[o])
          /\ IF op[o].cmd = "encrypt" /\ op[o].doc.wallets = {} /\ op[o].key # Null
             THEN op' = [op EXCEPT ![o] = [@ EXCEPT !.pc = "load", !.node = NoFile]]
             ELSE Leave(o)
  /\ UNCHANGED <<setup, content, pool, overlap, counts>>

\* The process dies; the temporary file stays behind.
Kill(o) ==
  /\ op[o].pc # "idle"
  /\ kills < MaxKills
  /\ kills' = kills + 1
  /\ Leave(o)
  /\ UNCHANGED <<setup, files, pool, saved, overlap, started, short>>

----------------------------------------------------------------------------
(* The server.                                                             *)

\* 32 bytes in hex.
Decodes(value) == value \in Key

\* The setting of a wallet is there and decodes.
Readable(n) == Decodes(secret[varOf[n]])

\* The providers that go by name read one setting per wallet; the first that is missing
\* or malformed ends the process.  The env provider deletes a variable once read, so two
\* names with one variable end it too.
Fetched ==
  IF \/ \E n \in names : ~ Readable(n)
     \/ provider = "env" /\ \E n, m \in names : n # m /\ varOf[n] = varOf[m]
  THEN Down
  ELSE Serving({[name |-> n, key |-> secret[varOf[n]]] : n \in names})

\* Mutant of Unlocked: a temporary file left behind is taken for the newer keystore.
UnlockedLeftover(p) ==
  LET file == content[IF tmp # NoFile THEN tmp ELSE path]
  IN IF path # NoFile /\ Opens(file, p) /\ file.wallets # {}
     THEN Serving({[name |-> w.name, key |-> w.key] : w \in file.wallets})
     ELSE Down

\* The encrypted file needs the passphrase and at least one wallet.
Unlocked(p) ==
  IF path # NoFile /\ Opens(content[path], p) /\ content[path].wallets # {}
  THEN Serving({[name |-> w.name, key |-> w.key] : w \in content[path].wallets})
  ELSE Down

\* load_wallets of security.py at a start, with the passphrase the server is given;
\* any error ends the process.
Start(p) ==
  /\ ~ pool.up
  /\ pool' = IF provider \in ByName THEN Fetched ELSE Unlocked(p)
  /\ UNCHANGED <<setup, files, op, saved, overlap, counts>>

\* lock_key_store; the keys go with the process.
Stop ==
  /\ pool.up
  /\ pool' = Down
  /\ UNCHANGED <<setup, files, op, saved, overlap, counts>>

Next ==
  \/ \E o \in Operator :
       \/ \E p \in Passphrase, n \in Name :
            \/ \E k \in Key : AddCmd(o, n, k, p) \/ GenerateCmd(o, n, k, p)
            \/ RemoveCmd(o, n, p)
            \/ \E m \in Name : RenameCmd(o, n, m, p)
            \/ \E k \in Key \cup {Null}, f \in BOOLEAN : EncryptCmd(o, n, k, p, f)
       \/ InitKeystore(o) \/ Load(o)
       \/ LookForTmp(o) \/ UnlinkTmp(o) \/ CreateTmp(o) \/ WriteTmp(o)
       \/ CheckPath(o) \/ DiscardTmp(o) \/ Replace(o)
       \/ Kill(o)
  \/ \E p \in Passphrase : Start(p)
  \/ Stop

Spec == Init /\ [][Next]_vars

----------------------------------------------------------------------------
(* Properties.                                                             *)

\* "The file either contains the old keystore or the new one": killed commands and the
\* temporary files they leave never tear it.  It is torn only by a short write, or while
\* two commands overlap, and then only until the command whose unfinished file was
\* renamed has written it, unless that command was killed.
TornOnlyByRace ==
  path # NoFile /\ ~ content[path].whole =>
    \/ short > 0
    \/ overlap /\ (kills > 0 \/ \E o \in Operator : op[o].pc = "write" /\ op[o].node = path)

\* A key lives nowhere else once `wallet generate' has stored it: while commands follow
\* one another, every wallet that was put in place and not taken out again is in the file
\* under its name, whatever commands were killed and whatever they left behind.
SavedKeyIsKept ==
  ~ overlap /\ short = 0 =>
    /\ path # NoFile => Pairs(content[path]) = saved
    /\ path = NoFile => saved = {}

\* "Passphrase rejected - keystore was not modified": a file that holds wallets opens with
\* the passphrase it opened with until it is emptied, however many commands are given
\* another one.
PassphraseIsProved ==
  [][path # NoFile /\ ~ overlap /\ short = 0 =>
       \A v \in content[path].wallets, w \in content'[path'].wallets : v.pass = w.pass]_vars

\* A wallet is served once it is saved: while commands follow one another, a server that
\* starts on the encrypted file has the wallets that commands have put in place and not
\* taken out again, each under its name, whatever commands were killed before or are
\* under way (load_wallets, save_keystore).
StartServesSaved ==
  [][~ pool.up /\ pool'.up /\ provider = "encrypted_file" /\ ~ overlap /\ short = 0 =>
       {<<w.name, w.key>> : w \in pool'.wallets} = saved]_vars
============================================================================
