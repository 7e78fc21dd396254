------------------------------- MODULE Secrets -------------------------------
(***************************************************************************)
(* The credential store and the Record key ring (internal/secrets,         *)
(* internal/recordsecret, internal/db/record_secrets.go and                *)
(* record_secret_rotation.go, the `dygo secret` commands).                 *)
(*                                                                         *)
(* A master key on disk decrypts one file per environment.  The file of    *)
(* the environment modelled here (Target) also holds the ring of Record    *)
(* keys that encrypt secret Fields in its database.  `rotate-key` replaces *)
(* the master key and every file by single renames, `record-key rotate`    *)
(* adds a Record key and rewrites the database batch by batch, `edit`      *)
(* writes back a file it read before, and servers go on writing secrets    *)
(* under the ring they read at the start of their operation.  No lock      *)
(* keeps one command from another, but for the record-key commands among   *)
(* themselves, and any command may fail or be killed between two steps.    *)
(***************************************************************************)
EXTENDS Naturals, FiniteSets, FiniteSetsExt

CONSTANTS Envs,             \* the environments, numbered in the order commands take them
          Target,
          Masters, Keys,    \* bound: the keys that can ever be generated
          Rows,             \* ids of the rows with a secret Field, in id order
          Batch,            \* rows rewritten per transaction (100 in the code)
          Inits,            \* init commands
          Cmds,             \* record-key commands
          Ops,              \* server operations that store a secret
          None

ASSUME TargetAssumption == Target \in Envs /\ Envs \subseteq Nat
ASSUME RowsAssumption   == Rows \subseteq Nat \ {0} /\ IsFiniteSet(Rows)
ASSUME BatchAssumption  == Batch \in Nat \ {0}

NoRing == [active |-> None, keys |-> {}, rotating |-> FALSE]
Ring == {r \in [active : Keys, keys : SUBSET Keys, rotating : BOOLEAN] : r.active \in r.keys}
          \cup {NoRing}
File == [to : (SUBSET Masters) \ {{}}, ring : Ring]

ASSUME NoneAssumption ==
    None \notin Masters \cup Keys \cup Ring \cup File \cup [Envs -> File]

VARIABLES
    master,     \* the master key file, or None
    file,       \* per environment: the keys it is encrypted to and its ring, or None
    drawn,      \* master and Record keys generated so far
    ini,        \* the init commands
    rot,        \* the rotate-key command
    edit,       \* the edit command
    rk,         \* the record-key commands
    op,         \* the ring each server operation read, or None
    row,        \* the key each stored secret is encrypted with, or None
    late,       \* rows written under a ring that was no longer the stored one
    clash,      \* files written for a master key that another command was replacing
    loose       \* Record keys saved while another command held an older copy of the file

store == <<master, file, clash>>
vars  == <<store, drawn, ini, rot, edit, rk, op, row, late, loose>>

Sealed(ks, ring) == [to |-> ks, ring |-> ring]
First(e, left) == e \in left /\ \A d \in left : e <= d
Idle     == [at |-> "idle"]
Readable(e) == file[e] # None /\ master \in file[e].to
Stored   == IF file[Target] = None THEN NoRing ELSE file[Target].ring

\* docs/secrets.md:242: no credential edit or master-key rotation during
\* Record-key rotation.  Nothing is said of the other pairs of commands.
NoRotation     == \A c \in Cmds : rk[c] = Idle \/ rk[c].at = "init"
NoStoreCommand == rot = Idle /\ edit = Idle

\* A command that will write a copy of Target's file older than the one in place.
Held == \/ edit # Idle /\ edit.env = Target
        \/ rot # Idle
        \/ \E i \in Inits : ini[i] # Idle /\ Target \in ini[i].left

\* The file of e is written for the master key k, which another command may
\* have replaced by now or be about to replace.
Written(e, k) == clash' = IF k # master \/ rot # Idle THEN clash \cup {e}
                                                     ELSE clash \ {e}

Init ==
    /\ master = None
    /\ file   = [e \in Envs |-> None]
    /\ drawn  = {}
    /\ ini    = [i \in Inits |-> Idle]
    /\ rot    = Idle
    /\ edit   = Idle
    /\ rk     = [c \in Cmds |-> Idle]
    /\ op     = [o \in Ops |-> None]
    /\ row    = [i \in Rows |-> None]
    /\ late   = {}
    /\ clash  = {}
    /\ loose  = {}

------------------------------------------------------------------------------
(* secret init: what is missing is found at the start and written later,     *)
(* whatever is in place by then; the key first, then the files.              *)

Missing == {e \in Envs : file[e] = None}

Ini(i, x) == ini' = [ini EXCEPT ![i] = x] /\ UNCHANGED <<rot, edit, rk, op, row, late, loose>>

InitLoad(i) ==
    /\ ini[i] = Idle /\ Missing # {}
    /\ \/ /\ master # None
          /\ Ini(i, [at |-> "files", key |-> master, left |-> Missing])
          /\ UNCHANGED drawn
       \/ /\ master = None /\ Missing = Envs
          /\ \E m \in Masters \ drawn :
               /\ drawn' = drawn \cup {m}
               /\ Ini(i, [at |-> "master", key |-> m, left |-> Missing])
    /\ UNCHANGED store

\* It has found no master key, so that files written since are for another.
InitMaster(i) ==
    /\ ini[i] # Idle /\ ini[i].at = "master"
    /\ master' = ini[i].key
    /\ clash' = clash \cup (Envs \ Missing)
    /\ Ini(i, [ini[i] EXCEPT !.at = "files"])
    /\ UNCHANGED <<file, drawn>>

InitFile(i, e) ==
    /\ ini[i] # Idle /\ ini[i].at = "files" /\ First(e, ini[i].left)
    /\ file' = [file EXCEPT ![e] = Sealed({ini[i].key}, NoRing)]
    /\ Written(e, ini[i].key)
    /\ Ini(i, IF ini[i].left = {e} THEN Idle ELSE [ini[i] EXCEPT !.left = @ \ {e}])
    /\ UNCHANGED <<master, drawn>>

InitEnds(i) == ini[i] # Idle /\ Ini(i, Idle) /\ UNCHANGED <<store, drawn>>

------------------------------------------------------------------------------
(* secret rotate-key.  What it reads, stages and backs up stays in its own   *)
(* directory; only the renames below touch the store.                        *)

Rot(r) == rot' = r /\ UNCHANGED <<drawn, ini, edit, rk, op, row, late, loose>>
Still  == UNCHANGED store

RotLoad ==
    /\ rot = Idle /\ NoRotation
    /\ \A e \in Envs : Readable(e)
    /\ \E m \in Masters \ drawn :
         /\ drawn' = drawn \cup {m}
         /\ rot' = [at |-> "staged", old |-> master, key |-> m, left |-> Envs,
                    ring |-> [e \in Envs |-> file[e].ring], saved |-> None, kept |-> None]
    /\ UNCHANGED <<store, ini, edit, rk, op, row, late, loose>>

\* Mutant: the old files are not kept for a rollback.
RotBackupNothing ==
    /\ rot # Idle /\ rot.at = "staged"
    /\ Rot([rot EXCEPT !.at = "dual"])
    /\ Still

RotBackup ==
    /\ rot # Idle /\ rot.at = "staged"
    /\ Rot([rot EXCEPT !.at = "dual", !.saved = file, !.kept = master])
    /\ Still

\* After the last environment the next stage starts over them.
Onward(e, next) == IF rot.left = {e} THEN next ELSE [rot EXCEPT !.left = @ \ {e}]
Stage(at) == [rot EXCEPT !.at = at, !.left = Envs]

Replace(e, f) == /\ file' = [file EXCEPT ![e] = f]
                 /\ UNCHANGED <<master, clash>>

\* Mutant: the files are not made readable with both keys first.
RotDualFinal(e) ==
    /\ rot # Idle /\ rot.at = "dual" /\ First(e, rot.left)
    /\ Replace(e, Sealed({rot.key}, rot.ring[e]))
    /\ Rot(Onward(e, Stage("master")))

RotDual(e) ==
    /\ rot # Idle /\ rot.at = "dual" /\ First(e, rot.left)
    /\ Replace(e, Sealed({rot.old, rot.key}, rot.ring[e]))
    /\ Rot(Onward(e, Stage("master")))

RotMaster ==
    /\ rot # Idle /\ rot.at = "master"
    /\ master' = rot.key
    /\ Rot([Stage("final") EXCEPT !.saved = None, !.kept = None])
    /\ UNCHANGED <<file, clash>>

\* A rename that fails before the master key is replaced is rolled back.
RotFails ==
    /\ rot # Idle /\ rot.at \in {"dual", "master"}
    /\ Rot(Stage("undo"))
    /\ Still

Undo(e) ==
    /\ rot # Idle /\ rot.at = "undo" /\ First(e, rot.left)
    /\ \/ Replace(e, rot.saved[e])
       \/ Still
    /\ Rot(Onward(e, Stage("undone")))

UndoMaster ==
    /\ rot # Idle /\ rot.at = "undone"
    /\ \/ master' = rot.kept /\ UNCHANGED <<file, clash>>
       \/ Still
    /\ Rot(Idle)

RotFinal(e) ==
    /\ rot # Idle /\ rot.at = "final" /\ First(e, rot.left)
    /\ file' = [file EXCEPT ![e] = Sealed({rot.key}, rot.ring[e])]
    /\ clash' = IF master = rot.key THEN clash \ {e} ELSE clash \cup {e}
    /\ UNCHANGED master
    /\ Rot(Onward(e, Idle))

\* An error elsewhere or a kill.  The closing verification only reads.
RotEnds == /\ rot # Idle
           /\ Rot(Idle)
           /\ Still

------------------------------------------------------------------------------
(* secret edit: the editor holds the decrypted file for as long as it likes. *)

Edit(x) == edit' = x /\ UNCHANGED <<drawn, ini, rot, rk, op, row, late, loose>>

EditOpen(e) ==
    /\ edit = Idle /\ NoRotation
    /\ Readable(e)
    /\ Edit([at |-> "open", env |-> e, ring |-> file[e].ring, key |-> None])
    /\ Still

EditKey ==
    /\ edit # Idle /\ edit.at = "open"
    /\ Edit([edit EXCEPT !.at = "keyed", !.key = master])
    /\ Still

EditWrite ==
    /\ edit # Idle /\ edit.at = "keyed"
    /\ file' = [file EXCEPT ![edit.env] = Sealed({edit.key}, edit.ring)]
    /\ Written(edit.env, edit.key)
    /\ UNCHANGED master
    /\ Edit(Idle)

EditEnds == edit # Idle /\ Edit(Idle) /\ Still

------------------------------------------------------------------------------
(* secret record-key init and rotate.                                        *)

Rk(c, x) == /\ rk' = [rk EXCEPT ![c] = x]
            /\ UNCHANGED <<master, ini, rot, edit, op>>
Data == UNCHANGED <<row, late>>
SameFile == UNCHANGED <<file, clash, loose>>

WithKey(ring, k, rotating) ==
    [active |-> k, keys |-> ring.keys \cup {k}, rotating |-> rotating]

\* The session advisory lock: nobody else runs; a dead command has released it.
TryLock(c) == rk[c] = Idle /\ \A d \in Cmds : rk[d] = Idle

RkInit(c) ==
    /\ TryLock(c)
    /\ Readable(Target) /\ Stored = NoRing
    /\ \E k \in Keys \ drawn :
         /\ drawn' = drawn \cup {k}
         /\ Rk(c, [at |-> "init", ring |-> WithKey(NoRing, k, FALSE), key |-> None,
                   pass |-> 0, after |-> 0, count |-> 0])
    /\ SameFile /\ Data

\* An unfinished rotation is resumed with the key it already stored.
RkBegin(c) ==
    /\ TryLock(c) /\ NoStoreCommand
    /\ Readable(Target) /\ Stored # NoRing
    /\ IF Stored.rotating
         THEN /\ Rk(c, [at |-> "pass", ring |-> Stored, key |-> None,
                        pass |-> 1, after |-> 0, count |-> 0])
              /\ UNCHANGED drawn
         ELSE \E k \in Keys \ drawn :
                /\ drawn' = drawn \cup {k}
                /\ Rk(c, [at |-> "begin", ring |-> WithKey(Stored, k, TRUE), key |-> None,
                          pass |-> 1, after |-> 0, count |-> 0])
    /\ SameFile /\ Data

\* A save reads the file once more, and the master key it will write it for.
RkKey(c) ==
    /\ rk[c] # Idle /\ rk[c].at # "pass" /\ rk[c].key = None
    /\ Readable(Target)
    /\ Rk(c, [rk[c] EXCEPT !.key = master])
    /\ UNCHANGED drawn /\ SameFile /\ Data

\* A ring saved while another command holds an older copy may be lost again.
RkSave(c) ==
    LET r == rk[c]
        ring == [r.ring EXCEPT !.rotating = @ /\ r.at # "finish"] IN
    /\ r # Idle /\ r.at # "pass" /\ r.key # None
    /\ file' = [file EXCEPT ![Target] = Sealed({r.key}, ring)]
    /\ Written(Target, r.key)
    /\ loose' = IF Held THEN loose \cup ring.keys ELSE loose \ ring.keys
    /\ Rk(c, IF r.at = "begin" THEN [r EXCEPT !.at = "pass", !.key = None] ELSE Idle)
    /\ UNCHANGED drawn /\ Data

\* The next Batch secrets in id order, locked and rewritten in one transaction.
Pending(after) == {i \in Rows : i > after /\ row[i] # None}
NextBatch(after) == {i \in Pending(after) : Cardinality({j \in Pending(after) : j < i}) < Batch}

RkBatch(c) ==
    LET r == rk[c]
        b == NextBatch(r.after)
        old == {i \in b : row[i] # r.ring.active} IN
    /\ r # Idle /\ r.at = "pass" /\ b # {}
    /\ \A i \in b : row[i] \in r.ring.keys
    /\ row' = [i \in Rows |-> IF i \in b THEN r.ring.active ELSE row[i]]
    /\ late' = late \ b
    /\ Rk(c, [r EXCEPT !.after = Max(b), !.count = @ + Cardinality(old)])
    /\ UNCHANGED drawn /\ SameFile

\* The second pass only verifies: it must find nothing left to rewrite.
RkPassEnds(c) ==
    LET r == rk[c] IN
    /\ r # Idle /\ r.at = "pass" /\ NextBatch(r.after) = {}
    /\ IF r.pass = 1
         THEN Rk(c, [r EXCEPT !.pass = 2, !.after = 0, !.count = 0])
         ELSE Rk(c, IF r.count = 0 THEN [r EXCEPT !.at = "finish"] ELSE Idle)
    /\ UNCHANGED drawn /\ SameFile /\ Data

RkEnds(c) == /\ rk[c] # Idle
             /\ Rk(c, Idle)
             /\ UNCHANGED drawn /\ SameFile /\ Data

------------------------------------------------------------------------------
(* Servers and workers: one read of the ring per operation, then the write.  *)

Serve(o, ring) == /\ op' = [op EXCEPT ![o] = ring]
                  /\ UNCHANGED <<store, drawn, ini, rot, edit, rk, loose>>

OpLoad(o) ==
    /\ op[o] = None
    /\ Readable(Target) /\ Stored # NoRing
    /\ Serve(o, Stored)
    /\ Data

OpWrite(o) ==
    /\ op[o] # None
    /\ ~op[o].rotating
    /\ \E i \in Rows :
         /\ row' = [row EXCEPT ![i] = op[o].active]
         /\ late' = (IF op[o] = Stored THEN late \ {i} ELSE late \cup {i})
    /\ Serve(o, None)

OpClear(o) ==
    /\ op[o] # None
    /\ \E i \in Rows : /\ row[i] # None
                       /\ row' = [row EXCEPT ![i] = None]
                       /\ late' = late \ {i}
    /\ Serve(o, None)

OpEnds(o) == op[o] # None /\ Serve(o, None) /\ Data

------------------------------------------------------------------------------
RotateKey == RotLoad \/ RotBackup \/ RotMaster \/ RotFails \/ UndoMaster \/ RotEnds
             \/ \E e \in Envs : RotDual(e) \/ Undo(e) \/ RotFinal(e)

Next == \/ \E i \in Inits : \/ InitLoad(i) \/ InitMaster(i) \/ InitEnds(i)
                            \/ \E e \in Envs : InitFile(i, e)
        \/ RotateKey
        \/ EditKey \/ EditWrite \/ EditEnds \/ \E e \in Envs : EditOpen(e)
        \/ \E c \in Cmds : \/ RkInit(c) \/ RkBegin(c) \/ RkKey(c) \/ RkSave(c)
                           \/ RkBatch(c) \/ RkPassEnds(c) \/ RkEnds(c)
        \/ \E o \in Ops : OpLoad(o) \/ OpWrite(o) \/ OpClear(o) \/ OpEnds(o)

Spec == Init /\ [][Next]_vars
------------------------------------------------------------------------------
(* The store, the commands and the stored secrets stay well formed; in       *)
(* particular a file is always encrypted to some key, and a rotation never   *)
(* runs without a backup it could restore.                                   *)
TypeOK ==
    /\ master \in Masters \cup {None}
    /\ file \in [Envs -> File \cup {None}]
    /\ drawn \subseteq Masters \cup Keys
    /\ ini \in [Inits -> {Idle} \cup
         [at : {"master", "files"}, key : Masters, left : SUBSET Envs]]
    /\ rot \in {Idle} \cup
         [at : {"staged", "dual", "master", "undo", "undone", "final"},
          old : Masters, key : Masters, left : SUBSET Envs, ring : [Envs -> Ring],
          saved : [Envs -> File] \cup {None}, kept : Masters \cup {None}]
    /\ rot # Idle /\ rot.at \in {"dual", "master", "undo", "undone"} =>
         rot.saved # None /\ rot.kept # None
    /\ edit \in {Idle} \cup [at : {"open", "keyed"}, env : Envs, ring : Ring, key : Masters \cup {None}]
    /\ rk \in [Cmds -> {Idle} \cup
         [at : {"init", "begin", "pass", "finish"}, ring : Ring \ {NoRing},
          key : Masters \cup {None}, pass : 0 .. 2,
          after : Rows \cup {0}, count : 0 .. Cardinality(Rows)]]
    /\ op \in [Ops -> (Ring \ {NoRing}) \cup {None}]
    /\ row \in [Rows -> Keys \cup {None}]
    /\ late \subseteq Rows
    /\ clash \subseteq Envs
    /\ loose \subseteq Keys

(* Whatever fails or is killed between two steps, the master key in place    *)
(* decrypts every environment file, unless the file was written for a key    *)
(* another command was replacing: by an edit, a record-key or an init        *)
(* command beside rotate-key, or by two init commands at once (secrets.go:171*)
(* "recoverable order", docs/secrets.md:96).                                 *)
StoreReadable == \A e \in Envs \ clash : file[e] # None => Readable(e)

(* Every stored secret can be decrypted with a key of the stored ring: no    *)
(* command writes a file back without a key some secret is under, except one *)
(* saved while that command already held its copy (recordsecret.go save,     *)
(* secrets.go Save, cli/secrets.go runSecretsEditor).                        *)
SecretsDecryptable == \A i \in Rows : row[i] # None => row[i] \in Stored.keys \cup loose

(* Once a rotation is finished none of the secrets the ring can open is left *)
(* under an old key, except what a server wrote with a ring it had read      *)
(* before (record_secret_rotation.go:19, recordsecret.go BeginRotation).     *)
RotationComplete ==
    ~Stored.rotating /\ Stored.active \notin loose =>
        \A i \in Rows \ late : row[i] \in Stored.keys => row[i] = Stored.active

SecretsSurvive == StoreReadable /\ SecretsDecryptable /\ RotationComplete
=============================================================================
