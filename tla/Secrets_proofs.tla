--------------------------- MODULE Secrets_proofs ---------------------------
(***************************************************************************)
(* Theorems about Secrets, for every set of environments, keys, rows,      *)
(* commands and server operations and every batch size.                    *)
(***************************************************************************)
EXTENDS Secrets, FiniteSetTheorems, WellFoundedInduction, TLAPS

-----------------------------------------------------------------------------
(* Sets of naturals.                                                       *)

\* Every non-empty set of naturals has a least element.
LEMMA FirstExists ==
  ASSUME NEW S \in SUBSET Nat, S # {}
  PROVE  \E d \in S : \A e \in S : d <= e
<1>1. PICK d \in S : \A e \in S : ~ (<<e, d>> \in OpToRel(<, Nat))
  BY NatLessThanWellFounded, WFMin, Zenon
<1>2. ASSUME NEW e \in S, e < d PROVE FALSE
  <2>1. <<e, d>> \in Nat \X Nat
    OBVIOUS
  <2>2. <<e, d>>[1] = e /\ <<e, d>>[2] = d
    OBVIOUS
  <2>3. <<e, d>>[1] < <<e, d>>[2]
    BY <1>2, <2>2
  <2>4. <<e, d>> \in OpToRel(<, Nat)
    BY <2>1, <2>3, Zenon DEF OpToRel
  <2> QED
    BY <1>1, <2>4, Zenon
<1> QED
  BY <1>2

\* Every non-empty finite set of naturals has a greatest element: one with the
\* fewest elements above it.
LEMMA LastExists ==
  ASSUME NEW S \in SUBSET Nat, IsFiniteSet(S), S # {}
  PROVE  \E d \in S : \A e \in S : e <= d
<1> DEFINE Above(d) == {e \in S : e > d}
<1>1. \A d \in S : IsFiniteSet(Above(d)) /\ Cardinality(Above(d)) \in Nat
  BY FS_Subset, FS_CardinalityType
<1>2. {Cardinality(Above(d)) : d \in S} \in SUBSET Nat /\ {Cardinality(Above(d)) : d \in S} # {}
  BY <1>1
<1> HIDE DEF Above
<1>3. PICK d \in S : \A e \in S : Cardinality(Above(d)) <= Cardinality(Above(e))
  <2>1. PICK n \in {Cardinality(Above(d)) : d \in S} :
          \A m \in {Cardinality(Above(d)) : d \in S} : n <= m
    BY <1>2, FirstExists, Zenon
  <2> QED
    BY <2>1
<1>4. ASSUME NEW e \in S, e > d PROVE FALSE
  <2>0. e \in Nat /\ d \in Nat /\ \A x \in S : x \in Nat
    OBVIOUS
  <2>a. ASSUME NEW x \in S, x > e PROVE x > d
    BY <1>4, <2>0, <2>a
  <2>b. ~ (e > e)
    BY <2>0
  <2>1. Above(e) \subseteq Above(d) /\ e \in Above(d) /\ e \notin Above(e)
    BY <1>4, <2>a, <2>b, Zenon DEF Above
  <2>2. Cardinality(Above(e)) <= Cardinality(Above(d)) /\ Cardinality(Above(d)) # Cardinality(Above(e))
    BY <1>1, <2>1, FS_Subset
  <2> QED
    BY <1>1, <1>3, <2>2
<1> QED
  BY <1>4

-----------------------------------------------------------------------------
(* The inductive invariant.  First the store and the commands that replace *)
(* it as a whole.                                                          *)

\* Record-key commands exclude each other, and a rotation the store commands.
AloneInv ==
  /\ rot # Idle \/ edit # Idle => NoRotation
  /\ \A c, d \in Cmds : c # d => rk[c] = Idle \/ rk[d] = Idle

MasterInv ==
  /\ \A e \in Envs : file[e] # None => master # None
  /\ \A i \in Inits : ini[i] # Idle /\ ini[i].at = "files" => master # None
  /\ \A c \in Cmds : rk[c] # Idle => master # None

\* A command that has read a file finds one in its place.
PresentInv ==
  /\ rot # Idle => \A e \in Envs : file[e] # None
  /\ edit # Idle => file[edit.env] # None /\ (edit.at = "keyed" => edit.key # None)

Backed == {"dual", "master", "undo", "undone"}

\* The key in place is the old one until the rename, which finds every file
\* readable with both, and the new one after it, unless an init command has put
\* another there, and then every file is a clash.
RotKeys ==
  rot # Idle =>
    /\ rot.at = "staged" => rot.left = Envs
    /\ rot.at = "staged" \/ rot.at \in Backed => master = rot.old \/ Envs \subseteq clash
    /\ rot.at \in Backed => /\ rot.kept = rot.old \/ Envs \subseteq clash
                            /\ \A e \in Envs \ clash : rot.old \in rot.saved[e].to
    /\ rot.at = "dual" => \A e \in Envs \ (rot.left \cup clash) : rot.key \in file[e].to
    /\ rot.at = "master" => \A e \in Envs \ clash : rot.key \in file[e].to
    /\ rot.at = "final" => master = rot.key \/ Envs \subseteq clash

StorePart == AloneInv /\ MasterInv /\ PresentInv /\ RotKeys /\ StoreReadable

-----------------------------------------------------------------------------
(* Then the ring and the secrets under its keys.                           *)

\* The ring another command holds is the stored one, or nothing but keys that
\* were saved beside such a command is at stake.
Copy(r) == r = Stored \/ (r.keys \subseteq loose /\ Stored.keys \subseteq loose)

Copies(ed, ro, in) ==
  /\ ed # Idle /\ ed.env = Target => Copy(ed.ring)
  /\ ro # Idle => /\ Copy(ro.ring[Target])
                  /\ ro.saved # None => Copy(ro.saved[Target].ring)
  /\ \A i \in Inits : in[i] # Idle /\ Target \in in[i].left => Stored.keys \subseteq loose

CopiesInv == Copies(edit, rot, ini)

\* A record-key command knows the ring it is about to extend.
Knows(x) ==
  /\ x.at = "init" => /\ x.ring.keys = {x.ring.active} /\ ~x.ring.rotating
                      /\ Stored.keys \subseteq loose
  /\ x.at = "begin" => Stored.keys \subseteq x.ring.keys /\ x.ring.rotating
  /\ x.at \in {"pass", "finish"} =>
       /\ x.ring.rotating
       /\ Stored = x.ring \/ (Stored = NoRing /\ x.ring.keys \subseteq loose)

\* The rows a pass has gone by are under the active key, but for late writers.
Passed(x) ==
  /\ x.at = "begin" => x.pass = 1 /\ x.after = 0
  /\ x.at = "pass" => \A i \in Rows \ late :
       i <= x.after \/ x.pass = 2 => row[i] \in {None, x.ring.active}
  /\ x.at = "finish" => \A i \in Rows \ late : row[i] \in {None, x.ring.active}
  /\ x.count <= Cardinality({i \in Rows : i <= x.after})

\* The ring a server holds is part of the stored one, but for loose keys.
RingsInv ==
  /\ \A o \in Ops : op[o] # None => op[o].keys \subseteq Stored.keys \cup loose
  /\ \A c \in Cmds : rk[c] # Idle => Knows(rk[c])

PassInv == \A c \in Cmds : rk[c] # Idle => Passed(rk[c])

DataPart == CopiesInv /\ RingsInv /\ PassInv /\ SecretsDecryptable /\ RotationComplete

Inv == TypeOK /\ StorePart /\ DataPart

-----------------------------------------------------------------------------
(* Types.                                                                  *)

Stages == {"staged", "dual", "master", "undo", "undone", "final"}
Initialising == [at : {"master", "files"}, key : Masters, left : SUBSET Envs]
Rotation == [at : Stages, old : Masters, key : Masters, left : SUBSET Envs,
             ring : [Envs -> Ring], saved : [Envs -> File] \cup {None},
             kept : Masters \cup {None}]
Editing == [at : {"open", "keyed"}, env : Envs, ring : Ring, key : Masters \cup {None}]
Command == [at : {"init", "begin", "pass", "finish"}, ring : Ring \ {NoRing},
            key : Masters \cup {None}, pass : 0 .. 2,
            after : Rows \cup {0}, count : 0 .. Cardinality(Rows)]

LEMMA Working ==
  /\ \A x \in Initialising : x # Idle
  /\ \A r \in Rotation : r # Idle
  /\ \A x \in Editing : x # Idle
  /\ \A x \in Command : x # Idle
BY DEF Initialising, Rotation, Stages, Editing, Command, Idle

LEMMA Fields ==
  /\ \A x \in Initialising : x.at \in {"master", "files"} /\ x.key \in Masters /\ x.left \subseteq Envs
  /\ \A r \in Rotation : /\ r.at \in Stages /\ r.old \in Masters /\ r.key \in Masters
                         /\ r.left \subseteq Envs /\ r.ring \in [Envs -> Ring]
                         /\ r.saved \in [Envs -> File] \cup {None}
                         /\ r.kept \in Masters \cup {None}
  /\ \A x \in Editing : /\ x.at \in {"open", "keyed"} /\ x.env \in Envs /\ x.ring \in Ring
                        /\ x.key \in Masters \cup {None}
  /\ \A x \in Command : /\ x.at \in {"init", "begin", "pass", "finish"}
                        /\ x.ring \in Ring /\ x.ring # NoRing /\ x.key \in Masters \cup {None}
                        /\ x.pass \in 0 .. 2 /\ x.after \in Rows \cup {0}
                        /\ x.count \in 0 .. Cardinality(Rows)
  /\ \A f \in File : f.to \in (SUBSET Masters) \ {{}} /\ f.ring \in Ring
<1>0. \A x \in Initialising : x.at \in {"master", "files"} /\ x.key \in Masters /\ x.left \subseteq Envs
  BY DEF Initialising
<1>1. \A r \in Rotation : /\ r.at \in Stages /\ r.old \in Masters /\ r.key \in Masters
                          /\ r.left \subseteq Envs /\ r.ring \in [Envs -> Ring]
                          /\ r.saved \in [Envs -> File] \cup {None}
                          /\ r.kept \in Masters \cup {None}
  BY DEF Rotation
<1>2. \A x \in Editing : /\ x.at \in {"open", "keyed"} /\ x.env \in Envs /\ x.ring \in Ring
                         /\ x.key \in Masters \cup {None}
  BY DEF Editing
<1>3. \A x \in Command : /\ x.at \in {"init", "begin", "pass", "finish"}
                         /\ x.ring \in Ring /\ x.ring # NoRing /\ x.key \in Masters \cup {None}
                         /\ x.pass \in 0 .. 2 /\ x.after \in Rows \cup {0}
                         /\ x.count \in 0 .. Cardinality(Rows)
  BY DEF Command
<1>4. \A f \in File : f.to \in (SUBSET Masters) \ {{}} /\ f.ring \in Ring
  BY DEF File
<1> QED
  BY <1>0, <1>1, <1>2, <1>3, <1>4

LEMMA Rings ==
  /\ NoRing \in Ring /\ NoRing.keys = {} /\ NoRing.active = None /\ NoRing.rotating = FALSE
  /\ \A r \in Ring : /\ r.active \in Keys \cup {None} /\ r.keys \subseteq Keys
                     /\ r.rotating \in BOOLEAN
                     /\ r # NoRing => r.active \in Keys /\ r.active \in r.keys
<1>1. NoRing.keys = {} /\ NoRing.active = None /\ NoRing.rotating = FALSE
  BY DEF NoRing
<1>2. \A r \in [active : Keys, keys : SUBSET Keys, rotating : BOOLEAN] :
        r.active \in Keys /\ r.keys \subseteq Keys /\ r.rotating \in BOOLEAN
  OBVIOUS
<1>3. ASSUME NEW r \in Ring
      PROVE  r = NoRing \/ /\ r.active \in Keys /\ r.keys \subseteq Keys /\ r.rotating \in BOOLEAN
                           /\ r.active \in r.keys
  BY <1>2 DEF Ring
<1>4. NoRing \in Ring
  BY DEF Ring
<1> QED
  BY <1>1, <1>3, <1>4

LEMMA SealedTyped ==
  ASSUME NEW ks \in SUBSET Masters, ks # {}, NEW r \in Ring
  PROVE  /\ Sealed(ks, r) \in File /\ Sealed(ks, r) # None
         /\ Sealed(ks, r).to = ks /\ Sealed(ks, r).ring = r
<1>1. Sealed(ks, r) \in File /\ Sealed(ks, r).to = ks /\ Sealed(ks, r).ring = r
  BY DEF Sealed, File
<1> QED
  BY <1>1, NoneAssumption

LEMMA Typed ==
  ASSUME TypeOK
  PROVE  /\ ini \in [Inits -> Initialising \cup {Idle}]
         /\ \A i \in Inits : ini[i] # Idle => ini[i] \in Initialising
         /\ rot \in Rotation \cup {Idle}
         /\ rot # Idle /\ rot.at \in Backed => rot.saved \in [Envs -> File] /\ rot.kept \in Masters
         /\ edit \in Editing \cup {Idle}
         /\ rk \in [Cmds -> Command \cup {Idle}]
         /\ \A c \in Cmds : rk[c] # Idle => rk[c] \in Command
         /\ file \in [Envs -> File \cup {None}]
         /\ \A e \in Envs : file[e] # None => file[e] \in File
         /\ master \in Masters \cup {None}
         /\ Stored \in Ring
         /\ drawn \subseteq Masters \cup Keys /\ clash \subseteq Envs /\ loose \subseteq Keys
         /\ row \in [Rows -> Keys \cup {None}] /\ late \subseteq Rows
         /\ op \in [Ops -> (Ring \ {NoRing}) \cup {None}]
<1>1. /\ rot \in Rotation \cup {Idle}
      /\ rot # Idle /\ rot.at \in Backed => rot.saved # None /\ rot.kept # None
  BY Zenon DEF TypeOK, Rotation, Stages, Backed
<1>2. edit \in Editing \cup {Idle}
  BY Zenon DEF TypeOK, Editing
<1>3. rk \in [Cmds -> Command \cup {Idle}]
  BY Zenon DEF TypeOK, Command
<1>4. ini \in [Inits -> Initialising \cup {Idle}]
  BY Zenon DEF TypeOK, Initialising
<1>5. /\ file \in [Envs -> File \cup {None}] /\ master \in Masters \cup {None}
      /\ drawn \subseteq Masters \cup Keys /\ clash \subseteq Envs /\ loose \subseteq Keys
      /\ row \in [Rows -> Keys \cup {None}] /\ late \subseteq Rows
      /\ op \in [Ops -> (Ring \ {NoRing}) \cup {None}]
  BY Zenon DEF TypeOK
<1>6. \A e \in Envs : file[e] # None => file[e] \in File
  BY <1>5
<1>7. Stored \in Ring
  BY <1>6, TargetAssumption, Rings, Fields DEF Stored
<1>8. rot # Idle /\ rot.at \in Backed => rot.saved \in [Envs -> File] /\ rot.kept \in Masters
  BY <1>1, Fields
<1> QED
  BY <1>1, <1>2, <1>3, <1>4, <1>5, <1>6, <1>7, <1>8

\* A step is well typed if the variables it may change are.
LEMMA StepTyped ==
  ASSUME master' \in Masters \cup {None}, file' \in [Envs -> File \cup {None}],
         drawn' \subseteq Masters \cup Keys, clash' \subseteq Envs, loose' \subseteq Keys,
         ini' \in [Inits -> Initialising \cup {Idle}],
         rot' \in Rotation \cup {Idle},
         rot' # Idle /\ rot'.at \in Backed => rot'.saved # None /\ rot'.kept # None,
         edit' \in Editing \cup {Idle}, rk' \in [Cmds -> Command \cup {Idle}],
         op' \in [Ops -> (Ring \ {NoRing}) \cup {None}],
         row' \in [Rows -> Keys \cup {None}], late' \subseteq Rows
  PROVE  TypeOK'
BY Zenon DEF TypeOK, Initialising, Rotation, Stages, Backed, Editing, Command

-----------------------------------------------------------------------------
(* A file is put in place.                                                 *)

LEMMA FilePut ==
  ASSUME TypeOK, NEW e \in Envs, NEW f \in File, file' = [file EXCEPT ![e] = f]
  PROVE  /\ file' \in [Envs -> File \cup {None}] /\ file'[e] = f /\ file'[e] # None
         /\ \A d \in Envs \ {e} : file'[d] = file[d]
         /\ \A d \in Envs : file[d] # None => file'[d] # None
         /\ Stored' = IF e = Target THEN f.ring ELSE Stored
<1>1. file \in [Envs -> File \cup {None}] /\ f # None
  BY Typed, NoneAssumption
<1>2. /\ file' \in [Envs -> File \cup {None}] /\ file'[e] = f
      /\ \A d \in Envs \ {e} : file'[d] = file[d]
  BY <1>1
<1>3. Stored' = IF e = Target THEN f.ring ELSE Stored
  BY <1>1, <1>2, TargetAssumption DEF Stored
<1> QED
  BY <1>1, <1>2, <1>3

\* A file written for a key that is not, or may soon not be, the one in place
\* is a clash.
LEMMA FileWritten ==
  ASSUME Inv, NEW e \in Envs, NEW k \in Masters, NEW r \in Ring,
         file' = [file EXCEPT ![e] = Sealed({k}, r)], Written(e, k),
         UNCHANGED <<master, rot>>
  PROVE  /\ file' \in [Envs -> File \cup {None}] /\ clash' \subseteq Envs
         /\ file'[e] # None /\ \A d \in Envs : file[d] # None => file'[d] # None
         /\ StoreReadable' /\ RotKeys'
         /\ Stored' = IF e = Target THEN r ELSE Stored
<1>1. PICK f : f = Sealed({k}, r)
  OBVIOUS
<1>2. f \in File /\ f.to = {k} /\ f.ring = r /\ f # None
  <2>1. {k} \in SUBSET Masters /\ {k} # {}
    OBVIOUS
  <2> QED
    BY <1>1, <2>1, SealedTyped
<1>3. /\ file' \in [Envs -> File \cup {None}] /\ file'[e] = f /\ file'[e] # None
      /\ \A d \in Envs \ {e} : file'[d] = file[d]
      /\ \A d \in Envs : file[d] # None => file'[d] # None
      /\ Stored' = IF e = Target THEN f.ring ELSE Stored
  BY <1>1, <1>2, FilePut DEF Inv
<1>4. /\ clash' = IF k # master \/ rot # Idle THEN clash \cup {e} ELSE clash \ {e}
      /\ clash \subseteq Envs
  BY Typed DEF Written, Inv
<1>5. StoreReadable'
  <2>1. ASSUME NEW d \in Envs \ clash', file'[d] # None PROVE master' \in file'[d].to
    <3>1. CASE d = e
      BY <1>2, <1>3, <1>4, <2>1, <3>1
    <3>2. CASE d # e
      BY <1>3, <1>4, <2>1, <3>2 DEF Inv, StorePart, StoreReadable, Readable
    <3> QED
      BY <3>1, <3>2
  <2> QED
    BY <2>1 DEF StoreReadable, Readable
<1>6. RotKeys'
  <2>1. CASE rot = Idle
    BY <2>1 DEF RotKeys
  <2>2. CASE rot # Idle
    <3>1. clash' = clash \cup {e} /\ \A d \in Envs \ clash' : file'[d] = file[d]
      BY <1>3, <1>4, <2>2
    <3> QED
      BY <2>2, <3>1 DEF Inv, StorePart, RotKeys
  <2> QED
    BY <2>1, <2>2
<1> QED
  BY <1>2, <1>3, <1>4, <1>5, <1>6

\* The ring of Target's file stays, or one of the copies takes its place.
LEMMA DataStep ==
  ASSUME Inv, NEW r \in Ring, Stored' = r, Copy(r), NoRotation \/ r \in {NoRing, Stored},
         Copies(edit', rot', ini'), UNCHANGED <<rk, op, row, late, loose>>
  PROVE  DataPart'
<1>1. CASE r = Stored
  <2>1. Stored' = Stored
    BY <1>1
  <2>2. CopiesInv'
    BY <2>1 DEF CopiesInv, Copies, Copy
  <2>3. RingsInv' /\ PassInv'
    BY <2>1 DEF Inv, DataPart, RingsInv, Knows, PassInv, Passed
  <2>4. SecretsDecryptable' /\ RotationComplete'
    BY <2>1 DEF Inv, DataPart, SecretsDecryptable, RotationComplete
  <2> QED
    BY <2>2, <2>3, <2>4 DEF DataPart
<1>2. CASE r # Stored
  <2>1. r.keys \subseteq loose /\ Stored.keys \subseteq loose /\ Stored'.keys \subseteq loose
        /\ loose' = loose
    BY <1>2 DEF Copy
  <2>2. \A q : Copy(q) => q.keys \subseteq loose' /\ Stored'.keys \subseteq loose'
    BY <2>1 DEF Copy
  <2>3. CopiesInv'
    BY <2>1, <2>2 DEF CopiesInv, Copies, Copy
  <2>4. \A o \in Ops : op'[o] # None => op'[o].keys \subseteq Stored'.keys \cup loose'
    BY <2>1 DEF Inv, DataPart, RingsInv
  <2>5. ASSUME NEW c \in Cmds, rk[c] # Idle PROVE Knows(rk[c])'
    <3>1. PICK y : y = rk[c]
      OBVIOUS
    <3>2. Knows(y) /\ y = rk'[c]
      BY <2>5, <3>1 DEF Inv, DataPart, RingsInv
    <3>3. CASE y.at = "init"
      BY <2>1, <3>2, <3>3 DEF Knows
    <3>4. CASE y.at # "init"
      <4>1. Stored' = NoRing /\ NoRing.keys = {}
        BY <1>2, <2>5, <3>1, <3>4, Rings DEF NoRotation
      <4>2. y.at \in {"pass", "finish"} => y.ring.keys \subseteq loose
        BY <2>1, <3>2 DEF Knows
      <4> QED
        BY <2>1, <3>2, <3>4, <4>1, <4>2 DEF Knows
    <3> QED
      BY <3>3, <3>4
  <2>6. RingsInv'
    BY <2>4, <2>5 DEF RingsInv
  <2>7. PassInv'
    BY DEF Inv, DataPart, PassInv, Passed
  <2>8. SecretsDecryptable'
    BY <2>1 DEF Inv, DataPart, SecretsDecryptable
  <2>9. RotationComplete'
    BY <2>1, Rings DEF RotationComplete
  <2> QED
    BY <2>3, <2>6, <2>7, <2>8, <2>9 DEF DataPart
<1> QED
  BY <1>1, <1>2

\* Steps of init, rotate-key and edit: what is left to show of each.
LEMMA StoreStepInv ==
  ASSUME Inv, UNCHANGED <<rk, op, row, late, loose>>,
         master' \in Masters \cup {None}, file' \in [Envs -> File \cup {None}],
         drawn' \subseteq Masters \cup Keys, clash' \subseteq Envs,
         ini' \in [Inits -> Initialising \cup {Idle}],
         rot' \in Rotation \cup {Idle},
         rot' # Idle /\ rot'.at \in Backed => rot'.saved # None /\ rot'.kept # None,
         edit' \in Editing \cup {Idle},
         rot' # Idle \/ edit' # Idle => NoRotation,
         MasterInv', PresentInv', RotKeys', StoreReadable',
         NEW r \in Ring, Stored' = r, Copy(r), NoRotation \/ r \in {NoRing, Stored},
         Copies(edit', rot', ini')
  PROVE  Inv'
<1>1. TypeOK'
  BY StepTyped, Typed DEF Inv
<1>2. AloneInv'
  BY DEF Inv, StorePart, AloneInv, NoRotation
<1>3. DataPart'
  BY DataStep
<1> QED
  BY <1>1, <1>2, <1>3 DEF Inv, StorePart

LEMMA CopiesNow ==
  ASSUME Inv
  PROVE  Copies(edit, rot, ini) /\ Copy(Stored) /\ Stored \in Ring
BY Typed DEF Inv, DataPart, CopiesInv, Copy

-----------------------------------------------------------------------------
(* secret init.                                                            *)

LEMMA IniSet ==
  ASSUME Inv, NEW i \in Inits, NEW x \in Initialising \cup {Idle}, Ini(i, x)
  PROVE  /\ ini' \in [Inits -> Initialising \cup {Idle}] /\ ini'[i] = x
         /\ \A j \in Inits \ {i} : ini'[j] = ini[j]
         /\ UNCHANGED <<rot, edit, rk, op, row, late, loose>>
BY Typed DEF Inv, Ini

\* The store stays as it is.
LEMMA IniStays ==
  ASSUME Inv, NEW i \in Inits, NEW x \in Initialising \cup {Idle}, Ini(i, x),
         UNCHANGED store, drawn' \subseteq Masters \cup Keys,
         x # Idle /\ x.at = "files" => master # None,
         x # Idle /\ Target \in x.left => Stored = NoRing
  PROVE  Inv'
<1>1. /\ ini' \in [Inits -> Initialising \cup {Idle}] /\ ini'[i] = x
      /\ \A j \in Inits \ {i} : ini'[j] = ini[j]
      /\ UNCHANGED <<rot, edit, rk, op, row, late, loose, master, file, clash>>
  BY IniSet DEF store
<1>2. Stored' = Stored /\ Stored \in Ring /\ Copy(Stored)
  BY <1>1, CopiesNow DEF Stored
<1>3. MasterInv' /\ PresentInv' /\ RotKeys' /\ StoreReadable'
  BY <1>1 DEF Inv, StorePart, MasterInv, PresentInv, RotKeys, StoreReadable, Readable
<1>4. Copies(edit', rot', ini')
  BY <1>1, CopiesNow, Rings DEF Copies
<1>5. rot' # Idle \/ edit' # Idle => NoRotation
  BY <1>1 DEF Inv, StorePart, AloneInv
<1>6. /\ drawn' \subseteq Masters \cup Keys /\ master' \in Masters \cup {None}
      /\ file' \in [Envs -> File \cup {None}] /\ clash' \subseteq Envs
      /\ rot' \in Rotation \cup {Idle} /\ edit' \in Editing \cup {Idle}
      /\ rot' # Idle /\ rot'.at \in Backed => rot'.saved # None /\ rot'.kept # None
  BY <1>1, Typed, NoneAssumption DEF Inv
<1> QED
  BY <1>1, <1>2, <1>3, <1>4, <1>5, <1>6, StoreStepInv

LEMMA InitLoadInv ==
  ASSUME Inv, NEW i \in Inits, InitLoad(i)
  PROVE  Inv'
<1>1. UNCHANGED store /\ drawn' \subseteq Masters \cup Keys /\ master \in Masters \cup {None}
  BY Typed DEF InitLoad, Inv
<1>2. PICK at \in {"master", "files"}, m \in Masters :
        /\ Ini(i, [at |-> at, key |-> m, left |-> Missing])
        /\ at = "files" => master # None
  BY <1>1 DEF InitLoad
<1>3. PICK x : x = [at |-> at, key |-> m, left |-> Missing]
  OBVIOUS
<1>4. x \in Initialising /\ x.left = Missing /\ x.at = at
  BY <1>3 DEF Initialising, Missing
<1>5. Target \in x.left => Stored = NoRing
  BY <1>4 DEF Missing, Stored
<1> QED
  BY <1>1, <1>2, <1>3, <1>4, <1>5, IniStays

LEMMA InitEndsInv ==
  ASSUME Inv, NEW i \in Inits, InitEnds(i)
  PROVE  Inv'
<1>1. Ini(i, Idle) /\ UNCHANGED store /\ drawn' \subseteq Masters \cup Keys
  BY Typed DEF InitEnds, Inv
<1> QED
  BY <1>1, IniStays

\* Every file there is becomes a clash.
LEMMA InitMasterInv ==
  ASSUME Inv, NEW i \in Inits, InitMaster(i)
  PROVE  Inv'
<1>1. PICK x : x = [ini[i] EXCEPT !.at = "files"]
  OBVIOUS
<1>2. /\ ini[i] # Idle /\ master' = ini[i].key /\ clash' = clash \cup (Envs \ Missing)
      /\ Ini(i, x) /\ UNCHANGED <<file, drawn>>
  BY <1>1 DEF InitMaster
<1>3. ini[i] \in Initialising /\ master' \in Masters /\ master' # None
  BY <1>2, Typed, Fields, NoneAssumption DEF Inv
<1>4. x \in Initialising /\ x.left = ini[i].left
  BY <1>1, <1>3 DEF Initialising
<1>5. /\ ini' \in [Inits -> Initialising \cup {Idle}] /\ ini'[i] = x
      /\ \A j \in Inits \ {i} : ini'[j] = ini[j]
      /\ UNCHANGED <<rot, edit, rk, op, row, late, loose>>
  BY <1>2, <1>4, IniSet
<1>6. Stored' = Stored /\ Stored \in Ring /\ Copy(Stored)
  BY <1>2, CopiesNow DEF Stored
<1>7. MasterInv' /\ PresentInv'
  BY <1>2, <1>3, <1>5 DEF Inv, StorePart, MasterInv, PresentInv
<1>8. \A e \in Envs \ clash' : file'[e] = None
  BY <1>2 DEF Missing
<1>9. StoreReadable'
  BY <1>8 DEF StoreReadable
<1>a. RotKeys'
  <2>1. CASE rot = Idle
    BY <1>5, <2>1 DEF RotKeys
  <2>2. CASE rot # Idle
    <3>1. Envs \subseteq clash' /\ rot' = rot
      BY <1>2, <1>5, <1>8, <2>2 DEF Inv, StorePart, PresentInv
    <3> QED
      BY <3>1 DEF Inv, StorePart, RotKeys
  <2> QED
    BY <2>1, <2>2
<1>b. Copies(edit', rot', ini')
  BY <1>2, <1>4, <1>5, CopiesNow DEF Copies
<1>c. rot' # Idle \/ edit' # Idle => NoRotation
  BY <1>5 DEF Inv, StorePart, AloneInv
<1>d. /\ drawn' \subseteq Masters \cup Keys /\ clash' \subseteq Envs
      /\ file' \in [Envs -> File \cup {None}] /\ rot' \in Rotation \cup {Idle}
      /\ edit' \in Editing \cup {Idle}
      /\ rot' # Idle /\ rot'.at \in Backed => rot'.saved # None /\ rot'.kept # None
  BY <1>2, <1>5, Typed, NoneAssumption DEF Inv
<1> QED
  BY <1>3, <1>5, <1>6, <1>7, <1>9, <1>a, <1>b, <1>c, <1>d, StoreStepInv

\* A file written over another's loses only keys that were loose.
LEMMA InitFileInv ==
  ASSUME Inv, NEW i \in Inits, NEW e \in Envs, InitFile(i, e)
  PROVE  Inv'
<1>1. PICK x : x = IF ini[i].left = {e} THEN Idle ELSE [ini[i] EXCEPT !.left = @ \ {e}]
  OBVIOUS
<1>2. PICK y : y = ini[i]
  OBVIOUS
<1>3. /\ y # Idle /\ y.at = "files" /\ e \in y.left
      /\ file' = [file EXCEPT ![e] = Sealed({y.key}, NoRing)]
      /\ Written(e, y.key) /\ Ini(i, x) /\ UNCHANGED <<master, drawn>>
  BY <1>1, <1>2 DEF InitFile, First
<1>4. /\ y \in Initialising /\ y.key \in Masters /\ master # None
      /\ NoRing \in Ring /\ NoRing.keys = {}
  BY <1>2, <1>3, Typed, Fields, Rings DEF Inv, StorePart, MasterInv
<1>5. x \in Initialising \cup {Idle} /\ (x # Idle => x.left \subseteq y.left)
  BY <1>1, <1>2, <1>4 DEF Initialising
<1>6. /\ ini' \in [Inits -> Initialising \cup {Idle}] /\ ini'[i] = x
      /\ \A j \in Inits \ {i} : ini'[j] = ini[j]
      /\ UNCHANGED <<rot, edit, rk, op, row, late, loose>>
  BY <1>3, <1>5, IniSet
<1>7. /\ file' \in [Envs -> File \cup {None}] /\ clash' \subseteq Envs
      /\ file'[e] # None /\ \A d \in Envs : file[d] # None => file'[d] # None
      /\ StoreReadable' /\ RotKeys'
      /\ Stored' = IF e = Target THEN NoRing ELSE Stored
  BY <1>3, <1>4, <1>6, FileWritten
<1>8. MasterInv' /\ PresentInv'
  <2>1. MasterInv'
    BY <1>3, <1>4 DEF MasterInv
  <2>2. edit' # Idle => edit'.env \in Envs
    BY <1>6, Typed, Fields DEF Inv
  <2> QED
    BY <1>6, <1>7, <2>1, <2>2 DEF Inv, StorePart, PresentInv
<1>9. /\ Stored \in Ring /\ Copy(Stored) /\ Copies(edit, rot, ini)
  BY CopiesNow
<1>a. Copies(edit', rot', ini')
  BY <1>2, <1>3, <1>5, <1>6, <1>9 DEF Copies
<1>b. PICK r \in Ring : r = Stored' /\ r \in {NoRing, Stored}
  BY <1>4, <1>7, <1>9
<1>c. Copy(r)
  BY <1>2, <1>3, <1>4, <1>7, <1>9, <1>b DEF Copies, Copy
<1>d. rot' # Idle \/ edit' # Idle => NoRotation
  BY <1>6 DEF Inv, StorePart, AloneInv
<1>e. /\ drawn' \subseteq Masters \cup Keys /\ master' \in Masters \cup {None}
      /\ rot' \in Rotation \cup {Idle} /\ edit' \in Editing \cup {Idle}
      /\ rot' # Idle /\ rot'.at \in Backed => rot'.saved # None /\ rot'.kept # None
  BY <1>3, <1>6, Typed, NoneAssumption DEF Inv
<1> QED
  BY <1>6, <1>7, <1>8, <1>a, <1>b, <1>c, <1>d, <1>e, StoreStepInv

-----------------------------------------------------------------------------
(* secret rotate-key.                                                      *)

\* What a step of rotate-key finds.
LEMMA RotFacts ==
  ASSUME Inv, rot # Idle
  PROVE  /\ rot \in Rotation /\ rot.at \in Stages /\ rot.old \in Masters /\ rot.key \in Masters
         /\ rot.left \subseteq Envs /\ rot.ring \in [Envs -> Ring]
         /\ rot.at \in Backed => rot.saved \in [Envs -> File] /\ rot.kept \in Masters
         /\ file \in [Envs -> File] /\ clash \subseteq Envs
         /\ \A e \in Envs : file[e] \in File /\ file[e].ring \in Ring /\ rot.ring[e] \in Ring
                            /\ file[e] # None
         /\ Stored = file[Target].ring
         /\ master \in Masters /\ NoRotation
<1>1. /\ rot \in Rotation /\ (rot.at \in Backed => rot.saved \in [Envs -> File] /\ rot.kept \in Masters)
      /\ file \in [Envs -> File \cup {None}] /\ clash \subseteq Envs
  BY Typed DEF Inv
<1>2. \A e \in Envs : file[e] # None
  BY DEF Inv, StorePart, PresentInv
<1>3. master \in Masters
  BY <1>2, Typed, TargetAssumption DEF Inv, StorePart, MasterInv
<1>4. NoRotation
  BY DEF Inv, StorePart, AloneInv
<1>5. Stored = file[Target].ring
  BY <1>2, TargetAssumption DEF Stored
<1> QED
  BY <1>1, <1>2, <1>3, <1>4, <1>5, Fields

LEMMA RotStep ==
  ASSUME Inv, rot # Idle, rot' \in Rotation \cup {Idle},
         rot' # Idle => /\ rot'.ring = rot.ring /\ rot'.saved \in {rot.saved, file, None}
                        /\ rot'.at \in Backed => rot'.saved # None /\ rot'.kept # None,
         file' \in [Envs -> File], master' \in Masters, clash' \subseteq Envs,
         Copy(file'[Target].ring),
         UNCHANGED <<drawn, ini, edit, rk, op, row, late, loose>>, RotKeys', StoreReadable'
  PROVE  Inv'
<1>1. /\ \A e \in Envs : file'[e] # None /\ file'[e] \in File
      /\ file' \in [Envs -> File \cup {None}] /\ master' # None
  BY NoneAssumption
<1>2. PICK r \in Ring : r = Stored' /\ Copy(r)
  BY <1>1, TargetAssumption, Fields DEF Stored
<1>3. NoRotation /\ Stored = file[Target].ring /\ Copy(Stored) /\ Copies(edit, rot, ini)
  BY RotFacts, CopiesNow
<1>4. Copies(edit', rot', ini')
  BY <1>3 DEF Copies
<1>5. MasterInv'
  BY <1>1 DEF MasterInv
<1>6. PresentInv'
  <2>1. edit' # Idle => edit'.env \in Envs
    BY Typed, Fields DEF Inv
  <2> QED
    BY <1>1, <2>1 DEF Inv, StorePart, PresentInv
<1>7. /\ drawn' \subseteq Masters \cup Keys /\ edit' \in Editing \cup {Idle}
      /\ ini' \in [Inits -> Initialising \cup {Idle}]
  BY Typed DEF Inv
<1> QED
  BY <1>1, <1>2, <1>3, <1>4, <1>5, <1>6, <1>7, StoreStepInv

\* Moving on changes nothing but the place.
LEMMA StageIs ==
  ASSUME NEW at \in Stages, rot \in Rotation
  PROVE  /\ Stage(at) \in Rotation
         /\ Stage(at).old = rot.old /\ Stage(at).key = rot.key /\ Stage(at).kept = rot.kept
         /\ Stage(at).ring = rot.ring /\ Stage(at).saved = rot.saved
         /\ Stage(at).at = at /\ Stage(at).left = Envs
BY DEF Stage, Rotation

LEMMA OnwardIs ==
  ASSUME NEW e \in Envs, NEW next, rot \in Rotation
  PROVE  \/ rot.left = {e} /\ Onward(e, next) = next
         \/ /\ rot.left # {e} /\ Onward(e, next) \in Rotation
            /\ Onward(e, next).old = rot.old /\ Onward(e, next).key = rot.key
            /\ Onward(e, next).kept = rot.kept /\ Onward(e, next).ring = rot.ring
            /\ Onward(e, next).saved = rot.saved /\ Onward(e, next).at = rot.at
            /\ Onward(e, next).left = rot.left \ {e}
<1>1. [rot EXCEPT !.left = @ \ {e}] \in Rotation
  BY DEF Rotation
<1> QED
  BY <1>1 DEF Onward, Rotation

LEMMA RotLoadInv ==
  ASSUME Inv, RotLoad
  PROVE  Inv'
<1>1. PICK m \in Masters \ drawn :
        /\ drawn' = drawn \cup {m}
        /\ rot' = [at |-> "staged", old |-> master, key |-> m, left |-> Envs,
                   ring |-> [e \in Envs |-> file[e].ring], saved |-> None, kept |-> None]
  BY DEF RotLoad
<1>2. /\ NoRotation
      /\ UNCHANGED <<master, file, clash, ini, edit, rk, op, row, late, loose>>
      /\ \A e \in Envs : file[e] # None /\ file[e] \in File /\ file[e].ring \in Ring
      /\ master \in Masters /\ file \in [Envs -> File \cup {None}]
      /\ drawn \subseteq Masters \cup Keys /\ clash \subseteq Envs
      /\ edit \in Editing \cup {Idle} /\ ini \in [Inits -> Initialising \cup {Idle}]
  BY TargetAssumption, Typed, Fields DEF RotLoad, Inv, store, Readable
<1>3. [e \in Envs |-> file[e].ring] \in [Envs -> Ring]
  BY <1>2
<1>4. rot' \in Rotation
  BY <1>1, <1>2, <1>3 DEF Rotation, Stages
<1>5. rot' # Idle /\ rot'.at = "staged" /\ rot'.saved = None /\ rot'.old = master
      /\ rot'.left = Envs /\ rot'.ring[Target] = file[Target].ring
  BY <1>1, <1>4, Working, TargetAssumption
<1>6. RotKeys'
  BY <1>2, <1>5 DEF RotKeys, Backed
<1>7. MasterInv' /\ PresentInv' /\ StoreReadable'
  BY <1>2, NoneAssumption
  DEF Inv, StorePart, MasterInv, PresentInv, StoreReadable, Readable
<1>8. Stored' = Stored /\ Stored = file[Target].ring /\ Copy(Stored) /\ Stored \in Ring
      /\ Copies(edit, rot, ini)
  BY <1>2, CopiesNow, TargetAssumption DEF Stored
<1>9. Copies(edit', rot', ini')
  BY <1>2, <1>5, <1>8 DEF Copies
<1>a. drawn' \subseteq Masters \cup Keys
  BY <1>1, <1>2
<1> QED
  BY <1>2, <1>4, <1>5, <1>6, <1>7, <1>8, <1>9, <1>a, StoreStepInv DEF Backed

\* The files, as they are, can be opened with the old key.
LEMMA RotBackupInv ==
  ASSUME Inv, RotBackup
  PROVE  Inv'
<1>1. /\ rot # Idle /\ rot.at = "staged"
      /\ rot' = [rot EXCEPT !.at = "dual", !.saved = file, !.kept = master]
      /\ UNCHANGED <<master, file, clash, drawn, ini, edit, rk, op, row, late, loose>>
  BY DEF RotBackup, Rot, Still, store
<1>2. file \in [Envs -> File] /\ master \in Masters /\ Stored = file[Target].ring
  BY <1>1, RotFacts
<1>3. /\ rot' \in Rotation /\ rot'.at = "dual" /\ rot'.old = rot.old /\ rot'.left = rot.left
      /\ rot'.ring = rot.ring /\ rot'.saved = file /\ rot'.key = rot.key /\ rot'.kept = master
  BY <1>1, <1>2, RotFacts DEF Rotation, Stages
<1>4. (master = rot.old \/ Envs \subseteq clash) /\ StoreReadable' /\ rot.left = Envs
  BY <1>1 DEF Inv, StorePart, RotKeys, StoreReadable, Readable
<1>5. \A e \in Envs \ clash : rot.old \in file[e].to
  BY <1>1, <1>4, RotFacts DEF Inv, StorePart, StoreReadable, Readable
<1>6. RotKeys'
  BY <1>1, <1>3, <1>4, <1>5 DEF RotKeys, Backed
<1>7. file # None /\ master # None /\ Copy(file'[Target].ring) /\ clash' \subseteq Envs
  BY <1>1, <1>2, NoneAssumption, RotFacts DEF Copy
<1> QED
  BY <1>1, <1>2, <1>3, <1>4, <1>6, <1>7, RotStep

\* A file of the rotation or of its backup is put in place.
LEMMA RotPut ==
  ASSUME Inv, rot # Idle, NEW e \in Envs, NEW f \in File, file' = [file EXCEPT ![e] = f],
         e = Target => Copy(f.ring)
  PROVE  /\ file' \in [Envs -> File] /\ file'[e] = f
         /\ \A d \in Envs \ {e} : file'[d] = file[d]
         /\ Copy(file'[Target].ring)
<1>1. file \in [Envs -> File] /\ Stored = file[Target].ring
  BY RotFacts
<1>2. /\ file' \in [Envs -> File] /\ file'[e] = f
      /\ \A d \in Envs \ {e} : file'[d] = file[d]
  BY <1>1
<1> QED
  BY <1>1, <1>2, TargetAssumption DEF Copy

LEMMA RotDualInv ==
  ASSUME Inv, NEW e \in Envs, RotDual(e)
  PROVE  Inv'
<1>1. PICK f : f = Sealed({rot.old, rot.key}, rot.ring[e])
  OBVIOUS
<1>2. /\ rot # Idle /\ rot.at = "dual" /\ e \in rot.left /\ rot' = Onward(e, Stage("master"))
      /\ file' = [file EXCEPT ![e] = f]
      /\ UNCHANGED <<master, clash, drawn, ini, edit, rk, op, row, late, loose>>
  BY <1>1 DEF RotDual, Rot, Replace, First
<1>3. /\ {rot.old, rot.key} \in SUBSET Masters /\ {rot.old, rot.key} # {} /\ rot.ring[e] \in Ring
      /\ rot.saved # None /\ rot.kept # None
  BY <1>2, RotFacts, NoneAssumption DEF Backed
<1>4. f \in File /\ f.to = {rot.old, rot.key} /\ f.ring = rot.ring[e]
  BY <1>1, <1>3, SealedTyped
<1>5. /\ file' \in [Envs -> File] /\ file'[e] = f /\ \A d \in Envs \ {e} : file'[d] = file[d]
      /\ Copy(file'[Target].ring)
  BY <1>2, <1>4, RotPut DEF Inv, DataPart, CopiesInv, Copies
<1>6. /\ rot' \in Rotation /\ rot'.old = rot.old /\ rot'.key = rot.key /\ rot'.kept = rot.kept
      /\ rot'.ring = rot.ring /\ rot'.saved = rot.saved
      /\ \/ rot.left = {e} /\ rot'.at = "master"
         \/ rot'.at = "dual" /\ rot'.left = rot.left \ {e}
  <2>1. PICK next : next = Stage("master")
    OBVIOUS
  <2>2. /\ next \in Rotation /\ next.old = rot.old /\ next.key = rot.key /\ next.kept = rot.kept
        /\ next.ring = rot.ring /\ next.saved = rot.saved /\ next.at = "master"
    BY <1>2, <2>1, RotFacts, StageIs DEF Stages
  <2> QED
    BY <1>2, <2>1, <2>2, RotFacts, OnwardIs
<1>7. /\ master = rot.old \/ Envs \subseteq clash
      /\ rot.kept = rot.old \/ Envs \subseteq clash
      /\ \A d \in Envs \ clash : rot.old \in rot.saved[d].to
      /\ \A d \in Envs \ (rot.left \cup clash) : rot.key \in file[d].to
      /\ \A d \in Envs \ clash : master \in file[d].to
  BY <1>2, RotFacts DEF Inv, StorePart, RotKeys, StoreReadable, Readable, Backed
<1>8. RotKeys'
  <2>1. rot.key \in file'[e].to
    BY <1>4, <1>5
  <2>2. \A d \in Envs \ ((rot.left \ {e}) \cup clash) : rot.key \in file'[d].to
    BY <1>5, <1>7, <2>1
  <2> QED
    BY <1>2, <1>6, <1>7, <2>2 DEF RotKeys
<1>9. StoreReadable'
  <2>1. e \notin clash => master \in file'[e].to
    BY <1>4, <1>5, <1>7
  <2> QED
    BY <1>2, <1>5, <1>7, <2>1 DEF StoreReadable, Readable
<1> QED
  BY <1>2, <1>3, <1>5, <1>6, <1>8, <1>9, RotStep, RotFacts

\* The rename finds every file readable with the new key as well.
LEMMA RotMasterInv ==
  ASSUME Inv, RotMaster
  PROVE  Inv'
<1>1. /\ rot # Idle /\ rot.at = "master" /\ master' = rot.key
      /\ rot' = [Stage("final") EXCEPT !.saved = None, !.kept = None]
      /\ UNCHANGED <<file, clash, drawn, ini, edit, rk, op, row, late, loose>>
  BY DEF RotMaster, Rot
<1>2. /\ rot' \in Rotation /\ rot'.at = "final" /\ rot'.key = rot.key
      /\ rot'.ring = rot.ring /\ rot'.saved = None
  <2>1. PICK s : s = Stage("final")
    OBVIOUS
  <2>2. s \in Rotation /\ s.at = "final" /\ s.key = rot.key /\ s.ring = rot.ring
    BY <1>1, <2>1, RotFacts, StageIs DEF Stages
  <2> QED
    BY <1>1, <2>1, <2>2 DEF Rotation
<1>3. RotKeys'
  BY <1>1, <1>2 DEF RotKeys, Backed
<1>4. StoreReadable'
  BY <1>1 DEF Inv, StorePart, RotKeys, StoreReadable, Readable
<1>5. /\ file' \in [Envs -> File] /\ master' \in Masters /\ clash' \subseteq Envs
      /\ Copy(file'[Target].ring)
  BY <1>1, RotFacts DEF Copy
<1> QED
  BY <1>1, <1>2, <1>3, <1>4, <1>5, RotStep DEF Backed

LEMMA RotFailsInv ==
  ASSUME Inv, RotFails
  PROVE  Inv'
<1>1. /\ rot # Idle /\ rot.at \in {"dual", "master"} /\ rot' = Stage("undo")
      /\ UNCHANGED <<master, file, clash, drawn, ini, edit, rk, op, row, late, loose>>
  BY DEF RotFails, Rot, Still, store
<1>2. /\ rot' \in Rotation /\ rot'.at = "undo" /\ rot'.old = rot.old /\ rot'.kept = rot.kept
      /\ rot'.ring = rot.ring /\ rot'.saved = rot.saved
  BY <1>1, RotFacts, StageIs DEF Stages
<1>3. RotKeys'
  BY <1>1, <1>2 DEF Inv, StorePart, RotKeys, Backed
<1>4. StoreReadable'
  BY <1>1 DEF Inv, StorePart, StoreReadable, Readable
<1>5. /\ file' \in [Envs -> File] /\ master' \in Masters /\ clash' \subseteq Envs
      /\ Copy(file'[Target].ring) /\ rot.saved # None /\ rot.kept # None
  BY <1>1, RotFacts, NoneAssumption DEF Copy, Backed
<1> QED
  BY <1>1, <1>2, <1>3, <1>4, <1>5, RotStep

LEMMA UndoInv ==
  ASSUME Inv, NEW e \in Envs, Undo(e)
  PROVE  Inv'
<1>1. /\ rot # Idle /\ rot.at = "undo" /\ rot' = Onward(e, Stage("undone"))
      /\ file' = [file EXCEPT ![e] = rot.saved[e]] \/ file' = file
      /\ UNCHANGED <<master, clash, drawn, ini, edit, rk, op, row, late, loose>>
  BY DEF Undo, Rot, Replace, Still, store
<1>2. /\ rot.saved \in [Envs -> File] /\ rot.saved # None /\ rot.kept # None
      /\ rot.saved[e] \in File
      /\ master = rot.old \/ Envs \subseteq clash
      /\ rot.kept = rot.old \/ Envs \subseteq clash
      /\ \A d \in Envs \ clash : rot.old \in rot.saved[d].to
      /\ \A d \in Envs \ clash : master \in file[d].to
      /\ e = Target => Copy(rot.saved[e].ring)
  BY <1>1, RotFacts, NoneAssumption
  DEF Inv, StorePart, RotKeys, StoreReadable, Readable, Backed, DataPart, CopiesInv, Copies
<1>3. /\ file' \in [Envs -> File] /\ file'[e] \in {rot.saved[e], file[e]}
      /\ \A d \in Envs \ {e} : file'[d] = file[d]
      /\ Copy(file'[Target].ring)
  BY <1>1, <1>2, RotPut, RotFacts DEF Copy
<1>4. /\ rot' \in Rotation /\ rot'.old = rot.old /\ rot'.kept = rot.kept
      /\ rot'.ring = rot.ring /\ rot'.saved = rot.saved
      /\ rot'.at \in {"undo", "undone"}
  <2>1. PICK next : next = Stage("undone")
    OBVIOUS
  <2>2. /\ next \in Rotation /\ next.old = rot.old /\ next.kept = rot.kept
        /\ next.ring = rot.ring /\ next.saved = rot.saved /\ next.at = "undone"
    BY <1>1, <2>1, RotFacts, StageIs DEF Stages
  <2> QED
    BY <1>1, <2>1, <2>2, RotFacts, OnwardIs
<1>5. RotKeys'
  BY <1>1, <1>2, <1>4 DEF RotKeys, Backed
<1>6. StoreReadable'
  BY <1>1, <1>2, <1>3 DEF StoreReadable, Readable
<1> QED
  BY <1>1, <1>2, <1>3, <1>4, <1>5, <1>6, RotStep, RotFacts

LEMMA RotFinalInv ==
  ASSUME Inv, NEW e \in Envs, RotFinal(e)
  PROVE  Inv'
<1>1. PICK f : f = Sealed({rot.key}, rot.ring[e])
  OBVIOUS
<1>2. /\ rot # Idle /\ rot.at = "final" /\ rot' = Onward(e, Idle)
      /\ file' = [file EXCEPT ![e] = f]
      /\ clash' = IF master = rot.key THEN clash \ {e} ELSE clash \cup {e}
      /\ UNCHANGED <<master, drawn, ini, edit, rk, op, row, late, loose>>
  BY <1>1 DEF RotFinal, Rot
<1>3. {rot.key} \in SUBSET Masters /\ {rot.key} # {} /\ rot.ring[e] \in Ring
  BY <1>2, RotFacts
<1>4. f \in File /\ f.to = {rot.key} /\ f.ring = rot.ring[e]
  BY <1>1, <1>3, SealedTyped
<1>5. /\ file' \in [Envs -> File] /\ file'[e] = f /\ \A d \in Envs \ {e} : file'[d] = file[d]
      /\ Copy(file'[Target].ring)
  BY <1>2, <1>4, RotPut DEF Inv, DataPart, CopiesInv, Copies
<1>6. /\ rot' \in Rotation \cup {Idle}
      /\ rot' # Idle => /\ rot'.key = rot.key /\ rot'.at = "final"
                        /\ rot'.ring = rot.ring /\ rot'.saved = rot.saved
  BY <1>2, RotFacts, OnwardIs
<1>7. /\ master = rot.key \/ Envs \subseteq clash
      /\ \A d \in Envs \ clash : master \in file[d].to /\ clash \subseteq Envs
  BY <1>2, RotFacts DEF Inv, StorePart, RotKeys, StoreReadable, Readable
<1>8. RotKeys'
  BY <1>2, <1>6, <1>7 DEF RotKeys, Backed
<1>9. StoreReadable'
  BY <1>2, <1>4, <1>5, <1>7 DEF StoreReadable, Readable
<1>a. clash' \subseteq Envs /\ master' \in Masters
  BY <1>2, RotFacts
<1> QED
  BY <1>2, <1>5, <1>6, <1>8, <1>9, <1>a, RotStep DEF Backed

\* However rotate-key ends, the key in place is the one it is, but for a backup
\* of one that an init command had put there.
LEMMA RotEndsInv ==
  ASSUME Inv, RotEnds \/ UndoMaster
  PROVE  Inv'
<1>1. /\ rot # Idle /\ rot' = Idle /\ UNCHANGED <<drawn, ini, edit, rk, op, row, late, loose, file, clash>>
      /\ master' = master \/ (rot.at = "undone" /\ master' = rot.kept)
  BY DEF RotEnds, UndoMaster, Rot, Still, store
<1>2. master' \in Masters /\ (master' = master \/ Envs \subseteq clash)
  BY <1>1, RotFacts DEF Inv, StorePart, RotKeys, Backed
<1>3. RotKeys' /\ StoreReadable'
  BY <1>1, <1>2 DEF Inv, StorePart, RotKeys, StoreReadable, Readable
<1>4. file' \in [Envs -> File] /\ clash' \subseteq Envs /\ Copy(file'[Target].ring)
  BY <1>1, RotFacts DEF Copy
<1> QED
  BY <1>1, <1>2, <1>3, <1>4, RotStep

-----------------------------------------------------------------------------
(* secret edit.                                                            *)

LEMMA EditStays ==
  ASSUME Inv, UNCHANGED <<master, file, clash, drawn, ini, rot, rk, op, row, late, loose>>,
         edit' \in Editing \cup {Idle}, edit' # Idle => NoRotation, PresentInv',
         edit' # Idle /\ edit'.env = Target => Copy(edit'.ring)
  PROVE  Inv'
<1>1. Stored' = Stored /\ Stored \in Ring /\ Copy(Stored) /\ Copies(edit, rot, ini)
  BY CopiesNow DEF Stored
<1>2. MasterInv' /\ StoreReadable' /\ RotKeys'
  BY DEF Inv, StorePart, MasterInv, StoreReadable, Readable, RotKeys
<1>3. Copies(edit', rot', ini')
  BY <1>1 DEF Copies
<1>4. rot' # Idle \/ edit' # Idle => NoRotation
  BY DEF Inv, StorePart, AloneInv
<1>5. /\ drawn' \subseteq Masters \cup Keys /\ clash' \subseteq Envs /\ master' \in Masters \cup {None}
      /\ file' \in [Envs -> File \cup {None}] /\ rot' \in Rotation \cup {Idle}
      /\ ini' \in [Inits -> Initialising \cup {Idle}]
      /\ rot' # Idle /\ rot'.at \in Backed => rot'.saved # None /\ rot'.kept # None
  BY Typed, NoneAssumption DEF Inv
<1> QED
  BY <1>1, <1>2, <1>3, <1>4, <1>5, StoreStepInv

LEMMA EditOpenInv ==
  ASSUME Inv, NEW e \in Envs, EditOpen(e)
  PROVE  Inv'
<1>1. /\ NoRotation /\ Readable(e)
      /\ edit' = [at |-> "open", env |-> e, ring |-> file[e].ring, key |-> None]
      /\ UNCHANGED <<master, file, clash, drawn, ini, rot, rk, op, row, late, loose>>
  BY DEF EditOpen, Edit, Still, store
<1>2. file[e] # None /\ file[e].ring \in Ring
  BY <1>1, Typed, Fields DEF Inv, Readable
<1>3. edit' \in Editing /\ edit'.at = "open" /\ edit'.env = e /\ edit'.ring = file[e].ring
  BY <1>1, <1>2 DEF Editing
<1>4. PresentInv'
  BY <1>1, <1>2, <1>3 DEF Inv, StorePart, PresentInv
<1>5. e = Target => Copy(edit'.ring)
  BY <1>2, <1>3 DEF Copy, Stored
<1> QED
  BY <1>1, <1>3, <1>4, <1>5, EditStays

LEMMA EditKeyInv ==
  ASSUME Inv, EditKey
  PROVE  Inv'
<1>1. /\ edit # Idle /\ edit.at = "open" /\ edit' = [edit EXCEPT !.at = "keyed", !.key = master]
      /\ UNCHANGED <<master, file, clash, drawn, ini, rot, rk, op, row, late, loose>>
  BY DEF EditKey, Edit, Still, store
<1>2. /\ edit \in Editing /\ edit.env \in Envs /\ file[edit.env] # None
      /\ master \in Masters \cup {None} /\ master # None
  BY <1>1, Typed, Fields, Zenon DEF Inv, StorePart, PresentInv, MasterInv
<1>3. /\ edit' \in Editing /\ edit'.env = edit.env /\ edit'.ring = edit.ring /\ edit'.key = master
  BY <1>1, <1>2 DEF Editing
<1>4. PresentInv'
  BY <1>1, <1>2, <1>3 DEF Inv, StorePart, PresentInv
<1>5. NoRotation /\ (edit'.env = Target => Copy(edit'.ring))
  BY <1>1, <1>3 DEF Inv, StorePart, AloneInv, DataPart, CopiesInv, Copies
<1> QED
  BY <1>1, <1>3, <1>4, <1>5, EditStays

LEMMA EditEndsInv ==
  ASSUME Inv, EditEnds
  PROVE  Inv'
<1>1. edit' = Idle /\ UNCHANGED <<master, file, clash, drawn, ini, rot, rk, op, row, late, loose>>
  BY DEF EditEnds, Edit, Still, store
<1>2. PresentInv'
  BY <1>1 DEF Inv, StorePart, PresentInv
<1> QED
  BY <1>1, <1>2, EditStays

\* What was edited is written with the ring it was read with.
LEMMA EditWriteInv ==
  ASSUME Inv, EditWrite
  PROVE  Inv'
<1>1. PICK e : e = edit.env
  OBVIOUS
<1>2. /\ edit # Idle /\ edit.at = "keyed" /\ edit' = Idle
      /\ file' = [file EXCEPT ![e] = Sealed({edit.key}, edit.ring)]
      /\ Written(e, edit.key)
      /\ UNCHANGED <<master, drawn, ini, rot, rk, op, row, late, loose>>
  BY <1>1 DEF EditWrite, Edit
<1>3. /\ e \in Envs /\ edit.ring \in Ring /\ edit.key \in Masters /\ file[e] # None /\ NoRotation
      /\ master # None /\ (e = Target => Copy(edit.ring))
  <2>1. edit \in Editing /\ file[e] # None /\ edit.key # None
    BY <1>1, <1>2, Typed DEF Inv, StorePart, PresentInv
  <2>2. e \in Envs /\ edit.ring \in Ring /\ edit.key \in Masters
    BY <1>1, <2>1, Fields
  <2> QED
    BY <1>1, <1>2, <2>1, <2>2
    DEF Inv, StorePart, AloneInv, MasterInv, DataPart, CopiesInv, Copies
<1>4. /\ file' \in [Envs -> File \cup {None}] /\ clash' \subseteq Envs
      /\ file'[e] # None /\ \A d \in Envs : file[d] # None => file'[d] # None
      /\ StoreReadable' /\ RotKeys'
      /\ Stored' = IF e = Target THEN edit.ring ELSE Stored
  BY <1>2, <1>3, FileWritten
<1>5. MasterInv' /\ PresentInv'
  BY <1>2, <1>3, <1>4 DEF Inv, StorePart, MasterInv, PresentInv
<1>6. Stored \in Ring /\ Copy(Stored) /\ Copies(edit, rot, ini)
  BY CopiesNow
<1>7. Copies(edit', rot', ini')
  BY <1>2, <1>6 DEF Copies
<1>8. PICK r \in Ring : r = Stored' /\ Copy(r)
  BY <1>3, <1>4, <1>6
<1>9. /\ drawn' \subseteq Masters \cup Keys /\ master' \in Masters \cup {None}
      /\ rot' \in Rotation \cup {Idle} /\ ini' \in [Inits -> Initialising \cup {Idle}]
      /\ rot' # Idle /\ rot'.at \in Backed => rot'.saved # None /\ rot'.kept # None
  BY <1>2, Typed, NoneAssumption DEF Inv
<1> QED
  BY <1>2, <1>3, <1>4, <1>5, <1>7, <1>8, <1>9, StoreStepInv

-----------------------------------------------------------------------------
(* secret record-key.                                                      *)

Alone(c) == \A d \in Cmds \ {c} : rk[d] = Idle

\* What a record-key command finds.
LEMMA RkFacts ==
  ASSUME Inv, NEW c \in Cmds
  PROVE  /\ rk[c] # Idle \/ TryLock(c) => Alone(c)
         /\ rk[c] # Idle /\ rk[c].at # "init" => rot = Idle /\ edit = Idle
         /\ rk[c] # Idle => /\ rk[c] \in Command /\ rk[c].ring \in Ring /\ rk[c].ring # NoRing
                            /\ rk[c].ring.active \in Keys /\ rk[c].ring.active \in rk[c].ring.keys
                            /\ rk[c].ring.keys \subseteq Keys
                            /\ rk[c].key \in Masters \cup {None}
                            /\ Knows(rk[c]) /\ Passed(rk[c])
                            /\ rk[c].after \in Nat /\ rk[c].count \in Nat
                            /\ rk[c].pass \in 0 .. 2 /\ master # None
<1>1. rk[c] # Idle \/ TryLock(c) => Alone(c)
  BY DEF Inv, StorePart, AloneInv, TryLock, Alone
<1>2. rk[c] # Idle /\ rk[c].at # "init" => rot = Idle /\ edit = Idle
  BY DEF Inv, StorePart, AloneInv, NoRotation
<1>3. rk[c] # Idle => rk[c] \in Command /\ Knows(rk[c]) /\ Passed(rk[c]) /\ master # None
  BY Typed DEF Inv, DataPart, RingsInv, PassInv, StorePart, MasterInv
<1>4. \A x \in Command : x.after \in Nat /\ x.count \in Nat
  <2>1. Cardinality(Rows) \in Nat /\ \A i \in Rows : i \in Nat
    BY RowsAssumption, FS_CardinalityType
  <2> QED
    BY <2>1, Fields
<1>5. \A x \in Command : /\ x.ring \in Ring /\ x.ring # NoRing
                         /\ x.ring.active \in Keys /\ x.ring.active \in x.ring.keys
                         /\ x.ring.keys \subseteq Keys
                         /\ x.key \in Masters \cup {None} /\ x.pass \in 0 .. 2
  BY Fields, Rings
<1> QED
  BY <1>1, <1>2, <1>3, <1>4, <1>5

LEMMA RkSet ==
  ASSUME Inv, NEW c \in Cmds, NEW x, Rk(c, x), Alone(c)
  PROVE  /\ rk'[c] = x /\ \A d \in Cmds \ {c} : rk'[d] = Idle
         /\ UNCHANGED <<master, ini, rot, edit, op>>
         /\ x \in Command \cup {Idle} => rk' \in [Cmds -> Command \cup {Idle}]
<1>1. rk \in [Cmds -> Command \cup {Idle}]
  BY Typed DEF Inv
<1>2. rk' = [rk EXCEPT ![c] = x] /\ UNCHANGED <<master, ini, rot, edit, op>>
  BY DEF Rk
<1> QED
  BY <1>1, <1>2 DEF Alone

\* What is left to show of a step of a record-key command.
LEMMA RkStep ==
  ASSUME Inv, NEW c \in Cmds, NEW x \in Command \cup {Idle}, Rk(c, x), Alone(c),
         rot # Idle \/ edit # Idle => x = Idle \/ x.at = "init",
         x # Idle => master # None,
         file' \in [Envs -> File \cup {None}], clash' \subseteq Envs, loose' \subseteq Keys,
         \A d \in Envs : file[d] # None => file'[d] # None,
         \A d \in Envs : file'[d] # None => master # None,
         StoreReadable', RotKeys',
         drawn' \subseteq Masters \cup Keys,
         row' \in [Rows -> Keys \cup {None}], late' \subseteq Rows, DataPart'
  PROVE  Inv'
<1>1. /\ rk'[c] = x /\ \A d \in Cmds \ {c} : rk'[d] = Idle
      /\ UNCHANGED <<master, ini, rot, edit, op>>
      /\ rk' \in [Cmds -> Command \cup {Idle}]
  BY RkSet
<1>2. AloneInv'
  BY <1>1 DEF AloneInv, NoRotation
<1>3. MasterInv'
  BY <1>1 DEF Inv, StorePart, MasterInv
<1>4. PresentInv'
  <2>1. edit # Idle => edit.env \in Envs
    BY Typed, Fields DEF Inv
  <2> QED
    BY <1>1, <2>1 DEF Inv, StorePart, PresentInv
<1>5. TypeOK'
  BY <1>1, StepTyped, Typed, NoneAssumption DEF Inv
<1> QED
  BY <1>2, <1>3, <1>4, <1>5 DEF Inv, StorePart

\* No step takes a key from a secret or a server.
LEMMA RkRings ==
  ASSUME Inv, NEW c \in Cmds, NEW x, Rk(c, x), Alone(c),
         x # Idle => Knows(x)' /\ Passed(x)',
         Stored.keys \cup loose \subseteq Stored'.keys \cup loose'
  PROVE  RingsInv' /\ PassInv'
<1>1. rk'[c] = x /\ (\A d \in Cmds \ {c} : rk'[d] = Idle) /\ op' = op
  BY RkSet
<1>2. \A d \in Cmds : rk'[d] # Idle => d = c
  BY <1>1
<1>3. \A o \in Ops : op'[o] # None => op'[o].keys \subseteq Stored'.keys \cup loose'
  BY <1>1 DEF Inv, DataPart, RingsInv
<1>4. \A d \in Cmds : rk'[d] # Idle => Knows(rk[d])' /\ Passed(rk[d])'
  BY <1>1, <1>2 DEF Knows, Passed
<1> QED
  BY <1>3, <1>4 DEF RingsInv, PassInv

\* The files stay as they are.
LEMMA RkStays ==
  ASSUME Inv, NEW c \in Cmds, NEW x \in Command \cup {Idle}, Rk(c, x), Alone(c), SameFile,
         rot # Idle \/ edit # Idle => x = Idle \/ x.at = "init",
         x # Idle => master # None /\ Knows(x)' /\ Passed(x)',
         drawn' \subseteq Masters \cup Keys,
         row' \in [Rows -> Keys \cup {None}], late' \subseteq Rows,
         SecretsDecryptable', RotationComplete'
  PROVE  Inv'
<1>1. UNCHANGED <<file, clash, loose, master, ini, rot, edit>> /\ Stored' = Stored
  BY RkSet DEF SameFile, Stored
<1>2. StoreReadable' /\ RotKeys'
  BY <1>1 DEF Inv, StorePart, StoreReadable, Readable, RotKeys
<1>3. CopiesInv'
  BY <1>1 DEF Inv, DataPart, CopiesInv, Copies, Copy
<1>4. RingsInv' /\ PassInv'
  BY <1>1, RkRings
<1>5. /\ file' \in [Envs -> File \cup {None}] /\ clash' \subseteq Envs /\ loose' \subseteq Keys
      /\ \A d \in Envs : file[d] # None => file'[d] # None
      /\ \A d \in Envs : file'[d] # None => master # None
  BY <1>1, Typed DEF Inv, StorePart, MasterInv
<1> QED
  BY <1>2, <1>3, <1>4, <1>5, RkStep DEF DataPart

\* Neither the files nor the secrets have changed.
LEMMA DataStays ==
  ASSUME Inv, SameFile, Data
  PROVE  /\ SecretsDecryptable' /\ RotationComplete' /\ Stored' = Stored
         /\ row' \in [Rows -> Keys \cup {None}] /\ late' \subseteq Rows
<1>1. UNCHANGED <<file, loose, row, late>> /\ Stored' = Stored
  BY DEF SameFile, Data, Stored
<1> QED
  BY <1>1, Typed DEF Inv, DataPart, SecretsDecryptable, RotationComplete

\* The ring with one more key.
LEMMA WithKeyTyped ==
  ASSUME NEW r \in Ring, NEW k \in Keys, NEW b \in BOOLEAN
  PROVE  /\ WithKey(r, k, b) \in Ring /\ WithKey(r, k, b) # NoRing
         /\ WithKey(r, k, b).active = k /\ WithKey(r, k, b).keys = r.keys \cup {k}
         /\ WithKey(r, k, b).rotating = b
<1>1. /\ WithKey(r, k, b) \in [active : Keys, keys : SUBSET Keys, rotating : BOOLEAN]
      /\ WithKey(r, k, b).active \in WithKey(r, k, b).keys
  BY Rings DEF WithKey
<1>2. /\ WithKey(r, k, b).active = k /\ WithKey(r, k, b).keys = r.keys \cup {k}
      /\ WithKey(r, k, b).rotating = b
  BY DEF WithKey
<1>3. WithKey(r, k, b) # NoRing
  BY <1>2, Rings
<1> QED
  BY <1>1, <1>2, <1>3 DEF Ring

LEMMA NoneBelow ==
  ASSUME NEW n \in Nat
  PROVE  /\ \A i \in Rows : ~ (i <= 0)
         /\ IsFiniteSet({i \in Rows : i <= n}) /\ Cardinality({i \in Rows : i <= n}) \in Nat
         /\ Cardinality({i \in Rows : i <= n}) <= Cardinality(Rows) /\ Cardinality(Rows) \in Nat
<1>1. {i \in Rows : i <= n} \in SUBSET Rows
  OBVIOUS
<1>2. \A i \in Rows : i \in Nat /\ i # 0
  BY RowsAssumption
<1>3. \A i \in Rows : ~ (i <= 0)
  BY <1>2
<1>4. IsFiniteSet(Rows)
  BY RowsAssumption
<1>5. IsFiniteSet({i \in Rows : i <= n}) /\ Cardinality({i \in Rows : i <= n}) <= Cardinality(Rows)
  BY <1>1, <1>4, FS_Subset, Zenon
<1> QED
  BY <1>3, <1>4, <1>5, FS_CardinalityType

LEMMA NothingCounted ==
  /\ 0 \in 0 .. 2 /\ 1 \in 0 .. 2 /\ 2 \in 0 .. 2 /\ 0 \in Rows \cup {0} /\ 0 \in 0 .. Cardinality(Rows)
  /\ 0 <= Cardinality({i \in Rows : i <= 0}) /\ \A i \in Rows : ~ (i <= 0)
<1>1. /\ Cardinality({i \in Rows : i <= 0}) \in Nat /\ Cardinality(Rows) \in Nat
      /\ \A i \in Rows : ~ (i <= 0)
  BY NoneBelow
<1>2. 0 <= Cardinality({i \in Rows : i <= 0}) /\ 0 \in 0 .. Cardinality(Rows)
  BY <1>1
<1> QED
  BY <1>1, <1>2

LEMMA RkInitInv ==
  ASSUME Inv, NEW c \in Cmds, RkInit(c)
  PROVE  Inv'
<1>1. /\ Alone(c) /\ Stored = NoRing /\ SameFile /\ Data /\ Stored' = Stored
      /\ drawn' \subseteq Masters \cup Keys /\ master # None
  BY RkFacts, DataStays, Typed, TargetAssumption
  DEF RkInit, Inv, StorePart, MasterInv, Readable
<1>2. PICK k \in Keys :
        Rk(c, [at |-> "init", ring |-> WithKey(NoRing, k, FALSE), key |-> None,
               pass |-> 0, after |-> 0, count |-> 0])
  BY DEF RkInit
<1>3. PICK g : g = WithKey(NoRing, k, FALSE)
  OBVIOUS
<1>4. PICK x : x = [at |-> "init", ring |-> g, key |-> None, pass |-> 0, after |-> 0, count |-> 0]
  OBVIOUS
<1>5. Rk(c, x)
  BY <1>2, <1>3, <1>4, Zenon
<1>6. g \in Ring \ {NoRing} /\ g.active = k /\ g.keys = {k} /\ g.rotating = FALSE
  <2>1. NoRing \in Ring /\ NoRing.keys = {}
    BY Rings
  <2>2. /\ WithKey(NoRing, k, FALSE) \in Ring /\ WithKey(NoRing, k, FALSE) # NoRing
        /\ WithKey(NoRing, k, FALSE).active = k
        /\ WithKey(NoRing, k, FALSE).keys = NoRing.keys \cup {k}
        /\ WithKey(NoRing, k, FALSE).rotating = FALSE
    BY <2>1, WithKeyTyped
  <2> QED
    BY <1>3, <2>1, <2>2
<1>7. x.at = "init" /\ x.ring = g /\ x.pass = 0 /\ x.after = 0 /\ x.count = 0
  BY <1>4
<1>8. x \in Command
  BY <1>4, <1>6, NothingCounted DEF Command
<1>9. Knows(x)' /\ Passed(x)'
  BY <1>1, <1>6, <1>7, NothingCounted, Rings DEF Knows, Passed
<1> QED
  BY <1>1, <1>5, <1>7, <1>8, <1>9, RkStays, DataStays

LEMMA RkBeginInv ==
  ASSUME Inv, NEW c \in Cmds, RkBegin(c)
  PROVE  Inv'
<1>1. /\ Alone(c) /\ rot = Idle /\ edit = Idle /\ Stored # NoRing /\ Stored \in Ring
      /\ Stored' = Stored /\ SameFile /\ Data /\ drawn' \subseteq Masters \cup Keys /\ master # None
  BY RkFacts, DataStays, Typed, TargetAssumption
  DEF RkBegin, NoStoreCommand, Inv, StorePart, MasterInv, Readable
<1>2. ASSUME NEW x \in Command, Rk(c, x),
             \/ x.at = "pass" /\ x.ring = Stored /\ Stored.rotating
             \/ x.at = "begin" /\ Stored.keys \subseteq x.ring.keys /\ x.ring.rotating,
             x.pass = 1, x.after = 0, x.count = 0
      PROVE  Inv'
  <2>1. Knows(x)' /\ Passed(x)'
    BY <1>1, <1>2, NothingCounted DEF Knows, Passed
  <2> QED
    BY <1>1, <1>2, <2>1, RkStays, DataStays
<1>3. PICK g : g = Stored
  OBVIOUS
<1>4. CASE Stored.rotating
  <2>1. PICK x : x = [at |-> "pass", ring |-> g, key |-> None, pass |-> 1, after |-> 0, count |-> 0]
    OBVIOUS
  <2>2. Rk(c, x)
    BY <1>3, <1>4, <2>1 DEF RkBegin
  <2>3. x \in Command
    BY <1>1, <1>3, <2>1, NothingCounted DEF Command
  <2>4. x.at = "pass" /\ x.ring = Stored /\ x.pass = 1 /\ x.after = 0 /\ x.count = 0
    BY <1>3, <2>1
  <2> QED
    BY <1>2, <1>4, <2>2, <2>3, <2>4
<1>5. CASE ~Stored.rotating
  <2>1. PICK k \in Keys : Rk(c, [at |-> "begin", ring |-> WithKey(Stored, k, TRUE), key |-> None,
                                 pass |-> 1, after |-> 0, count |-> 0])
    BY <1>5 DEF RkBegin
  <2>2. PICK h : h = WithKey(g, k, TRUE)
    OBVIOUS
  <2>3. PICK x : x = [at |-> "begin", ring |-> h, key |-> None, pass |-> 1, after |-> 0, count |-> 0]
    OBVIOUS
  <2>4. Rk(c, x)
    BY <1>3, <2>1, <2>2, <2>3, Zenon
  <2>5. h \in Ring \ {NoRing} /\ h.keys = g.keys \cup {k} /\ h.rotating = TRUE
    BY <1>1, <1>3, <2>2, WithKeyTyped
  <2>6. x \in Command
    BY <2>3, <2>5, NothingCounted DEF Command
  <2>7. x.at = "begin" /\ x.ring = h /\ x.pass = 1 /\ x.after = 0 /\ x.count = 0
    BY <2>3
  <2> QED
    BY <1>2, <1>3, <2>4, <2>5, <2>6, <2>7
<1> QED
  BY <1>4, <1>5

LEMMA RkEndsInv ==
  ASSUME Inv, NEW c \in Cmds, RkEnds(c)
  PROVE  Inv'
<1>1. /\ Rk(c, Idle) /\ Alone(c) /\ SameFile /\ Data /\ drawn' \subseteq Masters \cup Keys
  BY RkFacts, Typed DEF RkEnds, Inv
<1> QED
  BY <1>1, RkStays, DataStays

LEMMA RkKeyInv ==
  ASSUME Inv, NEW c \in Cmds, RkKey(c)
  PROVE  Inv'
<1>1. PICK y : y = rk[c]
  OBVIOUS
<1>2. PICK x : x = [y EXCEPT !.key = master]
  OBVIOUS
<1>3. /\ rk[c] # Idle /\ Rk(c, x) /\ SameFile /\ Data /\ drawn' \subseteq Masters \cup Keys
  BY <1>1, <1>2, Typed DEF RkKey, Inv
<1>4. /\ Alone(c) /\ y \in Command /\ Knows(y) /\ Passed(y) /\ master # None
      /\ y.at # "init" => rot = Idle /\ edit = Idle
  BY <1>1, <1>3, RkFacts
<1>5. /\ x \in Command /\ x.at = y.at /\ x.ring = y.ring /\ x.pass = y.pass /\ x.after = y.after
      /\ x.count = y.count
  BY <1>2, <1>4, Typed DEF Command, Inv
<1>6. UNCHANGED <<row, late, loose>> /\ Stored' = Stored
  BY <1>3, DataStays DEF Data, SameFile
<1>7. Knows(x)' /\ Passed(x)'
  BY <1>4, <1>5, <1>6 DEF Knows, Passed
<1> QED
  BY <1>3, <1>4, <1>5, <1>7, RkStays, DataStays

\* A first ring is stored when nothing but loose keys can be lost; a rotation
\* stores the larger ring before it rewrites anything, and in the end says that
\* what the second pass verified is complete.
LEMMA RkSaveInv ==
  ASSUME Inv, NEW c \in Cmds, RkSave(c)
  PROVE  Inv'
<1>1. PICK y : y = rk[c]
  OBVIOUS
<1>2. PICK g : g = [y.ring EXCEPT !.rotating = @ /\ y.at # "finish"]
  OBVIOUS
<1>3. PICK x : x = IF y.at = "begin" THEN [y EXCEPT !.at = "pass", !.key = None] ELSE Idle
  OBVIOUS
<1>4. /\ rk[c] # Idle /\ y.at # "pass" /\ y.key # None
      /\ file' = [file EXCEPT ![Target] = Sealed({y.key}, g)]
      /\ Written(Target, y.key)
      /\ loose' = IF Held THEN loose \cup g.keys ELSE loose \ g.keys
      /\ Rk(c, x) /\ UNCHANGED <<drawn, row, late>>
  BY <1>1, <1>2, <1>3 DEF RkSave, Data
<1>5. /\ Alone(c) /\ y \in Command /\ y.ring \in Ring /\ y.ring # NoRing /\ Knows(y) /\ Passed(y)
      /\ y.at \in {"init", "begin", "finish"} /\ y.key \in Masters /\ master # None
      /\ y.at # "init" => rot = Idle /\ edit = Idle
  BY <1>1, <1>4, RkFacts, Fields
<1>6. /\ g \in Ring /\ g # NoRing /\ g.keys = y.ring.keys /\ g.active = y.ring.active
      /\ g.rotating = (y.ring.rotating /\ y.at # "finish")
      /\ g.keys \subseteq Keys /\ g.active \in g.keys
  <2>1. /\ y.ring \in [active : Keys, keys : SUBSET Keys, rotating : BOOLEAN]
        /\ y.ring.active \in y.ring.keys
    BY <1>5 DEF Ring
  <2>2. /\ g \in [active : Keys, keys : SUBSET Keys, rotating : BOOLEAN]
        /\ g.keys = y.ring.keys /\ g.active = y.ring.active
        /\ g.rotating = (y.ring.rotating /\ y.at # "finish")
    BY <1>2, <2>1
  <2>3. g \in Ring
    BY <2>1, <2>2 DEF Ring
  <2>4. g.active \in Keys /\ g.keys \subseteq Keys
    BY <2>2
  <2>5. g # NoRing
    BY <2>1, <2>2, Rings
  <2> QED
    BY <2>1, <2>2, <2>3, <2>4, <2>5
<1>7. /\ rk'[c] = x /\ UNCHANGED <<master, ini, rot, edit, op>>
  BY <1>4, <1>5, RkSet
<1>8. /\ file' \in [Envs -> File \cup {None}] /\ clash' \subseteq Envs
      /\ \A d \in Envs : file[d] # None => file'[d] # None
      /\ StoreReadable' /\ RotKeys' /\ Stored' = g
  BY <1>4, <1>5, <1>6, <1>7, FileWritten, TargetAssumption
<1>9. /\ Stored.keys \cup loose \subseteq Stored'.keys \cup loose'
      /\ Held => loose \subseteq loose' /\ Stored'.keys \subseteq loose'
  BY <1>4, <1>5, <1>6, <1>8, Rings DEF Knows
<1>a. /\ x \in Command \cup {Idle}
      /\ x # Idle => /\ y.at = "begin" /\ x.at = "pass" /\ x.ring = y.ring /\ x.pass = 1
                     /\ x.after = 0 /\ x.count = y.count
  BY <1>3, <1>5 DEF Command, Passed
<1>b. x # Idle => Knows(x)' /\ Passed(x)'
  <2> SUFFICES ASSUME x # Idle PROVE Knows(x)' /\ Passed(x)'
    OBVIOUS
  <2>1. y.ring \in [active : Keys, keys : SUBSET Keys, rotating : BOOLEAN] /\ y.ring.rotating
    BY <1>5, <1>a DEF Ring, Knows
  <2>2. g = y.ring
    BY <1>2, <1>a, <2>1
  <2>3. y.after = 0 /\ y.count <= Cardinality({i \in Rows : i <= y.after})
    BY <1>5, <1>a DEF Passed
  <2> QED
    BY <1>8, <1>a, <2>1, <2>2, <2>3, NothingCounted DEF Knows, Passed
<1>c. RingsInv' /\ PassInv'
  BY <1>4, <1>5, <1>9, <1>b, RkRings
<1>d. CopiesInv'
  <2>1. CASE Held
    <3>1. ASSUME NEW q, Copy(q), y.at = "init" PROVE Copy(q)'
      <4>1. q.keys \subseteq loose
        BY <1>5, <3>1 DEF Copy, Knows
      <4>2. q.keys \subseteq loose' /\ Stored'.keys \subseteq loose'
        BY <1>9, <2>1, <4>1
      <4> QED
        BY <4>2 DEF Copy
    <3>2. rot # Idle \/ edit # Idle => y.at = "init"
      BY <1>5
    <3> QED
      BY <1>7, <1>9, <2>1, <3>1, <3>2 DEF Inv, DataPart, CopiesInv, Copies
  <2>2. CASE ~Held
    BY <1>7, <2>2 DEF Held, CopiesInv, Copies
  <2> QED
    BY <2>1, <2>2
<1>e. SecretsDecryptable'
  BY <1>4, <1>9 DEF Inv, DataPart, SecretsDecryptable
<1>f. RotationComplete'
  <2>1. ASSUME ~g.rotating, NEW i \in Rows \ late, row[i] \in g.keys PROVE row[i] = g.active
    <3>1. None \notin Keys
      BY NoneAssumption
    <3>2. CASE y.at = "init"
      BY <1>5, <1>6, <2>1, <3>2 DEF Knows
    <3>3. CASE y.at = "begin"
      BY <1>5, <1>6, <2>1, <3>3 DEF Knows
    <3>4. CASE y.at = "finish"
      BY <1>5, <1>6, <2>1, <3>1, <3>4 DEF Passed
    <3> QED
      BY <1>5, <3>2, <3>3, <3>4
  <2> QED
    BY <1>4, <1>8, <2>1 DEF RotationComplete
<1>g. DataPart'
  BY <1>c, <1>d, <1>e, <1>f DEF DataPart
<1>h. /\ drawn' \subseteq Masters \cup Keys /\ loose' \subseteq Keys
      /\ row' \in [Rows -> Keys \cup {None}] /\ late' \subseteq Rows
  BY <1>4, <1>6, Typed DEF Inv
<1> QED
  BY <1>4, <1>5, <1>8, <1>a, <1>g, <1>h, RkStep

-----------------------------------------------------------------------------
(* Batches.                                                                *)

\* A batch ends at its greatest id, and no row with a secret before that is
\* left out of it.
LEMMA BatchEnds ==
  ASSUME NEW n \in Nat, NextBatch(n) # {}
  PROVE  /\ NextBatch(n) \subseteq Rows /\ IsFiniteSet(NextBatch(n))
         /\ \A i \in NextBatch(n) : i > n /\ row[i] # None
         /\ Max(NextBatch(n)) \in NextBatch(n)
         /\ \A i \in NextBatch(n) : i <= Max(NextBatch(n))
         /\ \A i \in Rows : i > n /\ i <= Max(NextBatch(n)) /\ row[i] # None => i \in NextBatch(n)
<1>1. PICK p : p = Pending(n)
  OBVIOUS
<1>2. PICK b : b = NextBatch(n)
  OBVIOUS
<1>3. b = {i \in p : Cardinality({j \in p : j < i}) < Batch}
  BY <1>1, <1>2 DEF NextBatch
<1>4. p = {i \in Rows : i > n /\ row[i] # None}
  BY <1>1 DEF Pending
<1>5. /\ b \subseteq p /\ p \subseteq Rows /\ IsFiniteSet(p) /\ IsFiniteSet(b)
      /\ \A i \in Rows : i \in Nat
  BY <1>3, <1>4, RowsAssumption, FS_Subset
<1>6. PICK d \in b : \A e \in b : e <= d
  BY <1>2, <1>5, LastExists
<1>7. Max(b) \in b /\ \A i \in b : i <= Max(b)
  <2>1. \A i \in b : i \in Nat
    BY <1>5
  <2>2. \A e \in b : d >= e
    BY <1>6, <2>1
  <2>3. Max(b) \in b /\ \A i \in b : Max(b) >= i
    BY <2>2, Zenon DEF Max
  <2> QED
    BY <2>1, <2>3
<1>8. ASSUME NEW i \in Rows, i > n, i <= Max(b), row[i] # None PROVE i \in b
  <2>1. i \in p /\ i \in Nat /\ Max(b) \in Nat /\ \A j \in p : j \in Nat
    BY <1>4, <1>5, <1>7, <1>8
  <2>2. ASSUME NEW j \in p, j < i PROVE j < Max(b)
    BY <1>8, <2>1, <2>2
  <2>3. {j \in p : j < i} \subseteq {j \in p : j < Max(b)} /\ IsFiniteSet({j \in p : j < Max(b)})
        /\ IsFiniteSet({j \in p : j < i})
    BY <1>5, <2>2, FS_Subset
  <2>4. /\ Cardinality({j \in p : j < i}) <= Cardinality({j \in p : j < Max(b)})
        /\ Cardinality({j \in p : j < i}) \in Nat /\ Cardinality({j \in p : j < Max(b)}) \in Nat
    BY <2>3, FS_Subset, FS_CardinalityType
  <2>5. Cardinality({j \in p : j < Max(b)}) < Batch
    BY <1>3, <1>7
  <2> QED
    BY <1>3, <2>1, <2>4, <2>5, BatchAssumption
<1> QED
  BY <1>2, <1>4, <1>5, <1>7, <1>8

\* A pass that finds no further batch has gone by every secret.
LEMMA NothingPending ==
  ASSUME NEW n \in Nat, NextBatch(n) = {}, NEW i \in Rows, row[i] # None
  PROVE  i <= n
<1>1. PICK p : p = Pending(n)
  OBVIOUS
<1>2. {d \in p : Cardinality({j \in p : j < d}) < Batch} = {}
  BY <1>1 DEF NextBatch
<1>3. p = {d \in Rows : d > n /\ row[d] # None} /\ \A d \in Rows : d \in Nat
  BY <1>1, RowsAssumption DEF Pending
<1>4. p \in SUBSET Nat
  BY <1>3
<1>5. ASSUME p # {} PROVE FALSE
  <2>1. PICK d \in p : \A e \in p : d <= e
    BY <1>4, <1>5, FirstExists
  <2>a. ASSUME NEW j \in p, j < d PROVE FALSE
    <3>1. j \in Nat /\ d \in Nat /\ d <= j
      BY <1>4, <2>1
    <3> QED
      BY <2>a, <3>1
  <2>2. {j \in p : j < d} = {}
    BY <2>a
  <2>3. Cardinality({j \in p : j < d}) = 0
    BY <2>2, FS_EmptySet
  <2>4. Cardinality({j \in p : j < d}) < Batch
    BY <2>3, BatchAssumption
  <2> QED
    BY <1>2, <2>4
<1> QED
  BY <1>3, <1>5

\* What a batch rewrites was not counted before it.
LEMMA BatchCounted ==
  ASSUME NEW n \in Nat, NEW m \in Nat, NEW b \in SUBSET Rows, NEW w \in SUBSET b,
         \A i \in b : n < i /\ i <= m, n <= m
  PROVE  /\ Cardinality(w) \in Nat
         /\ Cardinality({i \in Rows : i <= n}) + Cardinality(w) <= Cardinality({i \in Rows : i <= m})
<1>1. PICK s : s = {i \in Rows : i <= n}
  OBVIOUS
<1>2. PICK t : t = {i \in Rows : i <= m}
  OBVIOUS
<1>3. \A i \in Rows : i \in Nat
  BY RowsAssumption
<1>4. s \subseteq t /\ b \subseteq t /\ s \cap b = {}
  BY <1>1, <1>2, <1>3
<1>5. IsFiniteSet(s) /\ IsFiniteSet(t) /\ IsFiniteSet(b) /\ IsFiniteSet(s \cup w) /\ IsFiniteSet(w)
  BY <1>1, <1>2, RowsAssumption, FS_Subset
<1>6. /\ Cardinality(s) \in Nat /\ Cardinality(t) \in Nat /\ Cardinality(w) \in Nat
      /\ Cardinality(s \cup w) \in Nat
  BY <1>5, FS_CardinalityType
<1>7. s \cap w = {} /\ s \cup w \subseteq t
  BY <1>4
<1>8. Cardinality(s \cap w) = 0
  BY <1>7, FS_EmptySet
<1>9. Cardinality(s \cup w) = Cardinality(s) + Cardinality(w) - Cardinality(s \cap w)
  BY <1>5, FS_Union
<1>a. Cardinality(s \cup w) <= Cardinality(t)
  BY <1>5, <1>7, FS_Subset
<1> QED
  BY <1>1, <1>2, <1>6, <1>8, <1>9, <1>a

LEMMA RkBatchInv ==
  ASSUME Inv, NEW c \in Cmds, RkBatch(c)
  PROVE  Inv'
<1>1. PICK y : y = rk[c]
  OBVIOUS
<1>2. PICK b : b = NextBatch(y.after)
  OBVIOUS
<1>3. PICK w : w = {i \in b : row[i] # y.ring.active}
  OBVIOUS
<1>4. PICK x : x = [y EXCEPT !.after = Max(b), !.count = @ + Cardinality(w)]
  OBVIOUS
<1>5. /\ rk[c] # Idle /\ y.at = "pass" /\ b # {}
      /\ row' = [i \in Rows |-> IF i \in b THEN y.ring.active ELSE row[i]]
      /\ late' = late \ b /\ Rk(c, x) /\ drawn' = drawn /\ SameFile
      /\ UNCHANGED loose /\ Stored' = Stored
  BY <1>1, <1>2, <1>3, <1>4 DEF RkBatch, SameFile, Stored
<1>6. /\ Alone(c) /\ y \in Command /\ y.ring.active \in Keys /\ y.ring.active \in y.ring.keys
      /\ Knows(y) /\ Passed(y) /\ rot = Idle /\ edit = Idle /\ master # None
      /\ y.after \in Nat /\ y.count \in Nat
  BY <1>1, <1>5, RkFacts
<1>7. /\ b \subseteq Rows /\ Max(b) \in b /\ Max(b) \in Rows /\ Max(b) \in Nat
      /\ \A i \in b : y.after < i /\ i <= Max(b)
      /\ \A i \in Rows : i > y.after /\ i <= Max(b) /\ row[i] # None => i \in b
  <2>1. \A i \in Rows : i \in Nat
    BY RowsAssumption
  <2>2. /\ b \subseteq Rows /\ Max(b) \in b /\ \A i \in b : i > y.after /\ i <= Max(b)
        /\ \A i \in Rows : i > y.after /\ i <= Max(b) /\ row[i] # None => i \in b
    BY <1>2, <1>5, <1>6, BatchEnds
  <2> QED
    BY <1>6, <2>1, <2>2
<1>8. /\ y.ring.rotating
      /\ Stored = y.ring \/ (Stored = NoRing /\ y.ring.keys \subseteq loose)
  BY <1>5, <1>6 DEF Knows
<1>9. Cardinality(w) \in Nat /\ y.count + Cardinality(w) <= Cardinality({i \in Rows : i <= Max(b)})
  <2>1. /\ Cardinality(w) \in Nat
        /\ Cardinality({i \in Rows : i <= y.after}) + Cardinality(w)
             <= Cardinality({i \in Rows : i <= Max(b)})
    <3>1. /\ w \in SUBSET b /\ b \in SUBSET Rows /\ y.after <= Max(b)
          /\ y.after \in Nat /\ Max(b) \in Nat /\ \A i \in b : y.after < i /\ i <= Max(b)
      BY <1>3, <1>6, <1>7
    <3> QED
      BY <3>1, BatchCounted, Zenon
  <2>2. y.count <= Cardinality({i \in Rows : i <= y.after})
    BY <1>6 DEF Passed
  <2>3. /\ Cardinality({i \in Rows : i <= y.after}) \in Nat
        /\ Cardinality({i \in Rows : i <= Max(b)}) \in Nat
    BY <1>6, <1>7, NoneBelow
  <2> QED
    BY <1>6, <2>1, <2>2, <2>3
<1>a. y.count + Cardinality(w) \in 0 .. Cardinality(Rows)
  <2>1. /\ Cardinality({i \in Rows : i <= Max(b)}) <= Cardinality(Rows) /\ Cardinality(Rows) \in Nat
        /\ Cardinality({i \in Rows : i <= Max(b)}) \in Nat
    BY <1>7, NoneBelow
  <2> QED
    BY <1>6, <1>9, <2>1
<1>b. x \in Command /\ x.at = "pass" /\ x.ring = y.ring /\ x.pass = y.pass /\ x.after = Max(b)
      /\ x.count = y.count + Cardinality(w)
  BY <1>4, <1>5, <1>6, <1>7, <1>a DEF Command
<1>c. ASSUME NEW i \in Rows \ late', i <= x.after \/ x.pass = 2
      PROVE  row'[i] \in {None, x.ring.active}
  <2>1. CASE i \in b
    BY <1>5, <1>b, <2>1
  <2>2. CASE i \notin b
    <3>1. i \notin late /\ row'[i] = row[i] /\ i \in Nat
      BY <1>5, <2>2, RowsAssumption
    <3>2. CASE i <= y.after \/ y.pass = 2
      BY <1>5, <1>6, <1>b, <3>1, <3>2 DEF Passed
    <3>3. CASE i > y.after /\ y.pass # 2
      BY <1>7, <1>b, <1>c, <2>2, <3>1, <3>3
    <3> QED
      BY <1>6, <3>1, <3>2, <3>3
  <2> QED
    BY <2>1, <2>2
<1>d. Knows(x)' /\ Passed(x)'
  BY <1>5, <1>8, <1>9, <1>b, <1>c DEF Knows, Passed
<1>e. SecretsDecryptable'
  <2> SUFFICES ASSUME NEW i \in Rows, row'[i] # None PROVE row'[i] \in Stored.keys \cup loose
    BY <1>5 DEF SecretsDecryptable
  <2> QED
    BY <1>5, <1>6, <1>8 DEF Inv, DataPart, SecretsDecryptable
<1>f. RotationComplete'
  BY <1>5, <1>8, Rings DEF RotationComplete
<1>g. /\ drawn' \subseteq Masters \cup Keys
      /\ row' \in [Rows -> Keys \cup {None}] /\ late' \subseteq Rows
  BY <1>5, <1>6, Typed DEF Inv
<1> QED
  BY <1>5, <1>6, <1>b, <1>d, <1>e, <1>f, <1>g, RkStays

\* The first pass starts the second, which ends only if it rewrote nothing.
LEMMA RkPassEndsInv ==
  ASSUME Inv, NEW c \in Cmds, RkPassEnds(c)
  PROVE  Inv'
<1>1. PICK y : y = rk[c]
  OBVIOUS
<1>2. /\ rk[c] # Idle /\ y.at = "pass" /\ NextBatch(y.after) = {}
      /\ SameFile /\ Data /\ drawn' \subseteq Masters \cup Keys
      /\ \/ y.pass = 1 /\ Rk(c, [y EXCEPT !.pass = 2, !.after = 0, !.count = 0])
         \/ Rk(c, [y EXCEPT !.at = "finish"])
         \/ Rk(c, Idle)
  BY <1>1, Typed DEF RkPassEnds, Inv
<1>3. /\ Alone(c) /\ y \in Command /\ Knows(y) /\ Passed(y) /\ rot = Idle /\ edit = Idle
      /\ master # None /\ y.after \in Nat /\ y.count \in Nat
  BY <1>1, <1>2, RkFacts
<1>4. UNCHANGED <<row, late, loose>> /\ Stored' = Stored
  BY <1>2, DataStays DEF Data, SameFile
<1>5. \A i \in Rows \ late : row[i] \in {None, y.ring.active}
  BY <1>2, <1>3, NothingPending DEF Passed
<1>6. y.count <= Cardinality({i \in Rows : i <= y.after})
  BY <1>3 DEF Passed
<1>7. PICK x \in Command \cup {Idle} :
        /\ Rk(c, x)
        /\ x # Idle => /\ x.ring = y.ring /\ x.at \in {"pass", "finish"}
                       /\ \/ x.after = 0 /\ x.count = 0
                          \/ x.after = y.after /\ x.count = y.count
  <2>1. CASE Rk(c, [y EXCEPT !.pass = 2, !.after = 0, !.count = 0])
    <3>1. PICK x : x = [y EXCEPT !.pass = 2, !.after = 0, !.count = 0]
      OBVIOUS
    <3>2. x \in Command /\ x.ring = y.ring /\ x.at = "pass" /\ x.after = 0 /\ x.count = 0
      BY <1>2, <1>3, <3>1, NothingCounted DEF Command
    <3> QED
      BY <2>1, <3>1, <3>2
  <2>2. CASE Rk(c, [y EXCEPT !.at = "finish"])
    <3>1. PICK x : x = [y EXCEPT !.at = "finish"]
      OBVIOUS
    <3>2. x \in Command /\ x.ring = y.ring /\ x.at = "finish" /\ x.after = y.after /\ x.count = y.count
      BY <1>3, <3>1 DEF Command
    <3> QED
      BY <2>2, <3>1, <3>2
  <2>3. CASE Rk(c, Idle)
    BY <2>3
  <2> QED
    BY <1>2, <2>1, <2>2, <2>3
<1>8. x # Idle => Knows(x)' /\ Passed(x)'
  BY <1>2, <1>3, <1>4, <1>5, <1>6, <1>7, NothingCounted DEF Knows, Passed
<1> QED
  BY <1>2, <1>3, <1>7, <1>8, RkStays, DataStays

-----------------------------------------------------------------------------
(* Servers and workers.                                                    *)

\* They leave the store and the commands alone.
LEMMA OpStep ==
  ASSUME Inv, NEW o \in Ops, NEW r, (r = Stored /\ Stored # NoRing) \/ r = None, Serve(o, r),
         row' \in [Rows -> Keys \cup {None}], late' \subseteq Rows,
         PassInv', SecretsDecryptable', RotationComplete'
  PROVE  Inv'
<1>1. /\ UNCHANGED <<master, file, clash, drawn, ini, rot, edit, rk, loose>> /\ Stored' = Stored
      /\ op' = [op EXCEPT ![o] = r]
  BY DEF Serve, store, Stored
<1>2. op \in [Ops -> (Ring \ {NoRing}) \cup {None}] /\ Stored \in Ring
  BY Typed DEF Inv
<1>3. /\ op' \in [Ops -> (Ring \ {NoRing}) \cup {None}]
      /\ op'[o] = r /\ \A p \in Ops \ {o} : op'[p] = op[p]
  BY <1>1, <1>2
<1>4. TypeOK'
  BY <1>1, <1>3, StepTyped, Typed, NoneAssumption DEF Inv
<1>5. StorePart'
  BY <1>1 DEF Inv, StorePart, AloneInv, NoRotation, MasterInv, PresentInv, RotKeys,
     StoreReadable, Readable
<1>6. CopiesInv'
  BY <1>1 DEF Inv, DataPart, CopiesInv, Copies, Copy
<1>7. RingsInv'
  BY <1>1, <1>3 DEF Inv, DataPart, RingsInv, Knows
<1> QED
  BY <1>4, <1>5, <1>6, <1>7 DEF Inv, DataPart

\* No secret has changed.
LEMMA OpStays ==
  ASSUME Inv, NEW o \in Ops, NEW r, (r = Stored /\ Stored # NoRing) \/ r = None, Serve(o, r), Data
  PROVE  Inv'
<1>1. SameFile /\ UNCHANGED <<rk, row, late>>
  BY DEF Serve, store, SameFile, Data
<1>2. PassInv'
  BY <1>1 DEF Inv, DataPart, PassInv, Passed
<1> QED
  BY <1>1, <1>2, OpStep, DataStays

LEMMA OpLoadInv ==
  ASSUME Inv, NEW o \in Ops, OpLoad(o)
  PROVE  Inv'
BY OpStays DEF OpLoad

LEMMA OpEndsInv ==
  ASSUME Inv, NEW o \in Ops, OpEnds(o)
  PROVE  Inv'
BY OpStays DEF OpEnds

\* A secret is written or removed: under the stored ring, late, or no more.
LEMMA OpRow ==
  ASSUME Inv, NEW o \in Ops, NEW i \in Rows, NEW k \in Keys \cup {None}, Serve(o, None),
         row' = [row EXCEPT ![i] = k], k # None => k \in Stored.keys \cup loose,
         \/ late' = late \cup {i}
         \/ late' = late \ {i} /\ k = None
         \/ late' = late \ {i} /\ k = Stored.active /\ ~Stored.rotating /\ Stored # NoRing
  PROVE  Inv'
<1>1. UNCHANGED <<rk, loose>> /\ Stored' = Stored
  BY DEF Serve, store, Stored
<1>2. row \in [Rows -> Keys \cup {None}] /\ late \subseteq Rows
  BY Typed DEF Inv
<1>3. /\ row' \in [Rows -> Keys \cup {None}] /\ row'[i] = k
      /\ \A j \in Rows \ {i} : row'[j] = row[j]
  BY <1>2
<1>4. late' \subseteq Rows /\ \A j \in Rows \ late' : j # i => j \notin late
  BY <1>2
<1>5. PassInv'
  <2> SUFFICES ASSUME NEW c \in Cmds, rk[c] # Idle PROVE Passed(rk[c])'
    BY <1>1 DEF PassInv
  <2>1. PICK y : y = rk[c]
    OBVIOUS
  <2>2. Passed(y) /\ Knows(y) /\ y = rk'[c]
    BY <1>1, <2>1, RkFacts
  <2>3. ASSUME y.at \in {"pass", "finish"}, NEW j \in Rows \ late',
               j = i \/ row[j] \in {None, y.ring.active}
        PROVE  row'[j] \in {None, y.ring.active}
    BY <1>1, <1>3, <2>2, <2>3 DEF Knows
  <2>4. Passed(y)'
    BY <1>4, <2>2, <2>3 DEF Passed
  <2> QED
    BY <2>2, <2>4 DEF Passed
<1>6. SecretsDecryptable'
  BY <1>1, <1>3 DEF Inv, DataPart, SecretsDecryptable
<1>7. RotationComplete'
  <2>1. None \notin Stored.keys
    BY Typed, Rings, NoneAssumption DEF Inv
  <2> QED
    BY <1>1, <1>3, <1>4, <2>1 DEF Inv, DataPart, RotationComplete
<1> QED
  BY <1>3, <1>4, <1>5, <1>6, <1>7, OpStep

LEMMA OpWriteInv ==
  ASSUME Inv, NEW o \in Ops, OpWrite(o)
  PROVE  Inv'
<1>1. PICK r : r = op[o]
  OBVIOUS
<1>2. PICK i \in Rows : /\ row' = [row EXCEPT ![i] = r.active]
                        /\ late' = (IF r = Stored THEN late \ {i} ELSE late \cup {i})
  BY <1>1 DEF OpWrite
<1>3. Serve(o, None) /\ r # None /\ ~r.rotating
  BY <1>1 DEF OpWrite
<1>4. /\ r \in Ring /\ r # NoRing /\ r.active \in Keys /\ r.active \in r.keys
      /\ r.keys \subseteq Stored.keys \cup loose
  <2>1. r \in Ring /\ r # NoRing
    BY <1>1, <1>3, Typed DEF Inv
  <2> QED
    BY <1>1, <1>3, <2>1, Rings DEF Inv, DataPart, RingsInv
<1>5. PICK k \in Keys \cup {None} : k = r.active
  BY <1>4
<1> QED
  BY <1>2, <1>3, <1>4, <1>5, OpRow

LEMMA OpClearInv ==
  ASSUME Inv, NEW o \in Ops, OpClear(o)
  PROVE  Inv'
<1>1. PICK i \in Rows : row' = [row EXCEPT ![i] = None] /\ late' = late \ {i}
  BY DEF OpClear
<1>2. PICK k \in Keys \cup {None} : k = None
  OBVIOUS
<1> QED
  BY <1>1, <1>2, OpRow DEF OpClear

-----------------------------------------------------------------------------
(* The theorems.                                                           *)

LEMMA InitInv == Init => Inv
<1> SUFFICES ASSUME Init PROVE Inv
  OBVIOUS
<1>1. TypeOK
  <2>1. file \in [Envs -> File \cup {None}] /\ op \in [Ops -> (Ring \ {NoRing}) \cup {None}]
        /\ row \in [Rows -> Keys \cup {None}]
    BY DEF Init
  <2>2. rk \in [Cmds -> Command \cup {Idle}] /\ ini \in [Inits -> Initialising \cup {Idle}]
    BY DEF Init
  <2> QED
    BY <2>1, <2>2, Zenon DEF Init, TypeOK, Command, Initialising
<1>2. Stored = NoRing /\ NoRing.keys = {}
  BY TargetAssumption, Rings DEF Init, Stored
<1>3. StorePart
  BY DEF Init, StorePart, AloneInv, NoRotation, MasterInv, PresentInv, RotKeys, StoreReadable
<1>4. DataPart
  BY <1>2
  DEF Init, DataPart, CopiesInv, Copies, RingsInv, PassInv, SecretsDecryptable, RotationComplete
<1> QED
  BY <1>1, <1>3, <1>4 DEF Inv

LEMMA StoreNext ==
  Inv /\ (RotateKey \/ EditKey \/ EditWrite \/ EditEnds \/ \E e \in Envs : EditOpen(e)) => Inv'
<1> SUFFICES ASSUME Inv, RotateKey \/ EditKey \/ EditWrite \/ EditEnds \/ \E e \in Envs : EditOpen(e)
             PROVE  Inv'
  OBVIOUS
<1>1. CASE RotLoad
  BY <1>1, RotLoadInv
<1>2. CASE RotBackup
  BY <1>2, RotBackupInv
<1>3. CASE \E e \in Envs : RotDual(e)
  BY <1>3, RotDualInv
<1>4. CASE RotMaster
  BY <1>4, RotMasterInv
<1>5. CASE RotFails
  BY <1>5, RotFailsInv
<1>6. CASE \E e \in Envs : Undo(e)
  BY <1>6, UndoInv
<1>7. CASE UndoMaster \/ RotEnds
  BY <1>7, RotEndsInv
<1>8. CASE \E e \in Envs : RotFinal(e)
  BY <1>8, RotFinalInv
<1>9. CASE EditKey \/ EditEnds
  BY <1>9, EditKeyInv, EditEndsInv
<1>a. CASE EditWrite
  BY <1>a, EditWriteInv
<1>b. CASE \E e \in Envs : EditOpen(e)
  BY <1>b, EditOpenInv
<1> QED
  BY <1>1, <1>2, <1>3, <1>4, <1>5, <1>6, <1>7, <1>8, <1>9, <1>a, <1>b DEF RotateKey

LEMMA StutterInv == Inv /\ UNCHANGED vars => Inv'
<1> SUFFICES ASSUME Inv, UNCHANGED vars PROVE Inv'
  OBVIOUS
<1>1. UNCHANGED <<master, file, clash, drawn, ini, rot, edit, rk, op, row, late, loose>>
  BY DEF vars, store
<1>2. TypeOK'
  BY <1>1, StepTyped, Typed, NoneAssumption DEF Inv
<1>3. StorePart'
  BY <1>1 DEF Inv, StorePart, AloneInv, NoRotation, MasterInv, PresentInv, RotKeys,
     StoreReadable, Readable
<1>4. DataPart'
  <2>1. Stored' = Stored /\ Stored \in Ring /\ Copy(Stored) /\ Copies(edit', rot', ini')
    BY <1>1, CopiesNow DEF Stored
  <2> QED
    BY <1>1, <2>1, DataStep
<1> QED
  BY <1>2, <1>3, <1>4 DEF Inv

LEMMA NextInv == Inv /\ [Next]_vars => Inv'
<1> SUFFICES ASSUME Inv, [Next]_vars PROVE Inv'
  OBVIOUS
<1>1. ASSUME NEW i \in Inits,
             InitLoad(i) \/ InitMaster(i) \/ InitEnds(i) \/ \E e \in Envs : InitFile(i, e)
      PROVE  Inv'
  BY <1>1, InitLoadInv, InitMasterInv, InitEndsInv, InitFileInv
<1>2. CASE RotateKey \/ EditKey \/ EditWrite \/ EditEnds \/ \E e \in Envs : EditOpen(e)
  BY <1>2, StoreNext
<1>3. ASSUME NEW c \in Cmds,
             RkInit(c) \/ RkBegin(c) \/ RkKey(c) \/ RkSave(c) \/ RkBatch(c) \/ RkPassEnds(c) \/ RkEnds(c)
      PROVE  Inv'
  BY <1>3, RkInitInv, RkBeginInv, RkKeyInv, RkSaveInv, RkBatchInv, RkPassEndsInv, RkEndsInv
<1>4. ASSUME NEW o \in Ops, OpLoad(o) \/ OpWrite(o) \/ OpClear(o) \/ OpEnds(o)
      PROVE  Inv'
  BY <1>4, OpLoadInv, OpWriteInv, OpClearInv, OpEndsInv
<1>5. CASE UNCHANGED vars
  BY <1>5, StutterInv
<1> QED
  BY <1>1, <1>2, <1>3, <1>4, <1>5 DEF Next

LEMMA InvHolds == Spec => []Inv
BY InitInv, NextInv, PTL DEF Spec

(* The key, the files, the commands and the secrets stay well formed, and a  *)
(* rotation that has left its first stage has a backup to restore            *)
(* (internal/secrets/secrets.go).                                            *)
THEOREM TypeCorrect == Spec => []TypeOK
<1>1. Inv => TypeOK
  BY DEF Inv
<1> QED
  BY <1>1, InvHolds, PTL

(* Whatever command fails or is killed at whatever step, whichever others    *)
(* run beside it, the master key in place decrypts every file but those      *)
(* written for a key another command was replacing; every stored secret is   *)
(* under a key of the stored ring, or one saved while another command held   *)
(* an older copy of the file; and a finished rotation has left none it can   *)
(* open under an old key but those of late writers (secrets.go:171,          *)
(* recordsecret.go save, record_secret_rotation.go:19).                      *)
THEOREM SecretsHeld == Spec => []SecretsSurvive
<1>1. Inv => SecretsSurvive
  BY DEF Inv, StorePart, DataPart, SecretsSurvive
<1> QED
  BY <1>1, InvHolds, PTL
=============================================================================
