------------------------------ MODULE Lockable ------------------------------
(***************************************************************************)
(* DataModel::LockableItem: the lock that every route, track, switch,        *)
(* signal and accessory carries.  A lock is a record of the state and of     *)
(* the locomotive (LocoBase) that owns it.  The three operations are tests   *)
(* and results over that record; each runs under the item's lockMutex, so a  *)
(* specification uses each of them in one atomic step.                       *)
(*                                                                           *)
(* The lock is not counted: a second Reserve of the same owner is granted    *)
(* and changes nothing, and one Release frees the item however often it was  *)
(* reserved.                                                                 *)
(***************************************************************************)

CONSTANTS
  Locos,   \* the object identifiers of locomotives and multiple units
  None     \* the empty ObjectIdentifier

ASSUME NoneIsNoLoco == None \notin Locos

(***************************************************************************)
(* Type definitions                                                          *)
(***************************************************************************)
LockStates == {"Free", "Reserved", "SoftLocked", "HardLocked"}

Owners == Locos \cup {None}

Locks == [state : LockStates, owner : Owners]

FreeLock == [state |-> "Free", owner |-> None]

(***************************************************************************)
(* Observers                                                                 *)
(***************************************************************************)
InUse(k) == k.state # "Free" \/ k.owner # None

(***************************************************************************)
(* Reserve: granted to the present owner, or to anybody when the item is     *)
(* free and unowned.  An owner that already holds a lock keeps its state.    *)
(***************************************************************************)
\* A fault: only hard locks keep others out.
CanReserveReserved(k, id) == k.owner = id \/ k.state # "HardLocked"

CanReserve(k, id) == k.owner = id \/ ~InUse(k)

Reserved(k, id) ==
  IF k.owner = id /\ k.state # "Free"
  THEN k
  ELSE [state |-> "Reserved", owner |-> id]

(***************************************************************************)
(* Lock: only what the caller itself has reserved (or locked) before.        *)
(***************************************************************************)
CanLock(k, id) == k.owner = id /\ k.state \in {"Reserved", "HardLocked"}

Locked(k) == [k EXCEPT !.state = "HardLocked"]

(***************************************************************************)
(* Release: by the owner, or by the empty identifier, which frees the item   *)
(* whoever owns it.                                                          *)
(***************************************************************************)
\* A fault: the owner is not asked.
CanReleaseAny(k, id) == InUse(k) \/ id = k.owner

CanRelease(k, id) == id = None \/ k.owner = id

Released(k, id) == IF CanRelease(k, id) THEN FreeLock ELSE k

(***************************************************************************)
(* A lock that was only ever operated on by locomotives, and released by     *)
(* anybody, is owned exactly when it is not free.                            *)
(***************************************************************************)
Consistent(k) == k.owner = None <=> k.state = "Free"
=============================================================================
