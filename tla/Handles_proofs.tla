----------------------------- MODULE Handles_proofs -----------------------------
(***************************************************************************)
(* Ownership of handles and the order of MPI's calls (Handles and          *)
(* Environment) for any number of objects, handles, environments and       *)
(* types.  The program moves no Group that does not own what it holds      *)
(* (~MovesBorrowed): for one that does the properties are false.           *)
(***************************************************************************)
EXTENDS Handles, TLAPS, FiniteSetTheorems

(* What an Environment that initializes MPI has done is done before it is   *)
(* alive: its destructor finalizes nothing that was not initialized.        *)
EnvInitialized ==
  \A e \in Env : Alive(e) /\ mode[e] # "NoInitFinalize" => initialized

(* MPIAllows without a cardinality.                                         *)
OneFinalizes ==
  \A d, e \in Env : env[d] = "finalizes" /\ env[e] = "finalizes" => d = e

EnvInv ==
  /\ EnvTypeOK
  /\ trouble = {}
  /\ EnvInitialized
  /\ OneFinalizes
  /\ \A e \in Env : env[e] = "finalizes" => initialized
  /\ finalized => registered = {}

(* A handle somebody holds was made by MPI at some time: what a group that  *)
(* is moved takes over is there to be freed.                                *)
HeldWasMade == \A o \in Object : handle[o] \in open \cup freed \cup {Null}

OwnInv == OwnershipInv /\ HeldWasMade

IInv == ~MovesBorrowed /\ EnvInv /\ OwnInv

--------------------------------------------------------------------------------
(* Environment                                                              *)

LEMMA EnvInitInv == EnvInit => EnvInv
BY ModesAssumption
   DEF EnvInit, EnvInv, EnvTypeOK, EnvInitialized, OneFinalizes, Alive, initialized, finalized

LEMMA ConstructInv ==
  ASSUME EnvInv, NEW e \in Env, Construct(e)
  PROVE  EnvInv'
BY ModesAssumption
   DEF Construct, Constructed, init, MPI_Init, EnvInv, EnvTypeOK, EnvInitialized, OneFinalizes,
       Alive, initialized, finalized

LEMMA DestroyInv ==
  ASSUME EnvInv, NEW e \in Env, Destroy(e)
  PROVE  EnvInv'
<1>1. CASE ToFinalize(e)
  <2>1. mpi = "running"
    BY <1>1 DEF ToFinalize, Finalizes, Destroy, EnvInv, EnvTypeOK, EnvInitialized, Alive,
                initialized, finalized
  <2> QED
    BY <1>1, <2>1 DEF Destroy, MPI_Finalize, free_registered_mpi_types, EnvInv, EnvTypeOK,
                      EnvInitialized, OneFinalizes, Alive, initialized, finalized
<1>2. CASE ~ToFinalize(e)
  BY <1>2 DEF Destroy, EnvInv, EnvTypeOK, EnvInitialized, OneFinalizes, Alive, initialized,
              finalized
<1> QED BY <1>1, <1>2

LEMMA TypesInv ==
  ASSUME EnvInv, NEW t \in Type,
         Commit(t) \/ CommitAndRegister(t) \/ Register(t) \/ FreeType(t)
  PROVE  EnvInv'
BY DEF Commit, CommitAndRegister, commit, Register, FreeType, EnvInv, EnvTypeOK, EnvInitialized,
       OneFinalizes, Alive, initialized, finalized

LEMMA EnvNextInv == EnvInv /\ EnvNext => EnvInv'
<1> SUFFICES ASSUME EnvInv, EnvNext
             PROVE  EnvInv'
  OBVIOUS
<1>1. ASSUME NEW e \in Env, Initialize(e)
      PROVE  EnvInv'
  BY <1>1 DEF Initialize, init, MPI_Init, EnvInv, EnvTypeOK, EnvInitialized, OneFinalizes,
              Alive, initialized, finalized
<1>2. ASSUME NEW e \in Env, Finalize(e)
      PROVE  EnvInv'
  BY <1>2 DEF Finalize, MPI_Finalize, free_registered_mpi_types, EnvInv, EnvTypeOK,
              EnvInitialized, OneFinalizes, Alive, initialized, finalized
<1>3. CASE FreeRegistered
  BY <1>3 DEF FreeRegistered, free_registered_mpi_types, EnvInv, EnvTypeOK, EnvInitialized,
              OneFinalizes, Alive, initialized, finalized
<1> QED BY <1>1, <1>2, <1>3, ConstructInv, DestroyInv, TypesInv DEF EnvNext

(* The part of the inductive invariant that TLC checks.                     *)
LEMMA EnvInvMPIAllows == EnvInv => MPIAllows
<1> SUFFICES ASSUME EnvInv
             PROVE  Cardinality({e \in Env : env[e] = "finalizes"}) <= 1
  BY DEF EnvInv, MPIAllows
<1> DEFINE F == {e \in Env : env[e] = "finalizes"}
<1>1. CASE F = {}
  BY <1>1, FS_EmptySet
<1>2. CASE F # {}
  <2>1. PICK e \in F : F = {e}
    BY <1>2 DEF EnvInv, OneFinalizes
  <2> QED BY SMTT(60), <2>1, FS_Singleton
<1> QED BY <1>1, <1>2

--------------------------------------------------------------------------------
(* Objects                                                                  *)

Others == <<mode, env, mpi, committed, registered>>

LEMMA InitOwnInv == Init => OwnInv
BY ObjectsDisjoint, EnvInitInv
   DEF Init, OwnInv, OwnershipInv, TypeOK, OneOwner, OwnsItsOwn, NoneLost, HeldWasMade, Handle,
       EnvInv

LEMMA RawInv ==
  ASSUME OwnInv, UNCHANGED Others, NEW h \in Handle, MakeRaw(h) \/ FreeRaw(h)
  PROVE  OwnInv' /\ UNCHANGED trouble
<1>1. CASE MakeRaw(h)
  <2>1. TypeOK' /\ HeldWasMade' /\ UNCHANGED trouble
    BY <1>1
       DEF Others, MakeRaw, OwnInv, OwnershipInv, TypeOK, EnvTypeOK, HeldWasMade, Handle
  <2>2. OneOwner' /\ OwnsItsOwn' /\ NoneLost'
    BY <1>1 DEF MakeRaw, OwnInv, OwnershipInv, TypeOK, OneOwner, OwnsItsOwn, NoneLost
  <2> QED BY <2>1, <2>2 DEF OwnInv, OwnershipInv
<1>2. CASE FreeRaw(h)
  <2>1. h \in open /\ {h} \subseteq open \ {World}
    BY <1>2 DEF FreeRaw, OwnInv, OwnershipInv, TypeOK
  <2>2. /\ h \in raw \ {World} /\ raw' = raw \ {h}
        /\ open' = open \ {h} /\ freed' = freed \cup {h}
        /\ UNCHANGED <<alive, handle, owns, trouble>>
    BY <1>2, <2>1 DEF FreeRaw, Freeing
  <2>3. TypeOK' /\ HeldWasMade'
    BY <2>2 DEF Others, OwnInv, OwnershipInv, TypeOK, EnvTypeOK, HeldWasMade
  <2>4. OneOwner' /\ OwnsItsOwn' /\ NoneLost'
    BY <2>2 DEF OwnInv, OwnershipInv, OneOwner, OwnsItsOwn, NoneLost
  <2> QED BY <2>2, <2>3, <2>4 DEF OwnInv, OwnershipInv
<1> QED BY <1>1, <1>2

(* An object that is made, whatever it is made from: it holds a new handle, *)
(* or it is no owner.                                                       *)
LEMMA MadeInv ==
  ASSUME OwnInv, UNCHANGED Others, NEW o \in Object \ alive,
         Make(o) \/ Combine(o) \/ MakeEmpty(o) \/ (\E p \in Object : CopyConstruct(o, p))
  PROVE  OwnInv' /\ UNCHANGED trouble
BY ObjectsDisjoint
   DEF Others, Make, Combine, MakeEmpty, CopyConstruct, Holds, Fresh, HandlesOf, Object, OwnInv,
       OwnershipInv, TypeOK, EnvTypeOK, OneOwner, OwnsItsOwn, NoneLost, HeldWasMade, Handle

LEMMA WrapInv ==
  ASSUME OwnInv, UNCHANGED Others, NEW o \in Object, NEW h \in Handle, NEW owning \in BOOLEAN,
         Wrap(o, h, owning)
  PROVE  OwnInv' /\ UNCHANGED trouble
BY ObjectsDisjoint
   DEF Others, Wrap, Holds, HandlesOf, Object, OwnInv, OwnershipInv, TypeOK, EnvTypeOK, OneOwner,
       OwnsItsOwn, NoneLost, HeldWasMade, Handle

LEMMA DisownInv ==
  ASSUME OwnInv, UNCHANGED Others, NEW o \in Object, Disown(o)
  PROVE  OwnInv' /\ UNCHANGED trouble
BY ObjectsDisjoint
   DEF Others, Disown, Object, OwnInv, OwnershipInv, TypeOK, EnvTypeOK, OneOwner, OwnsItsOwn,
       NoneLost, HeldWasMade, Handle

LEMMA DestroyObjectInv ==
  ASSUME OwnInv, UNCHANGED Others, NEW o \in Object, DestroyObject(o)
  PROVE  OwnInv' /\ UNCHANGED trouble
<1>1. CASE o \in owns
  <2>1. handle[o] \in open \ raw /\ {handle[o]} \subseteq open \ {World}
    BY <1>1 DEF OwnInv, OwnershipInv, TypeOK, OwnsItsOwn
  <2>2. /\ alive' = alive \ {o} /\ handle' = [handle EXCEPT ![o] = Null] /\ owns' = owns \ {o}
        /\ open' = open \ {handle[o]} /\ freed' = freed \cup {handle[o]}
        /\ UNCHANGED <<raw, trouble>>
    BY <1>1, <2>1 DEF DestroyObject, Freeing
  <2>3. TypeOK' /\ HeldWasMade'
    BY <2>1, <2>2 DEF Others, OwnInv, OwnershipInv, TypeOK, EnvTypeOK, HeldWasMade
  <2>4. OneOwner' /\ OwnsItsOwn' /\ NoneLost'
    BY <1>1, <2>1, <2>2
       DEF OwnInv, OwnershipInv, TypeOK, OneOwner, OwnsItsOwn, NoneLost
  <2> QED BY <2>2, <2>3, <2>4 DEF OwnInv, OwnershipInv
<1>2. CASE o \notin owns
  BY <1>2
     DEF Others, DestroyObject, OwnInv, OwnershipInv, TypeOK, EnvTypeOK, OneOwner, OwnsItsOwn,
         NoneLost, HeldWasMade
<1> QED BY <1>1, <1>2

LEMMA SwapInv ==
  ASSUME OwnInv, UNCHANGED Others, NEW o \in Object, NEW p \in Object, Swap(o, p)
  PROVE  OwnInv' /\ UNCHANGED trouble
<1>1. TypeOK' /\ HeldWasMade' /\ UNCHANGED trouble
  BY ObjectsDisjoint
     DEF Others, Swap, Swapped, HandlesOf, Object, OwnInv, OwnershipInv, TypeOK, EnvTypeOK,
         HeldWasMade, Handle
<1>2. OneOwner' /\ OwnsItsOwn' /\ NoneLost'
  BY DEF Swap, Swapped, Object, OwnInv, OwnershipInv, TypeOK, OneOwner, OwnsItsOwn, NoneLost
<1> QED BY <1>1, <1>2 DEF OwnInv, OwnershipInv

LEMMA CopyAssignInv ==
  ASSUME OwnInv, UNCHANGED Others, NEW o \in Object, NEW p \in Object, CopyAssign(o, p)
  PROVE  OwnInv' /\ UNCHANGED trouble
<1>1. PICK h \in Fresh(o) :
        /\ handle' = [handle EXCEPT ![o] = h]
        /\ owns' = owns \cup {o}
        /\ IF o \in owns
           THEN open' = (open \cup {h}) \ {handle[o]} /\ freed' = freed \cup {handle[o]}
           ELSE open' = open \cup {h} /\ UNCHANGED freed
        /\ UNCHANGED <<alive, raw, trouble>>
  BY DEF CopyAssign, OwnInv, OwnershipInv, OwnsItsOwn
<1>2. /\ o \in Comms \cap alive
      /\ h \in CommHandle \ (open \cup freed)
      /\ o \in owns => handle[o] \in open \ raw
  BY <1>1 DEF CopyAssign, Fresh, HandlesOf, OwnInv, OwnershipInv, OwnsItsOwn
<1>3. TypeOK' /\ HeldWasMade'
  BY <1>1, <1>2, ObjectsDisjoint
     DEF Others, HandlesOf, OwnInv, OwnershipInv, TypeOK, EnvTypeOK, HeldWasMade, Handle, Object
<1>4. OneOwner' /\ OwnsItsOwn'
  BY <1>1, <1>2 DEF OwnInv, OwnershipInv, TypeOK, OneOwner, OwnsItsOwn, Object
<1>5. NoneLost'
  BY <1>1, <1>2 DEF OwnInv, OwnershipInv, TypeOK, OwnsItsOwn, OneOwner, NoneLost, Object
<1> QED BY <1>1, <1>3, <1>4, <1>5 DEF OwnInv, OwnershipInv

(* The object that is moved from is the owner, or it is a group whose       *)
(* handle nobody is to free.                                                *)
LEMMA MoveTakesOver ==
  ASSUME OwnInv, ~MovesBorrowed, NEW o \in Object, NEW p \in Object, SameClass(o, p), MayMove(p),
         OwnsAfterMove(o, p)
  PROVE  /\ handle[p] \in open \ raw
         /\ \A q \in owns : handle[q] = handle[p] => q = p
BY ObjectsDisjoint
   DEF SameClass, MayMove, OwnsAfterMove, HandlesOf, Object, OwnInv, OwnershipInv, TypeOK,
       OneOwner, OwnsItsOwn, HeldWasMade, Handle

LEMMA MoveConstructInv ==
  ASSUME OwnInv, UNCHANGED Others, ~MovesBorrowed, NEW o \in Object, NEW p \in Object,
         MoveConstruct(o, p)
  PROVE  OwnInv' /\ UNCHANGED trouble
<1>1. TypeOK' /\ HeldWasMade'
  BY ObjectsDisjoint
     DEF Others, MoveConstruct, SameClass, MayMove, Releases, Leftover, HandlesOf, Object, OwnInv,
         OwnershipInv, TypeOK, EnvTypeOK, HeldWasMade, Handle
<1>2. OwnsItsOwn'
  BY MoveTakesOver
     DEF MoveConstruct, Releases, Leftover, OwnsAfterMove, Object, OwnInv, OwnershipInv, TypeOK, OwnsItsOwn
<1>3. OneOwner'
  BY MoveTakesOver
     DEF MoveConstruct, Releases, Leftover, OwnsAfterMove, Object, OwnInv, OwnershipInv, TypeOK, OneOwner
<1>4. NoneLost'
  BY ObjectsDisjoint
     DEF MoveConstruct, SameClass, Releases, Leftover, OwnsAfterMove, HandlesOf, Object, OwnInv,
         OwnershipInv, TypeOK, NoneLost, Handle
<1> QED BY <1>1, <1>2, <1>3, <1>4 DEF MoveConstruct, OwnInv, OwnershipInv

LEMMA MoveAssignInv ==
  ASSUME OwnInv, UNCHANGED Others, ~MovesBorrowed, NEW o \in Object, NEW p \in Object,
         MoveAssign(o, p)
  PROVE  OwnInv' /\ UNCHANGED trouble
<1>1. TypeOK' /\ HeldWasMade'
  BY ObjectsDisjoint
     DEF Others, MoveAssign, SameClass, MayMove, Releases, HandlesOf, Object, OwnInv,
         OwnershipInv, TypeOK, EnvTypeOK, HeldWasMade, Handle
<1>2. OwnsItsOwn'
  BY MoveTakesOver
     DEF MoveAssign, Releases, OwnsAfterMove, Object, OwnInv, OwnershipInv, TypeOK, OwnsItsOwn
<1>3. OneOwner'
  BY MoveTakesOver
     DEF MoveAssign, Releases, OwnsAfterMove, Object, OwnInv, OwnershipInv, TypeOK, OneOwner
<1>4. NoneLost'
  BY ObjectsDisjoint
     DEF MoveAssign, SameClass, Releases, OwnsAfterMove, HandlesOf, Object, OwnInv,
         OwnershipInv, TypeOK, NoneLost, Handle
<1> QED BY <1>1, <1>2, <1>3, <1>4 DEF MoveAssign, OwnInv, OwnershipInv

LEMMA HandleNextInv ==
  ASSUME IInv, UNCHANGED Others, HandleNext
  PROVE  IInv'
<1>1. OwnInv /\ ~MovesBorrowed /\ alive \subseteq Object
  BY DEF IInv, OwnInv, OwnershipInv, TypeOK
<1>2. ASSUME NEW o \in Object,
             Make(o) \/ Combine(o) \/ MakeEmpty(o) \/ (\E p \in Object : CopyConstruct(o, p))
      PROVE  OwnInv' /\ UNCHANGED trouble
  <2>1. o \in Object \ alive
    BY <1>2 DEF Make, Combine, MakeEmpty, CopyConstruct, Object
  <2> QED BY <1>1, <1>2, <2>1, MadeInv
<1>3. OwnInv' /\ UNCHANGED trouble
  BY <1>1, <1>2, RawInv, WrapInv, DisownInv, DestroyObjectInv, SwapInv, CopyAssignInv,
     MoveConstructInv, MoveAssignInv
     DEF HandleNext
<1>4. EnvInv'
  BY <1>3 DEF Others, IInv, EnvInv, EnvTypeOK, EnvInitialized, OneFinalizes, Alive, initialized,
              finalized
<1> QED BY <1>1, <1>3, <1>4 DEF IInv

LEMMA InitIInv == ~MovesBorrowed /\ Init => IInv
BY EnvInitInv, InitOwnInv DEF Init, IInv

LEMMA NextIInv == IInv /\ [Next]_vars => IInv'
<1> SUFFICES ASSUME IInv, [Next]_vars
             PROVE  IInv'
  OBVIOUS
<1>1. CASE HandleNext /\ UNCHANGED <<mode, env, mpi, committed, registered>>
  BY <1>1, HandleNextInv DEF Others
<1>2. CASE EnvNext /\ UNCHANGED handleVars
  <2>1. EnvInv'
    BY <1>2, EnvNextInv DEF IInv
  <2> QED BY <1>2, <2>1
          DEF handleVars, IInv, EnvInv, OwnInv, OwnershipInv, TypeOK, OneOwner, OwnsItsOwn,
              NoneLost, HeldWasMade
<1>3. CASE UNCHANGED vars
  BY <1>3 DEF vars, envVars, handleVars, IInv, EnvInv, EnvTypeOK, EnvInitialized, OneFinalizes,
              Alive, initialized, finalized, OwnInv, OwnershipInv, TypeOK, OneOwner, OwnsItsOwn,
              NoneLost, HeldWasMade
<1> QED BY <1>1, <1>2, <1>3 DEF Next

LEMMA IInvHolds == ~MovesBorrowed /\ Spec => []IInv
BY InitIInv, NextIInv, PTL DEF Spec

(* Whatever the program makes, copies, moves, swaps, assigns, disowns and   *)
(* destroys, and in whatever order: every handle has at most one owner,     *)
(* which is the one that frees it, once, and no communicator or operation   *)
(* is lost (communicator.hpp, group.hpp, mpi_ops.hpp).                      *)
THEOREM HandlesOwned == ~MovesBorrowed /\ Spec => []OwnershipInv
<1>1. IInv => OwnershipInv
  BY DEF IInv, OwnInv
<1> QED BY IInvHolds, <1>1, PTL

(* However many Environment objects come and go, MPI is initialized once,   *)
(* finalized once and after it was initialized, and with no type still      *)
(* registered; and no destructor frees what is not there (environment.hpp). *)
THEOREM EnvironmentAllowed == ~MovesBorrowed /\ Spec => []MPIAllows
<1>1. IInv => MPIAllows
  BY EnvInvMPIAllows DEF IInv
<1> QED BY IInvHolds, <1>1, PTL

--------------------------------------------------------------------------------
(* Communicators implement Ownership                                        *)

Owned == CommHandle \cup {World}
OwnerMap == [h \in Owned |-> OwnerOf(h)]

(* The owner of a communicator is what the state says and no accident: a    *)
(* handle that is open has exactly one claim on it.                         *)
LEMMA OpenHasOwner ==
  ASSUME IInv, NEW h \in Owned \cap open
  PROVE  OwnerOf(h) \in Owner
<1>1. h \notin freed
  BY DEF IInv, OwnInv, OwnershipInv, TypeOK
<1>2. \E c \in Owner : Claims(h) = {c}
  <2>1. CASE h \in raw
    <3>1. {o \in Comms : o \in owns /\ handle[o] = h} = {}
      BY <2>1 DEF IInv, OwnInv, OwnershipInv, OwnsItsOwn
    <3> QED BY <2>1, <3>1 DEF Claims, Owner
  <2>2. CASE h \notin raw
    <3>1. h \in CommHandle
      BY <2>2 DEF Owned, IInv, OwnInv, OwnershipInv, TypeOK
    <3>2. PICK o \in owns : handle[o] = h
      BY <2>2, <3>1, ObjectsDisjoint DEF IInv, OwnInv, OwnershipInv, NoneLost
    <3>3. o \in Comms
      BY <3>1, <3>2, ObjectsDisjoint
         DEF IInv, OwnInv, OwnershipInv, TypeOK, HandlesOf, Object, Handle
    <3>4. Claims(h) = {o}
      BY <2>2, <3>2, <3>3 DEF Claims, IInv, OwnInv, OwnershipInv, OneOwner
    <3> QED BY <3>3, <3>4 DEF Owner
  <2> QED BY <2>1, <2>2
<1>3. PICK c \in Owner : Claims(h) = {c}
  BY <1>2
<1>4. Cardinality(Claims(h)) = 1
  BY <1>3, FS_Singleton
<1> QED BY <1>1, <1>3, <1>4 DEF OwnerOf

LEMMA NotOpenHasNone ==
  ASSUME IInv, NEW h \in Owned \ open
  PROVE  OwnerOf(h) = IF h \in freed THEN "freed" ELSE "unused"
<1>1. Claims(h) = {}
  BY DEF Claims, IInv, OwnInv, OwnershipInv, TypeOK, OwnsItsOwn
<1> QED BY <1>1 DEF OwnerOf

(* OwnerOf says no more and no less than the state does.                    *)
WellOwned ==
  \A h \in Owned :
    /\ OwnerOf(h) \in Owner \cup {"unused", "freed"}
    /\ OwnerOf(h) = "freed" <=> h \in freed
    /\ OwnerOf(h) \in Owner <=> h \in open

LEMMA IInvWellOwned == IInv => WellOwned
<1> SUFFICES ASSUME IInv, NEW h \in Owned
             PROVE  /\ OwnerOf(h) \in Owner \cup {"unused", "freed"}
                    /\ OwnerOf(h) = "freed" <=> h \in freed
                    /\ OwnerOf(h) \in Owner <=> h \in open
  BY DEF WellOwned
<1>1. "unused" \notin Owner /\ "freed" \notin Owner
  BY ObjectsDisjoint DEF Owner
<1>2. CASE h \in open
  <2>1. h \notin freed
    BY <1>2 DEF IInv, OwnInv, OwnershipInv, TypeOK
  <2> QED BY <1>1, <1>2, <2>1, OpenHasOwner
<1>3. CASE h \notin open
  BY <1>1, <1>3, NotOpenHasNone
<1> QED BY <1>2, <1>3

LEMMA InitRefines == IInv /\ Init => Own!Init
<1> SUFFICES ASSUME IInv, Init
             PROVE  \A h \in Owned : OwnerOf(h) \in Owner \cup {"unused"}
  BY DEF Own!Init, Owned
<1>1. \A h \in Owned : h \notin freed
  BY DEF Init
<1> QED BY <1>1, IInvWellOwned DEF WellOwned

LEMMA HandlesStay ==
  ASSUME IInv, [Next]_vars
  PROVE  freed \subseteq freed' /\ open \cup freed \subseteq open' \cup freed'
<1>1. ASSUME NEW h \in Handle, MakeRaw(h) \/ FreeRaw(h)
      PROVE  freed \subseteq freed' /\ open \cup freed \subseteq open' \cup freed'
  BY <1>1 DEF MakeRaw, FreeRaw, Freeing
<1>2. ASSUME NEW o \in Object,
             Make(o) \/ Combine(o) \/ Disown(o) \/ MakeEmpty(o) \/ DestroyObject(o)
      PROVE  freed \subseteq freed' /\ open \cup freed \subseteq open' \cup freed'
  BY <1>2 DEF Make, Combine, Disown, MakeEmpty, DestroyObject, Freeing
<1>3. ASSUME NEW o \in Object, NEW h \in Handle, NEW owning \in BOOLEAN, Wrap(o, h, owning)
      PROVE  freed \subseteq freed' /\ open \cup freed \subseteq open' \cup freed'
  BY <1>3 DEF Wrap
<1>4. ASSUME NEW o \in Object, NEW p \in Object,
             CopyConstruct(o, p) \/ MoveConstruct(o, p) \/ Swap(o, p) \/ MoveAssign(o, p)
               \/ CopyAssign(o, p)
      PROVE  freed \subseteq freed' /\ open \cup freed \subseteq open' \cup freed'
  BY <1>4 DEF CopyConstruct, MoveConstruct, Swap, MoveAssign, CopyAssign
<1>5. CASE UNCHANGED handleVars
  BY <1>5 DEF handleVars
<1> QED BY <1>1, <1>2, <1>3, <1>4, <1>5 DEF Next, HandleNext, vars

LEMMA NextRefines == IInv /\ IInv' /\ [Next]_vars => [Own!Next]_OwnerMap
<1> SUFFICES ASSUME IInv, IInv', [Next]_vars
             PROVE  Own!Next
  OBVIOUS
<1>1. WellOwned /\ WellOwned'
  BY IInvWellOwned, PTL
<1>2. freed \subseteq freed' /\ open \cup freed \subseteq open' \cup freed'
  BY HandlesStay
<1>3. Own!TypeOK'
  BY <1>1 DEF Own!TypeOK, WellOwned, Owned
<1>4. \A h \in Owned : Own!Fate(h)
  BY <1>1, <1>2 DEF Own!Fate, WellOwned, Owned
<1> QED BY <1>3, <1>4 DEF Own!Next, Owned

(* The communicators of a process implement the ownership their user relies *)
(* on: every handle has one owner from the moment it is made until it is    *)
(* freed, and stays freed.                                                  *)
THEOREM CommunicatorsImplement == ~MovesBorrowed /\ Spec => Implements
BY IInvHolds, InitRefines, NextRefines, PTL DEF Spec, Implements, Own!Spec, OwnerMap, Owned

================================================================================
