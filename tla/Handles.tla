-------------------------------- MODULE Handles --------------------------------
(***************************************************************************)
(* The objects of one process that hold an MPI handle: Communicator        *)
(* (communicator.hpp), Group (group.hpp) and UserOperationPtrWrapper       *)
(* (mpi_ops.hpp), each with a flag that says whether the destructor frees  *)
(* it.  The program makes, copies, moves, swaps and destroys them in any   *)
(* order while MPI runs (Environment).                                     *)
(* What is left to the program: it passes ownership of a raw handle only   *)
(* if it has it, does not copy an object whose handle somebody else has    *)
(* freed, and finalizes MPI only when no object owns anything any more.    *)
(***************************************************************************)
EXTENDS Environment

CONSTANTS
  Comms, Groups, Operations,    (* The objects of each class,                 *)
  CommHandle, GroupHandle, OpHandle,    (* the handles MPI may hand out,      *)
  World,                        (* and one that is predefined.                *)
  Null,
  MovesBorrowed                 (* Whether the program moves a Group that     *)
                                (* does not own the handle it holds.          *)

Object == Comms \cup Groups \cup Operations
Handle == CommHandle \cup GroupHandle \cup OpHandle \cup {World}

ASSUME ObjectsDisjoint ==
  /\ Comms \cap Groups = {} /\ Comms \cap Operations = {} /\ Groups \cap Operations = {}
  /\ CommHandle \cap GroupHandle = {} /\ CommHandle \cap OpHandle = {} /\ GroupHandle \cap OpHandle = {}
  /\ World \notin CommHandle \cup GroupHandle \cup OpHandle
  /\ Null \notin Handle
  /\ {"unused", "freed", "nobody"} \cap Comms = {}    (* Only names: see OwnerOf. *)
  /\ MovesBorrowed \in BOOLEAN

VARIABLES
  alive,       (* The objects there are,                                     *)
  handle,      (* what each holds,                                           *)
  owns,        (* and those that free it.                                    *)
  open,        (* Handles MPI has made and not freed.                        *)
  freed,       (* Handles that were freed; they do not come back.            *)
  raw          (* Handles that are the program's own to free.                *)

handleVars == <<alive, handle, owns, open, freed, raw>>
vars == <<envVars, handleVars>>

Init ==
  /\ EnvInit
  /\ alive = {}
  /\ handle = [o \in Object |-> Null]
  /\ owns = {}
  /\ open = {World}
  /\ freed = {}
  /\ raw = {World}

HandlesOf(o) ==
  IF o \in Comms THEN CommHandle ELSE IF o \in Groups THEN GroupHandle ELSE OpHandle

Fresh(o) == HandlesOf(o) \ (open \cup freed)

SameClass(o, p) == \A class \in {Comms, Groups, Operations} : o \in class <=> p \in class

Freeing(hs) ==
  /\ open' = open \ hs
  /\ freed' = freed \cup hs
  /\ trouble' = IF hs \subseteq open \ {World} THEN trouble ELSE trouble \cup {"freed what is not there"}

Holds(o, h, owning) ==
  /\ alive' = alive \cup {o}
  /\ handle' = [handle EXCEPT ![o] = h]
  /\ owns' = IF owning THEN owns \cup {o} ELSE owns \ {o}

(* The program makes a handle with MPI itself. *)
MakeRaw(h) ==
  /\ h \in (CommHandle \cup GroupHandle) \ (open \cup freed)
  /\ open' = open \cup {h} /\ raw' = raw \cup {h}
  /\ UNCHANGED <<alive, handle, owns, freed, trouble>>

FreeRaw(h) ==
  /\ h \in raw \ {World}
  /\ raw' = raw \ {h}
  /\ Freeing({h})
  /\ UNCHANGED <<alive, handle, owns>>

(* Communicator(comm, root, take_ownership) and Group(group, owning). *)
Wrap(o, h, owning) ==
  /\ o \in (Comms \cup Groups) \ alive
  /\ h \in raw \cap (HandlesOf(o) \cup {World})
  /\ owning => h # World
  /\ Holds(o, h, owning)
  /\ raw' = IF owning THEN raw \ {h} ELSE raw
  /\ UNCHANGED <<open, freed, trouble>>

(* split, split_by_type, create_subcommunicators; the group of a communicator; an operation *)
(* made from a function pointer. *)
Make(o) ==
  /\ o \in Object \ alive
  /\ \E h \in Fresh(o) : Holds(o, h, TRUE) /\ open' = open \cup {h}
  /\ UNCHANGED <<freed, raw, trouble>>

(* difference, intersection and set_union: a new group that nobody owns. *)
Combine(o) ==
  /\ o \in Groups \ alive
  /\ \E h \in Fresh(o) : Holds(o, h, FALSE) /\ open' = open \cup {h}
  /\ UNCHANGED <<freed, raw, trouble>>

CopyConstruct(o, p) ==
  /\ o \in Comms \ alive /\ p \in Comms \cap alive
  /\ handle[p] \in open
  /\ \E h \in Fresh(o) : Holds(o, h, TRUE) /\ open' = open \cup {h}
  /\ UNCHANGED <<freed, raw, trouble>>

(* What is left of an object that was moved from: a group keeps the handle it no longer owns. *)
Leftover(o) == IF o \in Comms THEN Null ELSE handle[o]

(* A plausible mistake, used nowhere: the source goes on owning what it has passed on. *)
Releases_Never(o) == {}

Releases(o) == {o}

(* Moving makes a group the owner whatever it was; the other classes move the flag. *)
OwnsAfterMove(o, p) == IF o \in Groups THEN TRUE ELSE p \in owns

MayMove(p) ==
  /\ p \in alive
  /\ p \in Groups /\ ~MovesBorrowed => handle[p] \notin raw /\ (p \in owns \/ \A o \in owns : handle[o] # handle[p])
  /\ p \in Groups => handle[p] # Null /\ handle[p] \notin freed

MoveConstruct(o, p) ==
  /\ o \in Object \ alive /\ SameClass(o, p) /\ MayMove(p)
  /\ alive' = alive \cup {o}
  /\ handle' = [handle EXCEPT ![o] = handle[p], ![p] = Leftover(p)]
  /\ owns' = (owns \ Releases(p)) \cup (IF OwnsAfterMove(o, p) THEN {o} ELSE {})
  /\ UNCHANGED <<open, freed, raw, trouble>>

(* A plausible mistake, used nowhere: the flags stay where they are. *)
Swapped_HandleOnly(o, p) == handle' = [handle EXCEPT ![o] = handle[p], ![p] = handle[o]] /\ UNCHANGED owns

Swapped(o, p) ==
  /\ handle' = [handle EXCEPT ![o] = handle[p], ![p] = handle[o]]
  /\ owns' = (owns \ {o, p}) \cup {q \in {o, p} : (IF q = o THEN p ELSE o) \in owns}

(* swap, and the move assignment of communicators. *)
Swap(o, p) ==
  /\ {o, p} \subseteq Comms \cap alive
  /\ Swapped(o, p)
  /\ UNCHANGED <<alive, open, freed, raw, trouble>>

(* The move assignment of groups and operations takes the handle and forgets the own one; an *)
(* operation is assigned to only while it is empty (mpi_ops.hpp:685).                         *)
MoveAssign(o, p) ==
  /\ {o, p} \subseteq alive \ Comms /\ SameClass(o, p) /\ MayMove(p)
  /\ o \in Operations => o # p /\ o \notin owns
  /\ handle' = [handle EXCEPT ![o] = handle[p]]
  /\ owns' = ((owns \ Releases(p)) \ {o}) \cup (IF OwnsAfterMove(o, p) THEN {o} ELSE {})
  /\ UNCHANGED <<alive, open, freed, raw, trouble>>

(* Copy assignment: a copy is made, swapped in, and destroyed with what the object held. *)
CopyAssign(o, p) ==
  /\ {o, p} \subseteq Comms \cap alive
  /\ handle[p] \in open
  /\ \E h \in Fresh(o) :
       /\ handle' = [handle EXCEPT ![o] = h]
       /\ owns' = owns \cup {o}
       /\ IF o \in owns
          THEN /\ open' = (open \cup {h}) \ {handle[o]}
               /\ freed' = freed \cup {handle[o]}
               /\ trouble' = IF handle[o] \in open THEN trouble ELSE trouble \cup {"freed what is not there"}
          ELSE open' = open \cup {h} /\ UNCHANGED <<freed, trouble>>
  /\ UNCHANGED <<alive, raw>>

(* disown_mpi_communicator: the handle is returned to the program. *)
Disown(o) ==
  /\ o \in Comms \cap alive
  /\ owns' = owns \ {o}
  /\ raw' = IF o \in owns THEN raw \cup {handle[o]} ELSE raw
  /\ UNCHANGED <<alive, handle, open, freed, trouble>>

(* UserOperationPtrWrapper() *)
MakeEmpty(o) ==
  /\ o \in Operations \ alive
  /\ Holds(o, Null, FALSE)
  /\ UNCHANGED <<open, freed, raw, trouble>>

DestroyObject(o) ==
  /\ o \in alive
  /\ alive' = alive \ {o}
  /\ handle' = [handle EXCEPT ![o] = Null]
  /\ owns' = owns \ {o}
  /\ IF o \in owns THEN Freeing({handle[o]}) ELSE UNCHANGED <<open, freed, trouble>>
  /\ UNCHANGED raw

HandleNext ==
  \/ \E h \in Handle : MakeRaw(h) \/ FreeRaw(h)
  \/ \E o \in Object : Make(o) \/ Combine(o) \/ Disown(o) \/ MakeEmpty(o) \/ DestroyObject(o)
  \/ \E o \in Object, h \in Handle, owning \in BOOLEAN : Wrap(o, h, owning)
  \/ \E o, p \in Object :
       CopyConstruct(o, p) \/ MoveConstruct(o, p) \/ Swap(o, p) \/ MoveAssign(o, p) \/ CopyAssign(o, p)

(* An object that owns a handle needs MPI to free it. *)
Outlived == alive # {} /\ mpi' = "finalized"

Next ==
  \/ mpi = "running" /\ HandleNext /\ UNCHANGED <<mode, env, mpi, committed, registered>>
  \/ EnvNext /\ ~Outlived /\ UNCHANGED handleVars

Spec == Init /\ [][Next]_vars

--------------------------------------------------------------------------------
TypeOK ==
  /\ EnvTypeOK
  /\ alive \subseteq Object /\ owns \subseteq alive
  /\ handle \in [Object -> Handle \cup {Null}]
  /\ \A o \in Object : handle[o] \in HandlesOf(o) \cup {World, Null}
  /\ open \subseteq Handle /\ freed \subseteq Handle /\ open \cap freed = {}
  /\ raw \subseteq open /\ World \in raw

(* No two objects free the same handle, *)
OneOwner == \A o, p \in owns : handle[o] = handle[p] => o = p

(* what an object is to free is there to be freed, and is not the program's to free, *)
OwnsItsOwn == \A o \in owns : handle[o] \in open \ raw

(* and every communicator and every operation is somebody's to free. *)
NoneLost ==
  \A h \in open \ raw : h \in GroupHandle \/ \E o \in owns : handle[o] = h

(* After any sequence of calls that make, copy, move, swap, assign, disown and destroy objects *)
(* each handle is freed once, by the one object that owns it: nothing is freed twice, freed    *)
(* behind the program's back, or lost.                                                         *)
OwnershipInv == TypeOK /\ OneOwner /\ OwnsItsOwn /\ NoneLost

(* A group that does not own the handle it was given does not free it (group.hpp:72: the  *)
(* destructor frees "the encapsulated group if owned"), also after it is moved.            *)
FreesOnlyOwned == \A o \in owns : handle[o] \notin raw

Owner == Comms \cup {"program"}
Claims(h) == {o \in Comms : o \in owns /\ handle[o] = h} \cup (IF h \in raw THEN {"program"} ELSE {})

(* For communicators this is the ownership of Ownership: with no claim, or with two, a handle *)
(* has no owner there, and that is no state of Ownership.                                      *)
OwnerOf(h) ==
  CASE h \in freed /\ Claims(h) = {} -> "freed"
    [] h \in open /\ Cardinality(Claims(h)) = 1 -> CHOOSE o \in Claims(h) : TRUE
    [] h \notin open \cup freed /\ Claims(h) = {} -> "unused"
    [] OTHER -> "nobody"

Own == INSTANCE Ownership WITH
         Resource <- CommHandle \cup {World}, Owner <- Owner, Unused <- "unused", Freed <- "freed",
         owner <- [h \in CommHandle \cup {World} |-> OwnerOf(h)]

(* Communicators implement the ownership their user relies on. *)
Implements == Own!Spec
================================================================================
