------------------------------ MODULE Environment ------------------------------
(***************************************************************************)
(* Environment objects (environment.hpp): who initializes MPI, who         *)
(* finalizes it, and which data types are freed before.  MPI is global to  *)
(* the process, the objects are not.                                       *)
(***************************************************************************)
EXTENDS Naturals, FiniteSets

CONSTANTS
  Env,         (* Environment objects.                                       *)
  Modes,       (* How an object may treat MPI_Init and MPI_Finalize.         *)
  Type         (* Data types.                                                *)

ASSUME ModesAssumption == Modes \subseteq {"InitFinalize", "NoInitFinalize", "InitFinalizeIfNecessary"}

VARIABLES
  mode,        (* The template parameter of each Environment.                *)
  env,         (* env[e]: alive, and its flag _finalize.                     *)
  mpi,         (* "uninitialized", "running" or "finalized".                 *)
  committed,   (* Data types MPI knows,                                      *)
  registered,  (* and those registered to be freed before MPI_Finalize.      *)
  trouble      (* What MPI was asked for and does not allow.                 *)

envVars == <<mode, env, mpi, committed, registered, trouble>>

Alive(e) == env[e] # "none"

EnvInit ==
  /\ mode \in [Env -> Modes]
  /\ env = [e \in Env |-> "none"]
  /\ mpi = "uninitialized"
  /\ committed = {}
  /\ registered = {}
  /\ trouble = {}

initialized == mpi # "uninitialized"
finalized   == mpi = "finalized"

MPI_Init ==
  IF initialized
  THEN trouble' = trouble \cup {"MPI_Init twice"} /\ UNCHANGED mpi
  ELSE mpi' = "running" /\ UNCHANGED trouble

MPI_Finalize ==
  /\ mpi' = "finalized"
  /\ trouble' = IF mpi = "running" THEN trouble ELSE trouble \cup {"MPI_Finalize without MPI"}

init == IF initialized THEN UNCHANGED <<mpi, trouble>> ELSE MPI_Init

(* A plausible mistake, used nowhere. *)
Constructed_Always(e) == IF mode[e] = "InitFinalizeIfNecessary" THEN "finalizes" ELSE "idle"

(* The flag _finalize: only an object that has called MPI_Init by necessity sets it. *)
Constructed(e) == IF mode[e] = "InitFinalizeIfNecessary" /\ ~initialized THEN "finalizes" ELSE "idle"

Construct(e) ==
  /\ ~Alive(e)
  /\ env' = [env EXCEPT ![e] = Constructed(e)]
  /\ IF mode[e] = "NoInitFinalize" THEN UNCHANGED <<mpi, trouble>> ELSE init
  /\ UNCHANGED <<mode, committed, registered>>

Initialize(e) == Alive(e) /\ init /\ UNCHANGED <<mode, env, committed, registered>>

free_registered_mpi_types == committed' = committed \ registered /\ registered' = {}

(* The program calls finalize while MPI runs; a second call is stopped by the assertion. *)
Finalize(e) ==
  /\ Alive(e) /\ mpi = "running"
  /\ free_registered_mpi_types
  /\ MPI_Finalize
  /\ UNCHANGED <<mode, env>>

(* Whether the destructor is one that calls MPI_Finalize. *)
Finalizes(e) == mode[e] = "InitFinalize" \/ (mode[e] = "InitFinalizeIfNecessary" /\ env[e] = "finalizes")

(* A plausible mistake, used nowhere. *)
ToFinalize_Unchecked(e) == Finalizes(e)

ToFinalize(e) == Finalizes(e) /\ ~finalized

Destroy(e) ==
  /\ Alive(e)
  /\ env' = [env EXCEPT ![e] = "none"]
  /\ IF ToFinalize(e)
     THEN free_registered_mpi_types /\ MPI_Finalize
     ELSE UNCHANGED <<mpi, committed, registered, trouble>>
  /\ UNCHANGED mode

commit(t) ==
  /\ mpi = "running" /\ t \notin committed
  /\ committed' = committed \cup {t}

(* commit by the program, commit_and_register by mpi_datatype, register_mpi_type on its own. *)
Commit(t) == commit(t) /\ UNCHANGED <<mode, env, mpi, registered, trouble>>

CommitAndRegister(t) ==
  /\ commit(t)
  /\ registered' = registered \cup {t}
  /\ UNCHANGED <<mode, env, mpi, trouble>>

Register(t) ==
  /\ mpi = "running" /\ t \in committed \ registered
  /\ registered' = registered \cup {t}
  /\ UNCHANGED <<mode, env, mpi, committed, trouble>>

(* free by the program, of a type it has not registered. *)
FreeType(t) ==
  /\ mpi = "running" /\ t \in committed \ registered
  /\ committed' = committed \ {t}
  /\ UNCHANGED <<mode, env, mpi, registered, trouble>>

FreeRegistered ==
  /\ mpi = "running"
  /\ free_registered_mpi_types
  /\ UNCHANGED <<mode, env, mpi, trouble>>

EnvNext ==
  \/ \E e \in Env : Construct(e) \/ Initialize(e) \/ Finalize(e) \/ Destroy(e)
  \/ \E t \in Type : Commit(t) \/ CommitAndRegister(t) \/ Register(t) \/ FreeType(t)
  \/ FreeRegistered

--------------------------------------------------------------------------------
EnvTypeOK ==
  /\ mode \in [Env -> Modes]
  /\ env \in [Env -> {"none", "idle", "finalizes"}]
  /\ mpi \in {"uninitialized", "running", "finalized"}
  /\ committed \subseteq Type /\ registered \subseteq committed

(* However many objects there are and in whatever order they come and go, MPI is initialized  *)
(* once, finalized once and never without having been initialized (environment.hpp:49 leaves  *)
(* that to the program; the objects see to it), nothing is freed that is not there, at most   *)
(* one object that initializes by necessity is to finalize, and no registered type is left    *)
(* committed when MPI is finalized.                                                           *)
MPIAllows ==
  /\ trouble = {}
  /\ \A e \in Env : env[e] = "finalizes" => initialized
  /\ Cardinality({e \in Env : env[e] = "finalizes"}) <= 1
  /\ finalized => registered = {}
================================================================================
