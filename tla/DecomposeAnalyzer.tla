----------------------------- MODULE DecomposeAnalyzer -----------------------------
(***************************************************************************)
(* analysis/decompose_analyzer.{h,cpp}: what a block is used for.          *)
(* memscopeDefinedOwner is a pair of the pool's name and a class; the      *)
(* userDefinedOwner, which is only ever appended to, is left out.          *)
(***************************************************************************)
CONSTANTS PTA_CACHING, ATB,   \* the PoolType values it meets here
          Classes,            \* the owners that optimizer_step_hook.py reports
          noClass, aten       \* nothing after the pool's name; atenStr

ASSUME OwnerAssumption ==
    /\ PTA_CACHING # ATB
    /\ noClass # aten
    /\ Classes \cap {noClass, aten} = {}

NoOwner == <<"", noClass>>

Owners == {"", "PTA", "ATB"} \X (Classes \cup {noClass, aten})

\* InitOwner, at the MALLOC.
InitOwner(pool) == IF pool = PTA_CACHING THEN <<"PTA", noClass>> ELSE <<"ATB", noClass>>

\* Seeded fault: every access makes it a block of the operators.
UpdateOwnerByAnyAccess(owner, pool) ==
    IF pool = PTA_CACHING /\ owner[1] = "PTA" THEN <<"PTA", aten>> ELSE owner

\* UpdateOwnerByAtenAccess: only a block that has no class yet.
UpdateOwnerByAtenAccess(owner, pool) ==
    IF pool = PTA_CACHING /\ owner = <<"PTA", noClass>> THEN <<"PTA", aten>> ELSE owner

\* UpdateOwner of a TORCH_OPTIMIZER_STEP_OWNER: the new class replaces any other.
UpdateOwner(owner, class) ==
    IF owner[1] = "PTA" THEN <<"PTA", class>> ELSE owner
=============================================================================
