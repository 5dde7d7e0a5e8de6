------------------------------ MODULE MemoryPlan ------------------------------
(***************************************************************************)
(* make_memory_plan of src/src/minillm/cuda/storage.cpp: two arenas, one   *)
(* for the weights and one for the workspace, are laid out item by item,   *)
(* each at the next aligned offset.  Sums and products are checked against *)
(* the range of size_t, and a plan that does not fit is refused.  Which    *)
(* items there are is left to the caller (CudaStartup).                    *)
(***************************************************************************)
EXTENDS GgufFile, Sequences

CONSTANTS Alignment,    \* 256 in the code
          DimensionMax  \* INT_MAX

ASSUME PlanAssumption ==
  Alignment \in Nat \ {0} /\ DimensionMax \in Nat

VARIABLES arenas,    \* MemoryPlan::weights and ::regions, with the bytes used so far
          planned    \* "weights", "workspace" or "laid"

planVars == <<arenas, planned>>

\* An item's payload counts once; an alias has none of its own.
EmptyArena == [items |-> <<>>, bytes |-> 0, payload |-> 0]

PlanInit == arenas = [weights |-> EmptyArena, workspace |-> EmptyArena] /\ planned = "weights"

\* align()
Aligned(n) == (n + Alignment - 1) - ((n + Alignment - 1) % Alignment)

BytesOf(shape) == shape.rows * shape.columns * shape.width

Dimension(n) == n \in 1..DimensionMax

\* No dimension is out of range, and no step of the computation overflows.
\* (align() adds the alignment before it rounds.)
Placeable(arena, shape) ==
  /\ Dimension(shape.columns)
  /\ BytesOf(shape) <= SizeMax
  /\ arena.bytes + Alignment - 1 <= SizeMax
  /\ Aligned(arena.bytes) + BytesOf(shape) <= SizeMax

\* Slip: the next offset is taken as it is.
OffsetUnaligned(arena) == arena.bytes
Offset(arena) == Aligned(arena.bytes)

Item(arena, shape) ==
  [name |-> shape.name, rows |-> shape.rows, columns |-> shape.columns, width |-> shape.width,
   offset |-> Offset(arena), bytes |-> BytesOf(shape), alias |-> FALSE]

With(arena, shape) ==
  [items   |-> Append(arena.items, Item(arena, shape)),
   bytes   |-> Offset(arena) + BytesOf(shape),
   payload |-> arena.payload + BytesOf(shape)]

Place(a, shape) ==
  /\ planned = a /\ Placeable(arenas[a], shape)
  /\ arenas' = [arenas EXCEPT ![a] = With(@, shape)]
  /\ UNCHANGED planned

\* A model without output weights uses the embedding's, under another name.
PlaceAlias(name) ==
  /\ planned = "weights" /\ arenas.weights.items # <<>>
  /\ arenas' = [arenas EXCEPT !.weights.items =
                  Append(@, [Head(@) EXCEPT !.name = name, !.alias = TRUE])]
  /\ UNCHANGED planned

\* The end of an arena is aligned too.
Close(a, next) ==
  /\ planned = a /\ arenas[a].bytes + Alignment - 1 <= SizeMax
  /\ arenas' = [arenas EXCEPT ![a].bytes = Aligned(@)]
  /\ planned' = next

-----------------------------------------------------------------------------
Owned(arena) == {i \in DOMAIN arena.items : ~arena.items[i].alias}

\* No two items overlap, each is aligned and lies inside the arena, an alias
\* is the first item under another name, and the padding that the plan
\* reports (bytes - payload) is no negative number.
ArenaIsSound(arena) ==
  /\ \A i \in Owned(arena) :
       /\ arena.items[i].offset % Alignment = 0
       /\ arena.items[i].offset + arena.items[i].bytes <= arena.bytes
       /\ \A j \in Owned(arena) :
            i < j => arena.items[i].offset + arena.items[i].bytes <= arena.items[j].offset
  /\ \A i \in DOMAIN arena.items \ Owned(arena) :
       /\ arena.items[i].offset = arena.items[1].offset
       /\ arena.items[i].bytes = arena.items[1].bytes
  /\ arena.payload <= arena.bytes /\ arena.bytes <= SizeMax

RegionsAreDisjoint == \A a \in {"weights", "workspace"} : ArenaIsSound(arenas[a])
=============================================================================
