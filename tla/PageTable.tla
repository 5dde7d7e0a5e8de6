------------------------------ MODULE PageTable ------------------------------
(***************************************************************************)
(* PageTableState of src/src/minillm/cuda/page_table.cpp: which physical   *)
(* page holds each block of each sequence of the GPU's KV cache.  A        *)
(* forward prepares a plan, executes with it, and commits it; every other  *)
(* order poisons the table.  The free pages are a set: their order is of   *)
(* no consequence.                                                         *)
(***************************************************************************)
EXTENDS Integers, FiniteSets

CONSTANTS Slots, Pages,
          NoPage,       \* invalid_page
          PageTokens,   \* tokens a page holds
          MaxLen        \* tokens a sequence may hold

PagesFor(length) == (length + PageTokens - 1) \div PageTokens
Blocks == 0..(PagesFor(MaxLen) - 1)

ASSUME PageTableAssumption ==
  /\ {PageTokens, MaxLen} \subseteq Nat \ {0}
  /\ IsFiniteSet(Slots) /\ Slots # {}
  /\ NoPage \notin Pages /\ IsFiniteSet(Pages) /\ Cardinality(Pages) \in 1..(Cardinality(Slots) * PagesFor(MaxLen))

VARIABLES
  active,      \* the committed table
  pending,     \* the table of the forward in progress; empty when there is none
  free,        \* the pages that may be planned
  journal,     \* the pages of the plan
  pagePhase, dirty

pageVars == <<active, pending, free, journal, pagePhase, dirty>>

Tables == [Slots -> [Blocks -> Pages \cup {NoPage}]]

EmptyTable == [s \in Slots |-> [b \in Blocks |-> NoPage]]

InitPages ==
  /\ active = EmptyTable
  /\ pending = active
  /\ free = Pages /\ journal = {}
  /\ pagePhase = "ready" /\ dirty = TRUE

\* What prepare() demands of the table it finds.
Matches(committed) ==
  \A s \in Slots, b \in Blocks : active[s][b] \in Pages <=> b < PagesFor(committed[s])

NewBlocks(committed, wanted) ==
  {k \in Slots \X Blocks : k[2] >= PagesFor(committed[k[1]]) /\ k[2] < PagesFor(wanted[k[1]])}

Fits(committed, wanted) == Cardinality(NewBlocks(committed, wanted)) <= Cardinality(free)

\* prepare() gives each block that the forward adds a free page of its own.
PreparePages(committed, wanted) ==
  /\ pagePhase = "ready"
  /\ \A s \in Slots : committed[s] <= wanted[s] /\ wanted[s] <= MaxLen
  /\ Matches(committed) /\ Fits(committed, wanted)
  /\ LET new == NewBlocks(committed, wanted)
     IN \E plan \in [new -> free] :
          /\ \A k, l \in new : plan[k] = plan[l] => k = l
          /\ pending' = [s \in Slots |-> [b \in Blocks |->
                           IF <<s, b>> \in new THEN plan[<<s, b>>] ELSE active[s][b]]]
          /\ journal' = {plan[k] : k \in new}
  /\ pagePhase' = "prepared"
  /\ UNCHANGED <<active, free, dirty>>

PagesRefuse(committed, wanted) ==
  \/ pagePhase # "ready"
  \/ \E s \in Slots : committed[s] > wanted[s] \/ wanted[s] > MaxLen
  \/ ~Matches(committed) \/ ~Fits(committed, wanted)

PoisonPages ==
  /\ free' = IF pagePhase = "prepared" THEN free \ journal ELSE free
  /\ pagePhase' = "poisoned"
  /\ UNCHANGED <<active, pending, journal, dirty>>

\* Slip: the pages of the plan stay free.
TakenNever == free
Taken == free \ journal

BeginExecution ==
  IF pagePhase # "prepared" THEN PoisonPages
  ELSE /\ free' = Taken
       /\ pagePhase' = "executing"
       /\ UNCHANGED <<active, pending, journal, dirty>>

\* The swap: what it leaves in pending_ is overwritten before it is read.
CommitPages ==
  IF pagePhase # "executing" THEN PoisonPages
  ELSE /\ active' = pending /\ pending' = EmptyTable
       /\ journal' = {} /\ dirty' = FALSE /\ pagePhase' = "ready"
       /\ UNCHANGED free

DiscardPages ==
  IF pagePhase # "prepared" THEN PoisonPages
  ELSE /\ journal' = {} /\ pagePhase' = "ready" /\ pending' = EmptyTable
       /\ UNCHANGED <<active, free, dirty>>

Dirtied(released) == dirty \/ released # {}
Emptied(s) == [active EXCEPT ![s] = [b \in Blocks |-> NoPage]]

ClearPages(s) ==
  /\ pagePhase = "ready"
  /\ LET released == {active[s][b] : b \in Blocks} \ {NoPage}
     IN /\ free' = free \cup released
        /\ active' = Emptied(s)
        /\ dirty' = Dirtied(released)
  /\ UNCHANGED <<pending, journal, pagePhase>>

UploadRequired == dirty \/ journal # {}

TypeOKPages ==
  /\ active \in Tables /\ pending \in Tables
  /\ free \subseteq Pages /\ journal \subseteq Pages
  /\ pagePhase \in {"ready", "prepared", "executing", "poisoned"}
  /\ dirty \in BOOLEAN
=============================================================================
