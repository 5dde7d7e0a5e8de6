--------------------------- MODULE CreditedRuntime ---------------------------
(***************************************************************************)
(* The CPU runtime in the hands of the Engine.  The Engine hands out block *)
(* credits (BlockPool) and never looks at the runtime's pages; the runtime *)
(* refuses a batch that its free pages do not cover, and the Engine fails  *)
(* for good when a batch is refused.  This module is about the promise     *)
(* between the two: credits that were given cover the pages that the       *)
(* runtime will ask for.  An Engine whose runtime has failed runs no more  *)
(* batches, and that end is left out.                                      *)
(***************************************************************************)
EXTENDS CpuRuntime

CONSTANTS CacheSlots,   \* the sequences of cached prefixes
          Blocks        \* the credits

RequestSlots == Slots \ CacheSlots

\* Both are made of context_tokens and block_size.
ASSUME CreditAssumption ==
  /\ CacheSlots \subseteq Slots
  /\ IsFiniteSet(Blocks) /\ Cardinality(Blocks) = Cardinality(Pages)

VARIABLES blocks,   \* the credits of each sequence in use
          credits,  \* how many owners each credit has
          prompt,   \* the prompt length of each request, 0 without one
          limit     \* its prompt and max_tokens together

creditVars == <<blocks, credits, prompt, limit>>
creditedVars == <<vars, creditVars>>

Credits == INSTANCE BlockCredits

CreditedInit ==
  /\ Init
  /\ blocks = [s \in Slots |-> <<>>] /\ credits = [b \in Blocks |-> 0]
  /\ prompt = [s \in RequestSlots |-> 0] /\ limit = prompt

Cached(c) == blocks[c] # <<>>

\* admit(): whole blocks of a cached prefix, short of the prompt's last token,
\* are shared, and the rest is allocated.  (Sharing nothing clears the sequence.)
Admit(s) ==
  /\ pc = "idle" /\ limit[s] = 0
  /\ \E total \in 2..(Context + 1), c \in CacheSlots : \E p \in 1..(total - 1), n \in 0..(PageTokens * Len(blocks[c])) :
       /\ n % PageTokens = 0 /\ n < p
       /\ LET shared == SubSeq(blocks[c], 1, n \div PageTokens)
              need   == PagesFor(total) - Len(shared)
          IN /\ need <= Cardinality(Credits!FreeBlocks(credits))
             /\ LET fresh == CHOOSE t \in Credits!FreshTables(credits, need) : TRUE
                IN /\ blocks' = [blocks EXCEPT ![s] = shared \o fresh]
                   /\ credits' = Credits!Retained(Credits!Allocated(credits, fresh), shared)
          /\ SharePrefix(c, s, n)
       /\ prompt' = [prompt EXCEPT ![s] = p] /\ limit' = [limit EXCEPT ![s] = total]
  /\ UNCHANGED hostVars

\* cache_prompt(), when a prompt has been processed.
CachePrompt(s, c) ==
  /\ pc = "idle" /\ limit[s] > 0 /\ length[s] >= prompt[s] /\ ~Cached(c)
  /\ \E n \in 1..prompt[s] :
       /\ n % PageTokens = 0
       /\ LET shared == SubSeq(blocks[s], 1, n \div PageTokens)
          IN blocks' = [blocks EXCEPT ![c] = shared] /\ credits' = Credits!Retained(credits, shared)
       /\ SharePrefix(s, c, n)
  /\ UNCHANGED <<hostVars, prompt, limit>>

\* Slip: the sequence of an evicted prefix is left to the next one to use it.
LeftAsIs(s) == UNCHANGED kvVars
Emptied(s) == Clear(s)

GiveBack(s) ==
  /\ Emptied(s)
  /\ blocks' = [blocks EXCEPT ![s] = <<>>]
  /\ credits' = Credits!Released(credits, blocks[s])
  /\ UNCHANGED hostVars

Evict(c) == pc = "idle" /\ Cached(c) /\ GiveBack(c) /\ UNCHANGED <<prompt, limit>>

Finish(s) ==
  /\ pc = "idle" /\ limit[s] > 0 /\ GiveBack(s)
  /\ prompt' = [prompt EXCEPT ![s] = 0] /\ limit' = [limit EXCEPT ![s] = 0]

\* The Engine runs requests within their limits; the last token that is
\* generated is never fed back.
WithinLimits(more) ==
  \A s \in Slots : more[s] > 0 => s \in RequestSlots /\ length[s] + more[s] < limit[s]

CreditedForward == Forward /\ WithinLimits(Gains(request')) /\ UNCHANGED creditVars

CreditedNext ==
  \/ \E s \in RequestSlots : Admit(s) \/ Finish(s) \/ \E c \in CacheSlots : CachePrompt(s, c)
  \/ \E c \in CacheSlots : Evict(c)
  \/ CreditedForward
  \/ (AppendNext \/ Compute \/ Store \/ Attend) /\ UNCHANGED creditVars

CreditedSpec == CreditedInit /\ [][CreditedNext]_creditedVars

-----------------------------------------------------------------------------
\* A batch within the limits of the requests is never refused for pages.
NeverRefused ==
  pc = "idle" =>
    \A more \in [RequestSlots -> 0..BatchTokens] :
      LET all == [s \in Slots |-> IF s \in RequestSlots THEN more[s] ELSE 0]
      IN SumFunction(all) <= BatchTokens /\ WithinLimits(all) =>
           PagesNeeded(all) <= Cardinality(free)
=============================================================================
