---------------------------- MODULE RuleLoading -----------------------------
(***************************************************************************)
(* NewWAF of internal/app/waf: the custom rules are read, those that       *)
(* duplicate a rule of the core rule set (CRS) are filtered out, and both  *)
(* are handed to the engine.                                               *)
(*                                                                         *)
(* A line of the custom rules says whether a SecRule or SecAction starts   *)
(* on it, whether it ends with a backslash, the identifier on it (0: none) *)
(* and whether it makes its rule the start of a chain.  An absolute path   *)
(* of the CRS is one found in the working directory.                       *)
(***************************************************************************)
EXTENDS Integers, Sequences, FiniteSets, SequencesExt

CONSTANTS
  Texts,     \* the possible custom rules
  CrsIds,    \* identifiers of the rules of the CRS
  Places     \* where the CRS may be: "none", "cwd" or "root" (of the repository)

VARIABLES
  text,      \* lines of the custom rules
  crs,       \* [enabled, at]: the configuration
  i,         \* line the filter is at
  kept,      \* the lines written to the result
  loaded,    \* the CRS is loaded
  pc         \* custom, filter, crs, engine; then started, failed or panic

vars == <<text, crs, i, kept, loaded, pc>>

Init ==
  /\ text \in Texts
  /\ crs \in [enabled : BOOLEAN, at : Places]
  /\ i = 1 /\ kept = <<>> /\ loaded = FALSE /\ pc = "custom"

----------------------------------------------------------------------------
\* collectCRSRuleIDs takes the path as it is configured, so that a relative one
\* is looked up in the working directory only.
CollectCRSRuleIDs == IF crs.at = "cwd" THEN CrsIds ELSE {}

\* The custom rules are missing or unreadable, or they are read; they are
\* filtered when there is something to filter.
ReadCustom ==
  /\ pc = "custom"
  /\ \/ kept' = <<>> /\ pc' = "crs"
     \/ IF crs.enabled /\ CollectCRSRuleIDs # {}
        THEN pc' = "filter" /\ UNCHANGED kept
        ELSE kept' = [k \in DOMAIN text |-> k] /\ pc' = "crs"
  /\ UNCHANGED <<text, crs, i, loaded>>

\* One past the last line of the block that starts on line s.  The lines after
\* the continued ones; the text may end before.
Continued(s) == {e \in s..Len(text) : \A k \in s..e : text[k].cont}
BlockEnd(s) == s + Cardinality(Continued(s)) + 1

\* The first identifier of a block.
BlockId(s, e) ==
  LET with == {k \in s..(e - 1) : text[k].id # 0}
  IN IF with = {} THEN 0 ELSE text[CHOOSE k \in with : \A m \in with : k <= m].id

Duplicate(s, e) == BlockId(s, e) \in CollectCRSRuleIDs

\* The lines of a block.
BlockLines(s, e) == [k \in 1..(e - s) |-> s + k - 1]

\* filterDuplicateRules: one block, or one line that starts none.  The slice of
\* the block goes past the end of the text when its last line is continued.
FilterBlock ==
  /\ pc = "filter" /\ i <= Len(text)
  /\ LET e == IF text[i].rule THEN BlockEnd(i) ELSE i + 1
     IN IF e > Len(text) + 1
        THEN pc' = "panic" /\ UNCHANGED <<i, kept>>
        ELSE /\ i' = e
             /\ kept' = IF text[i].rule /\ Duplicate(i, e) THEN kept ELSE kept \o BlockLines(i, e)
             /\ UNCHANGED pc
  /\ UNCHANGED <<text, crs, loaded>>

FilterDone ==
  /\ pc = "filter" /\ i > Len(text)
  /\ pc' = "crs"
  /\ UNCHANGED <<text, crs, i, kept, loaded>>

\* resolvePath finds the CRS in the working directory or in the root of the
\* repository.
ResolvePath == crs.at # "none"

LoadCRS ==
  /\ pc = "crs"
  /\ loaded' = (crs.enabled /\ ResolvePath)
  /\ pc' = "engine"
  /\ UNCHANGED <<text, crs, i, kept>>

----------------------------------------------------------------------------
\* The directives of the engine's parser: lines joined as long as they are
\* continued.  It drops one that is still continued when the text ends.
Starts == {k \in DOMAIN text : (k = 1 \/ ~text[k - 1].cont) /\ BlockEnd(k) <= Len(text) + 1}
Block(s) == s..(BlockEnd(s) - 1)
RuleStarts == {s \in Starts : text[s].rule}
Kept(s) == s \in ToSet(kept)

\* The rules that stand on their own: those not preceded, among the kept ones, by
\* the start of a chain.
ChainStart(s) == \E k \in Block(s) : text[k].chain
Before(s) == {t \in RuleStarts : t < s /\ Kept(t)}
Prev(s) == CHOOSE t \in Before(s) : \A u \in Before(s) : u <= t
Own(s) == Before(s) = {} \/ ~ChainStart(Prev(s))
OwnRules == {s \in RuleStarts : Kept(s) /\ Own(s)}

\* What the engine makes of it: every rule that stands on its own has an
\* identifier no other rule has.
EngineAccepts ==
  /\ \A s \in OwnRules : BlockId(s, BlockEnd(s)) # 0
  /\ \A s, t \in OwnRules : BlockId(s, BlockEnd(s)) = BlockId(t, BlockEnd(t)) => s = t
  /\ loaded => \A s \in OwnRules : BlockId(s, BlockEnd(s)) \notin CrsIds

NewWAF ==
  /\ pc = "engine"
  /\ pc' = IF EngineAccepts THEN "started" ELSE "failed"
  /\ UNCHANGED <<text, crs, i, kept, loaded>>

Next == ReadCustom \/ FilterBlock \/ FilterDone \/ LoadCRS \/ NewWAF

Spec == Init /\ [][Next]_vars

----------------------------------------------------------------------------
\* Type invariant.
TypeOK ==
  /\ i \in 1..(Len(text) + 1) /\ ToSet(kept) \subseteq DOMAIN text
  /\ pc \in {"custom", "filter", "crs", "engine", "started", "failed", "panic"}

Filtered == pc \in {"crs", "engine", "started", "failed"} /\ crs.enabled /\ crs.at = "cwd" /\ kept # <<>>

\* filterDuplicateRules keeps a directive whole or not at all, in the order of
\* the text, and drops just the rules the CRS has.
FiltersBlocks ==
  Filtered =>
    /\ \A k \in 1..(Len(kept) - 1) : kept[k] < kept[k + 1]
    /\ \A s \in Starts :
         IF text[s].rule /\ BlockId(s, BlockEnd(s)) \in CrsIds
         THEN Block(s) \cap ToSet(kept) = {}
         ELSE Block(s) \subseteq ToSet(kept)

\* Custom rules that load on their own also load beside a CRS in the working
\* directory.
LoadsBesideCRS ==
  (pc = "failed" /\ crs.at # "root") => \E s \in RuleStarts : text[s].chain

\* Claims of the comments that the code does not keep.

\* The WAF always starts; the CRS just adds extra protection.
AlwaysStarts == pc # "failed"

\* Multi-line blocks are handled correctly: the filter never runs past the text.
FilterTotal == pc # "panic"
=============================================================================
