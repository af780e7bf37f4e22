---------------------------- MODULE Collections ----------------------------
(***************************************************************************)
(* The collections that hold the variables of a transaction: maps from     *)
(* keys to values with keys that are case sensitive or not, the views of   *)
(* their names, their sizes, and concatenations such as ARGS.              *)
(*                                                                         *)
(* The code keeps a Go map from the key, in lower case unless the map is   *)
(* case sensitive, to a slice of pairs.  The reference is a sequence of    *)
(* the pairs in the order in which they came.  Go visits the keys of a map *)
(* in any order, so what all readers return is compared as a bag; the      *)
(* values of one key keep their order.                                     *)
(***************************************************************************)
EXTENDS Naturals, Sequences, FiniteSets, SequencesExt, FiniteSetsExt, BagsExt

CONSTANTS
  Keys, ToLower,     \* keys, and key -> the key in lower case
  Values, Length,    \* values; key or value -> its length
  Sensitive,         \* map -> its keys are case sensitive
  MaxPairs           \* bound on the pairs of a map

VARIABLES data,      \* map -> folded key -> sequence of pairs
          ref        \* map -> sequence of pairs

vars == <<data, ref>>

Maps == DOMAIN Sensitive
Pair(k, v) == [key |-> k, value |-> v]

\* The key under which a map keeps k.
Fold(m, k) == IF Sensitive[m] THEN k ELSE ToLower[k]

BagOf(s) == [x \in ToSet(s) |-> Cardinality({i \in DOMAIN s : s[i] = x})]
Slice(d, k) == IF k \in DOMAIN d THEN d[k] ELSE <<>>
Put(d, k, s) == [x \in DOMAIN d \cup {k} |-> IF x = k THEN s ELSE d[x]]

\* What the reference says: the same key, but for its case in a map that ignores it.
SameKey(m, k, l) == k = l \/ (~Sensitive[m] /\ ToLower[k] = ToLower[l])
Own(m, k) == SelectSeq(ref[m], LAMBDA p : SameKey(m, p.key, k))
Others(m, k) == SelectSeq(ref[m], LAMBDA p : ~SameKey(m, p.key, k))

Init ==
  /\ data = [m \in Maps |-> <<>>]
  /\ ref = [m \in Maps |-> <<>>]

(***************************************************************************)
(* The operations of Map and NamedCollection                               *)
(***************************************************************************)
Fits(m, n) == Len(ref[m]) + n <= MaxPairs

Add(m, k, v) ==
  /\ Fits(m, 1)
  /\ data' = [data EXCEPT ![m] = Put(@, Fold(m, k), Append(Slice(@, Fold(m, k)), Pair(k, v)))]
  /\ ref' = [ref EXCEPT ![m] = Append(@, Pair(k, v))]

\* The slice is used again when it is long enough, and cut to the new length.
Set(m, k, vs) ==
  /\ Len(Others(m, k)) + Len(vs) <= MaxPairs
  /\ LET new == [i \in DOMAIN vs |-> Pair(k, vs[i])] IN
     /\ data' = [data EXCEPT ![m] = Put(@, Fold(m, k), new)]
     /\ ref' = [ref EXCEPT ![m] = Others(m, k) \o new]

\* Positions of the pairs of k in the reference.
Positions(m, k) == {i \in DOMAIN ref[m] : SameKey(m, ref[m][i].key, k)}

\* Indexes count from 0; an index past the end appends.
SetIndex(m, k, i, v) ==
  /\ Fits(m, 1)
  /\ LET s == Slice(data[m], Fold(m, k))
         at == SetToSortSeq(Positions(m, k), <) IN
     /\ data' = [data EXCEPT ![m] =
          Put(@, Fold(m, k), IF Len(s) <= i THEN Append(s, Pair(k, v)) ELSE [s EXCEPT ![i + 1] = Pair(k, v)])]
     /\ ref' = [ref EXCEPT ![m] = IF Len(at) <= i THEN Append(@, Pair(k, v))
                                  ELSE [@ EXCEPT ![at[i + 1]] = Pair(k, v)]]

RemoveKey(m, k) ==
  /\ data' = [data EXCEPT ![m] = [x \in DOMAIN @ \ {Fold(m, k)} |-> @[x]]]
  /\ ref' = [ref EXCEPT ![m] = Others(m, k)]

Reset(m) ==
  /\ data' = [data EXCEPT ![m] = <<>>]
  /\ ref' = [ref EXCEPT ![m] = <<>>]

(***************************************************************************)
(* Readers                                                                 *)
(***************************************************************************)
ValuesOf(s) == [i \in DOMAIN s |-> s[i].value]
Get(m, k) == ValuesOf(Slice(data[m], Fold(m, k)))

\* Pairs under the keys of a set, with each pair as often as it occurs.
PairsOf(m, ks) ==
  LET hit == ks \cap DOMAIN data[m] IN
  FoldSet(LAMBDA k, b : b (+) BagOf(data[m][k]), EmptyBag, hit)

FindAll(m) == PairsOf(m, DOMAIN data[m])
FindString(m, k) == PairsOf(m, {Fold(m, k)})

\* A regular expression is the set of keys that it matches; it is tried on the key under
\* which the map keeps a pair.
FindRegex(m, re) == PairsOf(m, re)

\* NamedCollectionNames: the same pairs, with the key as the value.
AsNames(b) ==
  LET ks == {p.key : p \in BagToSet(b)} IN
  [n \in {Pair(k, k) : k \in ks} |->
     MapThenSumSet(LAMBDA p : b[p], {p \in BagToSet(b) : p.key = n.key})]

NamesFindAll(m) == AsNames(FindAll(m))
NamesFindRegex(m, re) == AsNames(FindRegex(m, re))

\* Its FindString compares with the key as it is given.
NamesFindString(m, k) == AsNames(PairsOf(m, {k}))

\* ConcatKeyed and ConcatCollection over all maps; Get puts the key in lower case first.
Concat(found) == FoldSet(LAMBDA m, b : b (+) found[m], EmptyBag, Maps)
ConcatFindAll == Concat([m \in Maps |-> FindAll(m)])
ConcatFindString(k) == Concat([m \in Maps |-> FindString(m, k)])
ConcatGet(k) == UNION {ToSet(Get(m, ToLower[k])) : m \in Maps}

\* SizeCollection
PairSize(p) == Length[p.key] + Length[p.value]
Size == FoldSet(LAMBDA m, n : n + FoldSet(LAMBDA k, l : l + FoldSeq(LAMBDA p, j : j + PairSize(p), 0, data[m][k]),
                                          0, DOMAIN data[m]), 0, Maps)

Next ==
  \E m \in Maps :
    \/ \E k \in Keys :
         \/ \E v \in Values : Add(m, k, v) \/ \E i \in 0 .. 1 : SetIndex(m, k, i, v)
         \/ \E vs \in {<<>>} \cup {<<v, w>> : v, w \in Values} : Set(m, k, vs)
         \/ RemoveKey(m, k)
    \/ Reset(m)

Spec == Init /\ [][Next]_vars

(***************************************************************************)
(* Properties                                                              *)
(***************************************************************************)
\* Types of the maps.
TypeOK == \A m \in Maps : DOMAIN data[m] \subseteq {Fold(m, k) : k \in Keys}

\* Get, FindString, FindAll, their views of names, concatenations and sizes return, after
\* any sequence of Add, Set, SetIndex, Remove and Reset, the pairs of the reference whose
\* key is the one asked for, each as often as it was put, with the case it came in.
ReadersAgree ==
  /\ \A m \in Maps, k \in Keys :
       LET mine == Own(m, k) IN
       /\ Get(m, k) = ValuesOf(mine)
       /\ FindString(m, k) = BagOf(mine)
       /\ NamesFindString(m, Fold(m, k)) = BagOf([i \in DOMAIN mine |-> Pair(mine[i].key, mine[i].key)])
  /\ \A m \in Maps :
       /\ FindAll(m) = BagOf(ref[m])
       /\ NamesFindAll(m) = BagOf([i \in DOMAIN ref[m] |-> Pair(ref[m][i].key, ref[m][i].key)])
       /\ \A k \in Keys : NamesFindRegex(m, {k}) = AsNames(FindString(m, k)) \/ Fold(m, k) # k
  /\ ConcatFindAll = FoldSet(LAMBDA m, b : b (+) BagOf(ref[m]), EmptyBag, Maps)
  /\ \A k \in Keys : ConcatFindString(k) =
       FoldSet(LAMBDA m, b : b (+) BagOf(Own(m, k)), EmptyBag, Maps)
  /\ Size = FoldSet(LAMBDA m, n : n + FoldSeq(LAMBDA p, j : j + PairSize(p), 0, ref[m]), 0, Maps)

(***************************************************************************)
(* Claims of the comments that the code does not keep                      *)
(***************************************************************************)

\* "Get returns a slice of strings for a key" (collection/collection.go:36), of a
\* concatenation of case sensitive maps: the key is put in lower case first, and a key
\* with capitals is not found.
ConcatGetFinds == \A k \in Keys : ConcatGet(k) = UNION {ToSet(Get(m, k)) : m \in Maps}
=============================================================================
