--------------------------- MODULE TransformCache ---------------------------
(***************************************************************************)
(* The transformation pipelines of rules and the cache of what they make   *)
(* of a variable: tFn.Init, AddTransformation, ClearTransformations,       *)
(* transformationID, GetField and transformArg, as RuleGroup.Eval uses     *)
(* them.  Rules are compiled one after the other, one t: action at a time; *)
(* then phases evaluate them in order over the collections of a            *)
(* transaction, one variable at a time.                                    *)
(*                                                                         *)
(* A transformed value is the term [fs, v]: the functions applied, and to  *)
(* what.  A Map of the transaction has a slice of values for each key, and *)
(* FindAll ranges over its keys in any order.                              *)
(* Variables of TX and rules with multiMatch do without the cache and are  *)
(* left out.                                                               *)
(***************************************************************************)
EXTENDS Integers, Sequences, SequencesExt, FiniteSetTheorems, TLAPS

CONSTANTS
  NRules,       \* the number of rules
  Transforms,   \* the transformations there are
  Pipelines,    \* the lists of t: actions a rule may have
  Targets,      \* what a rule may inspect: All, a key of the map, or Matched
  Headers,      \* the map: the values of each key
  SharedNames,  \* do the values of one key share the string of their key?
  NoKey,        \* the empty key of a variable that is no map
  Phases        \* bound: phases evaluated

VARIABLES
  names,    \* transformationIDToName, by identifier
  rule,     \* the rules compiled: target, functions, identifier
  actions,  \* the t: actions of the last of them that are still to be read
  phase,    \* 0: compiling
  at,       \* the rule that is evaluated; 0 before the first
  args,     \* its variables
  next,     \* the one that is transformed next
  matched,  \* the value of MATCHED_VAR
  cache,    \* transformationCache
  used      \* what the rule was given: the values, and what became of them

compiled == <<names, rule, actions>>
vars == <<compiled, phase, at, args, next, matched, cache, used>>

All == "all"
Matched == "matched"
None == "none"
Empty == <<>>

Init ==
  /\ names = <<Empty>> /\ rule = Empty /\ actions = Empty
  /\ phase = 0 /\ at = 0 /\ args = Empty /\ next = 1
  /\ matched = NoKey /\ cache = Empty /\ used = {}

----------------------------------------------------------------------------
\* transformationID: the identifier of a list of names extended by one, made up
\* when it is new.
IdOf(table, list) ==
  IF \E i \in DOMAIN table : table[i] = list
  THEN CHOOSE i \in DOMAIN table : table[i] = list
  ELSE Len(table) + 1
Extended(table, list) == IF IdOf(table, list) > Len(table) THEN Append(table, list) ELSE table

NewRule ==
  /\ phase = 0 /\ actions = Empty /\ Len(rule) < NRules
  /\ \E p \in Pipelines, tg \in Targets :
       /\ actions' = p
       /\ rule' = Append(rule, [target |-> tg, fs |-> Empty, id |-> 1])
  /\ UNCHANGED <<names, phase, at, args, next, matched, cache, used>>

\* A t: action of the rule under compilation: "none" clears the functions and
\* leaves the identifier, anything else is added to both.
AddTransformation ==
  /\ actions # Empty
  /\ LET r == Len(rule)
         t == Head(actions)
         list == Append(names[rule[r].id], t)
     IN IF t = None
        THEN rule' = [rule EXCEPT ![r].fs = Empty] /\ UNCHANGED names
        ELSE /\ rule' = [rule EXCEPT ![r].fs = Append(@, t), ![r].id = IdOf(names, list)]
             /\ names' = Extended(names, list)
  /\ actions' = Tail(actions)
  /\ UNCHANGED <<phase, at, args, next, matched, cache, used>>

----------------------------------------------------------------------------
\* A match has the address of its key, its variable and its value.
Pointer(k, j) == IF SharedNames THEN <<k>> ELSE <<k, j>>
Match(k, j) == [ptr |-> Pointer(k, j), var |-> All, v |-> Headers[k][j]]

\* FindAll: the values of a key come together and in their order, the keys in any.
Slots == UNION {{k} \X DOMAIN Headers[k] : k \in DOMAIN Headers}
Grouped(s) ==
  \A m, n \in DOMAIN s : m < n /\ s[m][1] = s[n][1]
                           => s[m][2] < s[n][2] /\ \A l \in m..n : s[l][1] = s[m][1]
FindAll == {[n \in DOMAIN s |-> Match(s[n][1], s[n][2])] : s \in {t \in SetToSeqs(Slots) : Grouped(t)}}
FindString(k) == [j \in DOMAIN Headers[k] |-> Match(k, j)]

\* GetField: the variables of a target, in one of the orders.
GetField(target) ==
  CASE target = All -> FindAll
    [] target = Matched -> { << [ptr |-> <<NoKey>>, var |-> Matched, v |-> matched] >> }
    [] OTHER -> { FindString(target) }

RuleDone == next > Len(args)

\* Eval empties the cache before the first rule of a phase.
CacheEmptied == Empty

BeginPhase ==
  /\ actions = Empty /\ Len(rule) = NRules /\ phase < Phases
  /\ phase > 0 => at = NRules /\ RuleDone
  /\ phase' = phase + 1 /\ at' = 0 /\ cache' = CacheEmptied /\ used' = {}
  /\ args' = Empty /\ next' = 1
  /\ UNCHANGED <<compiled, matched>>

EvaluateRule ==
  /\ phase > 0 /\ at < NRules /\ RuleDone
  /\ at' = at + 1
  /\ args' \in GetField(rule[at + 1].target) /\ next' = 1
  /\ used' = {}
  /\ UNCHANGED <<compiled, phase, matched, cache>>

\* Mutant: the key of the cache without the pipeline.
KeyAnyPipeline(a, i, r) == <<a.ptr, i, a.var, 0>>
CacheKey(a, i, r) == <<a.ptr, i, a.var, rule[r].id>>

\* executeTransformations
Transformed(r, v) == [fs |-> rule[r].fs, v |-> v]

\* The operator gets the value; if it matches, that is the new MATCHED_VAR.
Give(v, got) == used' = used \cup {[v |-> v, got |-> got]} /\ matched' \in {matched, got}

\* transformArg for the next variable.
TransformArg ==
  /\ phase > 0 /\ ~RuleDone
  /\ LET a == args[next]
         key == CacheKey(a, next - 1, at)
         val == Transformed(at, a.v)
     IN \/ rule[at].fs = Empty /\ Give(a.v, val) /\ UNCHANGED cache
        \/ rule[at].fs # Empty /\ key \in DOMAIN cache /\ Give(a.v, cache[key]) /\ UNCHANGED cache
        \/ /\ rule[at].fs # Empty /\ key \notin DOMAIN cache
           /\ Give(a.v, val)
           /\ cache' = [k \in DOMAIN cache \cup {key} |-> IF k = key THEN val ELSE cache[k]]
  /\ next' = next + 1
  /\ UNCHANGED <<compiled, phase, at, args>>

Next == NewRule \/ AddTransformation \/ BeginPhase \/ EvaluateRule \/ TransformArg

Spec == Init /\ [][Next]_vars

----------------------------------------------------------------------------
\* Type invariant; no two identifiers have the same names.
TypeOK ==
  /\ names \in Seq(Seq(Transforms)) /\ IsInjective(names)
  /\ rule \in Seq([target : Targets, fs : Seq(Transforms), id : DOMAIN names])
  /\ actions \in Seq(Transforms \cup {None})
  /\ phase \in 0..Phases /\ at \in 0..NRules /\ next \in 1..(Len(args) + 1)

\* transformArg hands a rule, for each variable it inspects, that variable with
\* the rule's own transformations applied, whether it comes from the cache or not.
CacheTransparent ==
  \A u \in used : u.got = Transformed(at, u.v)

\* Rules that share an identifier, and so the cache, apply the same functions.
SameIdSameFunctions ==
  \A r, s \in DOMAIN rule : rule[r].id = rule[s].id => rule[r].fs = rule[s].fs

(***************************************************************************)
(* Proofs.  The cache is keyed by an identifier that stands for a list of  *)
(* names and by the address of a key's string.  The first says what the    *)
(* rule applies as long as t:none comes first in a pipeline, the second    *)
(* what it is applied to as long as every value has a key of its own.      *)
(***************************************************************************)
NoneFirst ==
  /\ None \notin Transforms
  /\ \A p \in Pipelines : /\ p \in Seq(Transforms \cup {None})
                          /\ \A n \in DOMAIN p : p[n] = None => n = 1

OwnKeys ==
  /\ ~SharedNames /\ Matched \notin Targets /\ Targets \subseteq {All} \cup DOMAIN Headers
  /\ \A k \in DOMAIN Headers : \E n \in Nat : DOMAIN Headers[k] = 1..n
  /\ IsFiniteSet(Slots) /\ NRules \in Nat

RuleType == [target : Targets, fs : Seq(Transforms), id : Nat]

\* An identifier stands for the functions of every rule that has it, also of the rule
\* under compilation; "none" is read only while that has none yet.
NamedInv ==
  /\ names \in Seq(Seq(Transforms)) /\ names # Empty /\ names[1] = Empty
  /\ rule \in Seq(RuleType)
  /\ \A r \in DOMAIN rule : rule[r].id \in DOMAIN names /\ names[rule[r].id] = rule[r].fs
  /\ actions \in Seq(Transforms \cup {None})
  /\ actions # Empty => rule # Empty
  /\ \A n \in DOMAIN actions :
       actions[n] = None => n = 1 /\ rule[Len(rule)].fs = Empty /\ rule[Len(rule)].id = 1

\* Where the evaluation is, and that its variables are values of the map.
ArgsInv ==
  /\ phase \in Nat /\ at \in 0..NRules /\ next \in Nat \ {0}
  /\ phase > 0 => actions = Empty /\ Len(rule) = NRules
  /\ phase = 0 \/ at = 0 => args = Empty
  /\ \E n \in Nat : DOMAIN args = 1..n
  /\ \A n \in DOMAIN args : \E s \in Slots : args[n] = Match(s[1], s[2])

\* An entry of the cache is what the functions of its identifier make of the value at
\* its address.
CacheInv ==
  /\ phase = 0 => cache = Empty /\ used = {}
  /\ \A key \in DOMAIN cache : \E s \in Slots :
       /\ key[1] = s
       /\ cache[key] = [fs |-> names[key[4]], v |-> Headers[s[1]][s[2]]]

Inv == NamedInv /\ ArgsInv /\ CacheInv /\ CacheTransparent

----------------------------------------------------------------------------
\* transformationID returns an identifier of the list, and those given out before keep
\* their meaning.
LEMMA IdOfList ==
  ASSUME NEW S, NEW table \in Seq(S), NEW list \in S
  PROVE  /\ Extended(table, list) \in Seq(S)
         /\ IdOf(table, list) \in DOMAIN Extended(table, list)
         /\ Extended(table, list)[IdOf(table, list)] = list
         /\ \A i \in DOMAIN table : i \in DOMAIN Extended(table, list)
                                    /\ Extended(table, list)[i] = table[i]
<1>1. CASE \E i \in DOMAIN table : table[i] = list
  <2>1. IdOf(table, list) \in DOMAIN table /\ table[IdOf(table, list)] = list
    BY <1>1 DEF IdOf
  <2>2. Extended(table, list) = table
    BY <2>1 DEF Extended
  <2> QED
    BY <2>1, <2>2
<1>2. CASE ~ \E i \in DOMAIN table : table[i] = list
  <2>1. IdOf(table, list) = Len(table) + 1
    BY <1>2 DEF IdOf
  <2>2. Extended(table, list) = Append(table, list)
    BY <2>1 DEF Extended
  <2> QED
    BY <2>1, <2>2
<1> QED
  BY <1>1, <1>2

\* What Append, Tail and an update make of a sequence.
LEMMA Appended ==
  ASSUME NEW S, NEW s \in Seq(S), NEW e \in S
  PROVE  /\ Append(s, e) \in Seq(S) /\ Append(s, e) # <<>>
         /\ Len(Append(s, e)) = Len(s) + 1 /\ Append(s, e)[Len(s) + 1] = e
         /\ DOMAIN Append(s, e) = DOMAIN s \cup {Len(s) + 1}
         /\ \A i \in DOMAIN s : Append(s, e)[i] = s[i]
  OBVIOUS

LEMMA First ==
  ASSUME NEW S, NEW s \in Seq(S), s # <<>>
  PROVE  /\ 1 \in DOMAIN s /\ Len(s) \in DOMAIN s /\ Head(s) = s[1] /\ Tail(s) \in Seq(S)
         /\ \A i \in DOMAIN Tail(s) : i > 0 /\ i + 1 \in DOMAIN s /\ Tail(s)[i] = s[i + 1]
  OBVIOUS

LEMMA Replaced ==
  ASSUME NEW S, NEW s \in Seq(S), NEW i \in DOMAIN s, NEW e \in S
  PROVE  /\ [s EXCEPT ![i] = e] \in Seq(S) /\ DOMAIN [s EXCEPT ![i] = e] = DOMAIN s
         /\ Len([s EXCEPT ![i] = e]) = Len(s)
         /\ [s EXCEPT ![i] = e][i] = e
         /\ \A j \in DOMAIN s \ {i} : [s EXCEPT ![i] = e][j] = s[j]
  OBVIOUS

LEMMA NamedInit == Init => NamedInv
  BY DEF Init, NamedInv, Empty

\* NewRule: the rule has no functions yet, and the identifier of none.
LEMMA NewRuleNamed ==
  ASSUME NoneFirst, NamedInv, NewRule
  PROVE  NamedInv'
<1>1. PICK p \in Pipelines, tg \in Targets :
        actions' = p /\ rule' = Append(rule, [target |-> tg, fs |-> Empty, id |-> 1])
  BY DEF NewRule
<1> DEFINE new == [target |-> tg, fs |-> Empty, id |-> 1]
<1>2. new \in RuleType /\ new.fs = Empty /\ new.id = 1
  BY DEF Empty, RuleType
<1>7. rule' = Append(rule, new) /\ rule \in Seq(RuleType)
  BY <1>1 DEF NamedInv
<1> HIDE DEF new
<1>3. /\ rule' \in Seq(RuleType) /\ rule' # Empty
      /\ Len(rule') = Len(rule) + 1 /\ rule'[Len(rule')] = new
      /\ DOMAIN rule' = DOMAIN rule \cup {Len(rule')}
      /\ \A r \in DOMAIN rule : rule'[r] = rule[r]
  BY <1>2, <1>7, Appended DEF Empty
<1>4. names' = names /\ 1 \in DOMAIN names
  BY DEF NewRule, NamedInv, Empty
<1>5. \A r \in DOMAIN rule' : rule'[r].id \in DOMAIN names' /\ names'[rule'[r].id] = rule'[r].fs
  BY <1>2, <1>3, <1>4 DEF NamedInv
<1>6. /\ actions' \in Seq(Transforms \cup {None})
      /\ \A n \in DOMAIN actions' : actions'[n] = None => n = 1
  BY <1>1 DEF NoneFirst
<1> QED
  BY <1>2, <1>3, <1>4, <1>5, <1>6 DEF NamedInv

\* AddTransformation and ClearTransformations: functions and identifier stay in step.
LEMMA AddTransformationNamed ==
  ASSUME NoneFirst, NamedInv, AddTransformation
  PROVE  NamedInv'
<1> DEFINE r == Len(rule)
           t == Head(actions)
           list == Append(names[rule[r].id], t)
<1>1. /\ r \in DOMAIN rule /\ 1 \in DOMAIN actions /\ t = actions[1]
      /\ rule[r].id \in DOMAIN names /\ names[rule[r].id] = rule[r].fs
      /\ rule[r] \in RuleType
  BY First DEF AddTransformation, NamedInv, Empty
<1>2. /\ actions' = Tail(actions) /\ actions' \in Seq(Transforms \cup {None})
      /\ \A n \in DOMAIN actions' : n + 1 \in DOMAIN actions /\ actions'[n] = actions[n + 1] /\ n > 0
  BY First DEF AddTransformation, NamedInv, Empty
<1>3. \A n \in DOMAIN actions' : actions'[n] # None
  BY <1>2 DEF NamedInv
<1>4. CASE t = None
  <2>1. rule[r].fs = Empty
    BY <1>1, <1>4 DEF NamedInv
  <2>2. names' = names /\ rule' = [rule EXCEPT ![r].fs = Empty]
    BY <1>4 DEF AddTransformation
  <2>3. [rule[r] EXCEPT !.fs = Empty] = rule[r]
    BY <1>1, <2>1 DEF RuleType
  <2>4. rule' = rule
    BY <1>1, <2>2, <2>3 DEF NamedInv
  <2> QED
    BY <1>2, <1>3, <2>2, <2>4 DEF NamedInv, AddTransformation
<1>5. CASE t # None
  <2>1. t \in Transforms /\ list \in Seq(Transforms) /\ list = Append(rule[r].fs, t)
    BY <1>1, <1>5 DEF NamedInv, RuleType
  <2>2. /\ names' = Extended(names, list)
        /\ rule' = [rule EXCEPT ![r].fs = Append(@, t), ![r].id = IdOf(names, list)]
    BY <1>5 DEF AddTransformation
  <2> HIDE DEF list, t, r
  <2>3. /\ names' \in Seq(Seq(Transforms)) /\ IdOf(names, list) \in DOMAIN names'
        /\ names'[IdOf(names, list)] = list
        /\ \A i \in DOMAIN names : i \in DOMAIN names' /\ names'[i] = names[i]
    <3>1. names \in Seq(Seq(Transforms))
      BY DEF NamedInv
    <3>2. /\ Extended(names, list) \in Seq(Seq(Transforms))
          /\ IdOf(names, list) \in DOMAIN Extended(names, list)
          /\ Extended(names, list)[IdOf(names, list)] = list
          /\ \A i \in DOMAIN names : /\ i \in DOMAIN Extended(names, list)
                                     /\ Extended(names, list)[i] = names[i]
      <4> DEFINE S == Seq(Transforms)
      <4>1. names \in Seq(S) /\ list \in S
        BY <2>1, <3>1
      <4> HIDE DEF S
      <4>2. /\ Extended(names, list) \in Seq(S)
            /\ IdOf(names, list) \in DOMAIN Extended(names, list)
            /\ Extended(names, list)[IdOf(names, list)] = list
            /\ \A i \in DOMAIN names : /\ i \in DOMAIN Extended(names, list)
                                       /\ Extended(names, list)[i] = names[i]
        BY <4>1, IdOfList
      <4> QED
        BY <4>2 DEF S
    <3> QED
      BY <2>2, <3>2, Zenon
  <2>4. 1 \in DOMAIN names /\ names' # Empty /\ names'[1] = Empty
    BY <2>3 DEF NamedInv, Empty
  <2> DEFINE new == [rule[r] EXCEPT !.fs = list, !.id = IdOf(names, list)]
  <2>5. new \in RuleType /\ new.fs = list /\ new.id = IdOf(names, list)
    <3>1. IdOf(names, list) \in Nat
      BY <2>3
    <3> QED
      BY <1>1, <2>1, <3>1, Zenon DEF RuleType
  <2>9. rule' = [rule EXCEPT ![r] = new]
    BY <1>1, <2>1, <2>2 DEF RuleType
  <2> HIDE DEF new
  <2>6. /\ rule' \in Seq(RuleType)
        /\ DOMAIN rule' = DOMAIN rule /\ Len(rule') = Len(rule) /\ rule'[r] = new
        /\ \A s \in DOMAIN rule \ {r} : rule'[s] = rule[s]
    <3>1. rule \in Seq(RuleType)
      BY DEF NamedInv
    <3>2. r \in DOMAIN rule
      BY <1>1
    <3> QED
      BY <2>5, <2>9, <3>1, <3>2, Replaced
  <2>7. \A s \in DOMAIN rule' : rule'[s].id \in DOMAIN names' /\ names'[rule'[s].id] = rule'[s].fs
    <3>1. rule'[r].id \in DOMAIN names' /\ names'[rule'[r].id] = rule'[r].fs
      BY <2>3, <2>5, <2>6, Zenon
    <3>2. \A s \in DOMAIN rule : rule[s].id \in DOMAIN names /\ names[rule[s].id] = rule[s].fs
      BY DEF NamedInv
    <3>3. \A s \in DOMAIN rule \ {r} : rule'[s].id \in DOMAIN names' /\ names'[rule'[s].id] = rule'[s].fs
      BY <2>3, <2>6, <3>2, Zenon
    <3> QED
      BY <2>6, <3>1, <3>3, Zenon
  <2>8. rule' # Empty
    BY <1>1, <2>6 DEF NamedInv, Empty
  <2> QED
    BY <1>2, <1>3, <2>3, <2>4, <2>6, <2>7, <2>8 DEF NamedInv
<1> QED
  BY <1>4, <1>5

LEMMA NamedStep == ASSUME NoneFirst, NamedInv, [Next]_vars PROVE NamedInv'
<1>1. CASE UNCHANGED compiled
  BY <1>1 DEF compiled, NamedInv
<1>2. BeginPhase \/ EvaluateRule \/ TransformArg \/ UNCHANGED vars => UNCHANGED compiled
  BY DEF BeginPhase, EvaluateRule, TransformArg, vars
<1> QED
  BY <1>1, <1>2, NewRuleNamed, AddTransformationNamed DEF Next

\* transformationID, AddTransformation, ClearTransformations: as long as t:none comes first
\* in a pipeline, two rules with one identifier apply the same functions, for any
\* pipelines, in any order.
THEOREM IdsCorrect == ASSUME NoneFirst PROVE Spec => []SameIdSameFunctions
<1>1. NamedInv => SameIdSameFunctions
  BY DEF NamedInv, SameIdSameFunctions
<1> QED
  BY <1>1, NamedInit, NamedStep, PTL DEF Spec

----------------------------------------------------------------------------
LEMMA SlotPair ==
  ASSUME NEW s \in Slots
  PROVE  s[1] \in DOMAIN Headers /\ s[2] \in DOMAIN Headers[s[1]] /\ s = <<s[1], s[2]>>
  BY DEF Slots

\* GetField returns a list of values of the map.
LEMMA FieldArgs ==
  ASSUME OwnKeys, NEW target \in Targets, NEW f \in GetField(target)
  PROVE  /\ \E n \in Nat : DOMAIN f = 1..n
         /\ \A n \in DOMAIN f : \E s \in Slots : f[n] = Match(s[1], s[2])
<1>1. CASE target = All
  <2>1. f \in FindAll
    BY <1>1 DEF GetField, All, Matched
  <2>2. PICK t \in SetToSeqs(Slots) : f = [n \in DOMAIN t |-> Match(t[n][1], t[n][2])]
    BY <2>1 DEF FindAll
  <2>3. Cardinality(Slots) \in Nat
    BY FS_CardinalityType DEF OwnKeys
  <2>4. t \in [1..Cardinality(Slots) -> Slots]
    BY DEF SetToSeqs
  <2> QED
    BY <2>2, <2>3, <2>4
<1>2. CASE target # All
  <2>1. target \in DOMAIN Headers /\ target # Matched
    BY <1>2 DEF OwnKeys
  <2>2. f = [j \in DOMAIN Headers[target] |-> Match(target, j)]
    BY <1>2, <2>1 DEF GetField, FindString
  <2>3. PICK n \in Nat : DOMAIN Headers[target] = 1..n
    BY <2>1 DEF OwnKeys
  <2>4. \A j \in DOMAIN Headers[target] : <<target, j>> \in Slots
    BY <2>1 DEF Slots
  <2>5. \A j \in DOMAIN f : f[j] = Match(<<target, j>>[1], <<target, j>>[2])
    BY <2>2
  <2> QED
    BY <2>2, <2>3, <2>4, <2>5
<1> QED
  BY <1>1, <1>2

LEMMA EvalInit == OwnKeys /\ Init => ArgsInv /\ CacheInv /\ CacheTransparent
<1> SUFFICES ASSUME OwnKeys, Init PROVE ArgsInv /\ CacheInv /\ CacheTransparent
  OBVIOUS
<1>1. ArgsInv
  BY DEF Init, ArgsInv, Empty, OwnKeys
<1>2. CacheInv /\ CacheTransparent
  BY DEF Init, CacheInv, CacheTransparent, Empty
<1> QED
  BY <1>1, <1>2

\* While rules are compiled there is nothing in the cache yet.
LEMMA CompileStep ==
  ASSUME Inv, NewRule \/ AddTransformation
  PROVE  ArgsInv' /\ CacheInv' /\ CacheTransparent'
<1>1. /\ phase = 0 /\ cache = Empty /\ used = {} /\ args = Empty
      /\ UNCHANGED <<phase, at, args, next, cache, used>>
  BY DEF Inv, ArgsInv, CacheInv, NewRule, AddTransformation
<1>2. ArgsInv'
  BY <1>1 DEF Inv, ArgsInv, Empty
<1>3. CacheInv' /\ CacheTransparent'
  BY <1>1 DEF CacheInv, CacheTransparent, Empty
<1> QED
  BY <1>2, <1>3

LEMMA BeginPhaseStep ==
  ASSUME Inv, BeginPhase, OwnKeys
  PROVE  ArgsInv' /\ CacheInv' /\ CacheTransparent'
<1>1. ArgsInv'
  BY DEF Inv, ArgsInv, BeginPhase, compiled, Empty, OwnKeys
<1>2. CacheInv' /\ CacheTransparent'
  BY DEF Inv, ArgsInv, CacheInv, CacheTransparent, BeginPhase, CacheEmptied, Empty
<1> QED
  BY <1>1, <1>2

LEMMA EvaluateRuleStep ==
  ASSUME Inv, EvaluateRule, OwnKeys
  PROVE  ArgsInv' /\ CacheInv' /\ CacheTransparent'
<1>1. at + 1 \in 1..NRules /\ at + 1 \in DOMAIN rule
  BY DEF Inv, NamedInv, ArgsInv, EvaluateRule, OwnKeys
<1>2. rule[at + 1].target \in Targets
  <2>1. rule[at + 1] \in RuleType
    BY <1>1 DEF Inv, NamedInv
  <2> QED
    BY <2>1 DEF RuleType
<1>3. /\ \E n \in Nat : DOMAIN args' = 1..n
      /\ \A n \in DOMAIN args' : \E s \in Slots : args'[n] = Match(s[1], s[2])
  BY <1>2, FieldArgs DEF EvaluateRule
<1>4. ArgsInv'
  BY <1>1, <1>3 DEF Inv, ArgsInv, EvaluateRule, compiled
<1>5. CacheInv' /\ CacheTransparent'
  BY DEF Inv, ArgsInv, CacheInv, CacheTransparent, EvaluateRule, compiled
<1> QED
  BY <1>4, <1>5

\* transformArg: what is found under the key is what the rule would compute.
LEMMA TransformArgStep ==
  ASSUME Inv, TransformArg, OwnKeys
  PROVE  ArgsInv' /\ CacheInv' /\ CacheTransparent'
<1> DEFINE a == args[next]
           key == CacheKey(a, next - 1, at)
           val == Transformed(at, a.v)
<1>1. next \in DOMAIN args /\ at \in 1..NRules /\ at \in DOMAIN rule
  <2>1. PICK n \in Nat : DOMAIN args = 1..n
    BY DEF Inv, ArgsInv
  <2>2. Len(args) = n
    BY <2>1
  <2>3. next \in DOMAIN args
    BY <2>1, <2>2 DEF Inv, ArgsInv, TransformArg, RuleDone
  <2>4. args # Empty
    BY <2>3 DEF Empty
  <2> QED
    BY <2>3, <2>4 DEF Inv, NamedInv, ArgsInv, TransformArg, OwnKeys
<1>2. PICK s \in Slots : a = Match(s[1], s[2])
  BY <1>1 DEF Inv, ArgsInv
<1>3. a.ptr = s /\ a.v = Headers[s[1]][s[2]]
  BY <1>2, SlotPair DEF Match, Pointer, OwnKeys
<1>4. key[1] = s /\ key[4] = rule[at].id
  BY <1>3 DEF CacheKey
<1>5. val = [fs |-> names[key[4]], v |-> Headers[s[1]][s[2]]]
  <2>1. names[rule[at].id] = rule[at].fs
    BY <1>1 DEF Inv, NamedInv
  <2> QED
    BY <1>3, <1>4, <2>1, Zenon DEF Transformed
<1>6. key \in DOMAIN cache => cache[key] = val
  BY <1>4, <1>5 DEF Inv, CacheInv
<1>7. /\ UNCHANGED <<compiled, phase, at, args>> /\ next' = next + 1
      /\ used' = used \cup {[v |-> a.v, got |-> val]}
      /\ \/ UNCHANGED cache
         \/ cache' = [k \in DOMAIN cache \cup {key} |-> IF k = key THEN val ELSE cache[k]]
  BY <1>6 DEF TransformArg, Give
<1>8. ArgsInv'
  BY <1>7 DEF Inv, ArgsInv, compiled
<1>9. phase' # 0
  BY DEF TransformArg
<1> HIDE DEF a, key, val
<1>10. CacheInv'
  BY <1>4, <1>5, <1>7, <1>9 DEF Inv, CacheInv, compiled
<1>11. CacheTransparent'
  <2>1. \A v : Transformed(at, v)' = Transformed(at, v)
    BY <1>7 DEF Transformed, compiled
  <2> QED
    BY <1>7, <2>1 DEF Inv, CacheTransparent, val
<1> QED
  BY <1>8, <1>10, <1>11

\* transformArg, Eval, transformationID: as long as t:none comes first in a pipeline, every
\* value has a key string of its own and no rule looks at MATCHED_VAR, the cache cannot be
\* told from no cache, for any rules, pipelines, values and orders of the map.
THEOREM CacheCorrect == ASSUME NoneFirst, OwnKeys PROVE Spec => []CacheTransparent
<1>1. Init => Inv
  BY NamedInit, EvalInit DEF Inv
<1>2. Inv /\ [Next]_vars => Inv'
  <2> SUFFICES ASSUME Inv, [Next]_vars PROVE Inv'
    OBVIOUS
  <2>1. NamedInv'
    BY NamedStep DEF Inv
  <2>2. CASE UNCHANGED vars
    BY <2>1, <2>2 DEF Inv, vars, compiled, ArgsInv, CacheInv, CacheTransparent, Transformed
  <2> QED
    BY <2>1, <2>2, CompileStep, BeginPhaseStep, EvaluateRuleStep, TransformArgStep DEF Inv, Next
<1>3. Inv => CacheTransparent
  BY DEF Inv
<1> QED
  BY <1>1, <1>2, <1>3, PTL DEF Spec
=============================================================================
