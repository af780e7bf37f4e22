---------------------------- MODULE TxVariables ----------------------------
(***************************************************************************)
(* The TX collection, in which the rules of a transaction keep scores:     *)
(* what setvar writes, how macros read it, what operators capture into it, *)
(* and what a DNS lookup of @rbl that outlives its timeout still writes.   *)
(* The object of a closed transaction is used again for the next request.  *)
(*                                                                         *)
(* A text is a sequence of lexemes: digits, signs, words, a full stop, the *)
(* braces of a macro, and a character no variable name has.  An int has so *)
(* few bits that every value in its range has one digit.                   *)
(***************************************************************************)
EXTENDS Integers, Sequences, FiniteSets, Functions, SequencesExt

CONSTANTS
  Rules,           \* [op, capture, groups, values, value, sets, arg, adds, needs, init]
  Sample,          \* texts whose macros are looked at on their own
  ToLower,         \* lower case of the words
  Variables,       \* words that name a variable other than TX
  MaxInt,          \* the largest int
  Limit,           \* the threshold that the rule with init sets
  MaxHits, MaxRequests, MaxLookups   \* bounds

VARIABLES
  sample,          \* a text of Sample, or <<>> when rules are evaluated
  txMap,           \* TX: its keys, each with a value and the request that wrote it
  matchedVar,      \* MATCHED_VAR
  waiting,         \* the lookup that @rbl waits for, 0 for none
  lookups,         \* what the goroutine of each lookup has come to, and its request
  serving,         \* the request that the transaction is used for
  hits,            \* rules of this request that matched, in order
  decided,         \* the last comparison of the score: what came before it and its result
  panicked         \* an action called a macro that is not there

vars == <<sample, txMap, matchedVar, waiting, lookups, serving, hits, decided, panicked>>

(***************************************************************************)
(* Texts and numbers                                                       *)
(***************************************************************************)
Digit(n) == [k |-> "digit", n |-> n, w |-> ""]
Word(w) == [k |-> "word", n |-> 0, w |-> w]
Mark(k) == [k |-> k, n |-> 0, w |-> ""]
Plus == Mark("plus")
Minus == Mark("minus")
Dot == Mark("dot")
Open == Mark("open")
Close == Mark("close")
Bad == Mark("bad")

Lowered(t) == [i \in DOMAIN t |-> IF t[i].k = "word" THEN Word(ToLower[t[i].w]) ELSE t[i]]
Wrap(n) == ((n + MaxInt + 1) % (2 * (MaxInt + 1))) - (MaxInt + 1)
Itoa(n) == IF n < 0 THEN <<Minus, Digit(-n)>> ELSE <<Digit(n)>>

(* External, strconv.Atoi: the number and whether it is one; a number out of range is the nearest in range. *)
Atoi(t) ==
  LET signed == t # <<>> /\ t[1] \in {Plus, Minus}
      digits == IF signed THEN Tail(t) ELSE t
      n == FoldLeft(LAMBDA a, d : 10 * a + d.n, 0, digits)
      v == IF signed /\ t[1] = Minus THEN -n ELSE n IN
  IF digits = <<>> \/ \E i \in DOMAIN digits : digits[i].k # "digit" THEN [n |-> 0, ok |-> FALSE]
  ELSE IF v > MaxInt THEN [n |-> MaxInt, ok |-> FALSE]
  ELSE IF v < -MaxInt - 1 THEN [n |-> -MaxInt - 1, ok |-> FALSE]
  ELSE [n |-> v, ok |-> TRUE]

(***************************************************************************)
(* Macros                                                                  *)
(***************************************************************************)
Unknown == "unknown"
TextToken(t) == [text |-> t, variable |-> Unknown, key |-> <<>>]
Flush(m) == IF m.current = <<>> THEN m ELSE [m EXCEPT !.tokens = Append(@, TextToken(m.current)), !.current = <<>>]
NameOf(t) == IF Contains(t, Dot) THEN SubSeq(t, 1, SelectInSeq(t, LAMBDA x : x = Dot) - 1) ELSE t
KeyOf(t) == IF Contains(t, Dot) THEN SubSeq(t, SelectInSeq(t, LAMBDA x : x = Dot) + 1, Len(t)) ELSE <<>>
isValidMacroChar(x) == x.k \in {"digit", "word", "dot", "minus"}

(* External, variables.Parse: the variable of a name in any case. *)
Parse(t) == IF Len(t) = 1 /\ t[1].k = "word" /\ ToLower[t[1].w] \in Variables \cup {"tx"} THEN ToLower[t[1].w] ELSE Unknown

CloseMacro(m) ==
  IF (m.current # <<>> /\ Last(m.current) = Dot) \/ Parse(NameOf(m.current)) = Unknown THEN [m EXCEPT !.ok = FALSE]
  ELSE [m EXCEPT !.isMacro = FALSE, !.current = <<>>,
                 !.tokens = Append(@, [text |-> m.current, variable |-> Parse(NameOf(m.current)),
                                       key |-> Lowered(KeyOf(m.current))])]

compile(input) ==
  LET step(m, i) ==
        IF ~m.ok THEN m
        ELSE IF input[i] = Open THEN [Flush(m) EXCEPT !.isMacro = TRUE]
        ELSE IF ~m.isMacro THEN [m EXCEPT !.current = Append(@, input[i])]
        ELSE IF input[i] = Close THEN CloseMacro(m)
        ELSE [m EXCEPT !.current = Append(@, input[i]), !.ok = isValidMacroChar(input[i]) /\ i # Len(input)]
      start == [tokens |-> <<>>, current |-> <<>>, isMacro |-> FALSE, ok |-> input # <<>>] IN
  LET m == FoldLeft(step, start, [i \in DOMAIN input |-> i]) IN IF m.ok THEN Flush(m) ELSE m

expandToken(map, matchedValue, token) ==
  IF token.variable = "tx" /\ token.key \in DOMAIN map THEN map[token.key].text
  ELSE IF token.variable \in Variables THEN matchedValue
  ELSE token.text

Expand(map, matchedValue, input) ==
  LET tokens == compile(input).tokens IN
  FlattenSeq([i \in DOMAIN tokens |-> expandToken(map, matchedValue, tokens[i])])

(***************************************************************************)
(* setvar: [remove, key, hasValue, value]                                  *)
(***************************************************************************)
(* An action whose key or value cannot be compiled is refused, and its rule with it. *)
SetvarInit(s) == s.key # <<>> /\ compile(s.key).ok /\ (s.hasValue => compile(s.value).ok)

SetBy(map, key, text, by) ==
  [k \in DOMAIN map \cup {key} |-> IF k = key THEN [text |-> text, by |-> by] ELSE map[k]]
Set(map, key, text) == SetBy(map, key, text, serving)

Added(current, value, n) == IF value[1] = Plus THEN Wrap(current + n) ELSE Wrap(current - n)

evaluateTxCollection(map, s, key, value) ==
  LET current == IF key \in DOMAIN map THEN map[key].text ELSE <<>>
      operand == IF Len(value) > 1 THEN Atoi(Tail(value)) ELSE [n |-> 0, ok |-> TRUE]
      number == IF current = <<>> THEN [n |-> 0, ok |-> TRUE] ELSE Atoi(current) IN
  IF s.remove THEN Restrict(map, DOMAIN map \ {key})
  ELSE IF value = <<>> \/ value[1] \notin {Plus, Minus} THEN Set(map, key, value)
  ELSE IF ~operand.ok
  THEN IF Len(value) > 2 /\ value[2] = Word("tx") /\ value[3] = Dot THEN map ELSE Set(map, key, value)
  ELSE IF ~number.ok THEN map
  ELSE Set(map, key, Itoa(Added(number.n, value, operand.n)))

SetvarEvaluate(map, matchedValue, s) ==
  evaluateTxCollection(map, s, Lowered(Expand(map, matchedValue, s.key)), Expand(map, matchedValue, s.value))

(***************************************************************************)
(* Operators                                                               *)
(***************************************************************************)
Field(i) == IF i < 10 THEN <<Digit(i)>> ELSE <<Digit(1), Digit(0)>>

CaptureField(map, capture, i, text) == IF capture THEN Set(map, Field(i), text) ELSE map

(* The groups of a regular expression that are captured, and the phrases of a list. *)
RxFields(n) == IF n > 9 THEN 9 ELSE n
PmFields(n) == IF n > 10 THEN 10 ELSE n

Captured(map, r) ==
  LET fields == IF r.op = "rx" THEN RxFields(r.groups) ELSE IF r.op = "pm" THEN PmFields(r.groups) ELSE 0 IN
  FoldLeft(LAMBDA m, i : CaptureField(m, r.capture, i - 1, r.value), map, [i \in 1 .. fields |-> i])

(* The comparisons of a value with an expanded argument: a text that is no number counts as 0. *)
ge(value, data) == Atoi(value).n >= Atoi(data).n
gt(value, data) == Atoi(value).n > Atoi(data).n
le(value, data) == Atoi(value).n <= Atoi(data).n
lt(value, data) == Atoi(value).n < Atoi(data).n
eq(value, data) == Atoi(data).n = Atoi(value).n
streq(value, data) == data = value
Comparisons == {"ge", "gt", "le", "lt", "eq", "streq"}
Compared(op, value, data) ==
  CASE op = "ge" -> ge(value, data)
    [] op = "gt" -> gt(value, data)
    [] op = "le" -> le(value, data)
    [] op = "lt" -> lt(value, data)
    [] op = "eq" -> eq(value, data)
    [] op = "streq" -> streq(value, data)

Score == <<Word("score")>>
Loaded(r) == \A i \in DOMAIN r.sets : SetvarInit(r.sets[i])
Panics(r) == \E i \in DOMAIN r.sets : ~r.sets[i].hasValue

Fresh == [k \in {Field(i) : i \in 0 .. 10} |-> [text |-> <<>>, by |-> serving]]
Nothing == [op |-> "ge", hit |-> FALSE, before |-> <<>>, score |-> FALSE]

Init ==
  /\ sample \in Sample \cup {<<>>}
  /\ serving = 1 /\ txMap = Fresh /\ matchedVar = <<>>
  /\ waiting = 0 /\ lookups = <<>> /\ hits = <<>> /\ decided = Nothing /\ panicked = FALSE

Busy == sample # <<>> \/ waiting # 0 \/ panicked

(* One match of a rule after another: the captures, MATCHED_VAR, and then the setvar actions in their order. *)
MatchedOnce(map, r) == FoldLeft(LAMBDA m, s : SetvarEvaluate(m, r.value, s), Captured(map, r), r.sets)

Matched(r, values) ==
  /\ hits' = Append(hits, r)
  /\ IF Panics(r)
     THEN panicked' = TRUE /\ UNCHANGED <<txMap, matchedVar>>
     ELSE /\ txMap' = FoldLeft(LAMBDA m, i : MatchedOnce(m, r), txMap, [i \in 1 .. values |-> i])
          /\ matchedVar' = r.value /\ UNCHANGED panicked

EvaluateRule(r) ==
  /\ ~Busy /\ Loaded(r) /\ r.op \in {"rx", "pm", "action"} /\ Len(hits) < MaxHits
  /\ Matched(r, r.values)
  /\ UNCHANGED <<sample, waiting, lookups, serving, decided>>

(* A rule that compares the score, when there is one. *)
EvaluateComparison(r) ==
  LET hit == Score \in DOMAIN txMap /\ Compared(r.op, txMap[Score].text, Expand(txMap, matchedVar, r.arg)) IN
  /\ ~Busy /\ Loaded(r) /\ r.op \in Comparisons /\ Len(hits) < MaxHits
  /\ IF hit THEN Matched(r, 1) ELSE UNCHANGED <<hits, txMap, matchedVar, panicked>>
  /\ decided' = [op |-> r.op, hit |-> hit, before |-> hits, score |-> Score \in DOMAIN txMap]
  /\ UNCHANGED <<sample, waiting, lookups, serving>>

(***************************************************************************)
(* @rbl: a goroutine looks the address up; the rule waits for its answer   *)
(* or for the timeout, whichever is first.                                 *)
(***************************************************************************)
Message == <<Word("httpbl")>>

RblEvaluate ==
  /\ ~Busy /\ Len(lookups) < MaxLookups
  /\ lookups' = Append(lookups, [at |-> "looking", found |-> FALSE, by |-> serving])
  /\ waiting' = Len(lookups')
  /\ UNCHANGED <<sample, txMap, matchedVar, serving, hits, decided, panicked>>

(* The answers have come; the message is about to be written.  A lookup that is cancelled has none. *)
RblAnswer(l, found) ==
  /\ lookups[l].at = "looking"
  /\ found => waiting = l
  /\ lookups' = [lookups EXCEPT ![l].at = IF found THEN "found" ELSE "sending", ![l].found = found]
  /\ UNCHANGED <<sample, txMap, matchedVar, waiting, serving, hits, decided, panicked>>

(* The goroutine writes into the transaction object, whoever uses it now. *)
RblWrite(l) ==
  /\ lookups[l].at = "found"
  /\ txMap' = SetBy(txMap, Message, <<Word("listed")>>, lookups[l].by)
  /\ lookups' = [lookups EXCEPT ![l].at = "sending"]
  /\ UNCHANGED <<sample, matchedVar, waiting, serving, hits, decided, panicked>>

RblReceive(capture) ==
  /\ waiting # 0 /\ lookups[waiting].at = "sending"
  /\ txMap' = IF lookups[waiting].found THEN CaptureField(txMap, capture, 0, <<Word("listed")>>) ELSE txMap
  /\ lookups' = [lookups EXCEPT ![waiting].at = "ended"]
  /\ waiting' = 0
  /\ UNCHANGED <<sample, matchedVar, serving, hits, decided, panicked>>

RblTimeout ==
  /\ waiting # 0 /\ waiting' = 0
  /\ UNCHANGED <<sample, txMap, matchedVar, lookups, serving, hits, decided, panicked>>

(* The transaction is closed and its object taken for the next request. *)
CloseTransaction ==
  /\ ~Busy /\ serving < MaxRequests
  /\ serving' = serving + 1
  /\ txMap' = Fresh'
  /\ matchedVar' = <<>> /\ hits' = <<>> /\ decided' = Nothing
  /\ UNCHANGED <<sample, waiting, lookups, panicked>>

Next ==
  \/ \E r \in Rules : EvaluateRule(r) \/ EvaluateComparison(r)
  \/ RblEvaluate \/ RblTimeout
  \/ \E l \in DOMAIN lookups : RblWrite(l) \/ \E found \in BOOLEAN : RblAnswer(l, found)
  \/ \E capture \in BOOLEAN : RblReceive(capture)
  \/ CloseTransaction

Spec == Init /\ [][Next]_vars

(***************************************************************************)
(* Properties                                                              *)
(***************************************************************************)
(* The variables have their types. *)
TypeOK ==
  /\ {Field(i) : i \in 0 .. 10} \subseteq DOMAIN txMap
  /\ waiting \in 0 .. Len(lookups) /\ serving \in 1 .. MaxRequests
  /\ Len(hits) <= MaxHits /\ panicked \in BOOLEAN

(* What the rules of s were written to add to the score: each its weight for every match, *)
(* once the rule that defines the weights has run.                                        *)
Total(s) ==
  LET adds(i) == IF s[i].needs /\ ~\E j \in 1 .. i - 1 : s[j].init THEN 0 ELSE s[i].adds * s[i].values IN
  FoldLeft(LAMBDA n, i : n + adds(i), 0, [i \in DOMAIN s |-> i])

(* The score is what the rules that matched add up to, in whatever order they ran, however they spell its  *)
(* name and whether they name their weight or a variable that holds it; it wraps around at the size of int. *)
(* A rule that compares it with a threshold in a variable decides by that sum, with 0 for a threshold that  *)
(* nothing has set (setvarFn.Evaluate, macro.Expand, ge.Evaluate).                                          *)
ScoreAddsUp ==
  /\ Score \in DOMAIN txMap => txMap[Score].text = Itoa(Wrap(Total(hits)))
  /\ decided.score =>
       LET set == \E j \in DOMAIN decided.before : decided.before[j].init
           over == Wrap(Total(decided.before)) - (IF set THEN Limit ELSE 0) IN
       decided.hit <=> \/ over > 0 /\ decided.op \in {"ge", "gt"}
                       \/ over < 0 /\ decided.op \in {"le", "lt"}
                       \/ over = 0 /\ decided.op \in {"ge", "le", "eq"}
                       \/ over = 0 /\ decided.op = "streq" /\ set

(* A captured field holds what the last capturing rule with so many groups put there (rx, pm and *)
(* CaptureField); nothing in TX is of an earlier request but the message of a lookup of @rbl whose *)
(* timeout had passed and whose goroutine waits for a reader ever after.                           *)
TxIsOwn ==
  /\ \A k \in DOMAIN txMap : txMap[k].by # serving =>
       k = Message /\ \E l \in DOMAIN lookups : lookups[l].by = txMap[k].by /\ lookups[l].at = "sending"
  /\ \A i \in 1 .. 9 : txMap[Field(i)].text # <<>> =>
       LET writers == {h \in DOMAIN hits : hits[h].capture /\ hits[h].groups > i /\ hits[h].op \in {"rx", "pm"}} IN
       \E h \in writers : /\ txMap[Field(i)].text = hits[h].value
                          /\ \A g \in writers : g > h => hits[g].op = "rx" /\ i = 9

(* Compiling a macro and writing its tokens down again gives the text that was compiled, but for an opening  *)
(* brace that the text ends with or that another follows within the same macro (macro.compile).               *)
CompileKeepsText ==
  LET m == compile(sample)
      shown(t) == IF t.variable = Unknown THEN t.text ELSE <<Open>> \o t.text \o <<Close>>
      opens(i) == sample[i] = Open /\ \E j \in i + 1 .. Len(sample) :
                    sample[j] = Close /\ \A k \in i + 1 .. j - 1 : sample[k] # Open
      kept == SelectSeq([i \in DOMAIN sample |-> i], LAMBDA i : sample[i] = Open => opens(i)) IN
  m.ok => FlattenSeq([i \in DOMAIN m.tokens |-> shown(m.tokens[i])]) =
          [i \in DOMAIN kept |-> sample[kept[i]]]

(* Claims of the comments that the code does not keep. *)

(* "Create a variable and set its value to 1": "setvar:TX.score"; "Remove a variable": "setvar:!TX.score"    *)
(* (actions/setvar.go:24, 30): both forms have no value, and Evaluate calls the macro of the value.          *)
NeverPanics == ~panicked

(* "we reset captures" (corazawaf/rulegroup.go:233): the flag is reset, the fields of TX are not. *)
CapturesReset ==
  \A i \in 1 .. 9 : hits # <<>> /\ Last(hits).groups <= i => txMap[Field(i)].text = <<>>

(* "Up to 10 captures will be copied on a successful pattern match, each with a name consisting of a digit   *)
(* from 0 to 9" (actions/capture.go:18): @rx stops before the tenth.                                         *)
TenCaptures == hits # <<>> /\ Last(hits).capture /\ Last(hits).groups >= 10 => txMap[Field(9)].text # <<>>

(* "TX contains transaction specific variables created with setvar" (types/variables/variables.go:168). *)
TransactionSpecific == \A k \in DOMAIN txMap : txMap[k].by = serving

=============================================================================
