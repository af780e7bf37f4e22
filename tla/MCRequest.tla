----------------------------- MODULE MCRequest -----------------------------
(***************************************************************************)
(* Small instances of what an engine keeps of a request and makes of it:   *)
(* the buffer of a body, the collections of arguments, the transformations *)
(* of their values, the variables and the audit log of a transaction, its  *)
(* scores, and the settings of the engine.  They share no state, so a      *)
(* behaviour is of one instance: part says which one.  The buffer stays as *)
(* it was created in the behaviours of the others, whose variables are     *)
(* Unused in those of the buffer.                                          *)
(***************************************************************************)
EXTENDS BodyBuffer, TLC

CONSTANTS Txs

VARIABLES
  part,
  data, ref,                                                      \* Collections
  alphabet, input,                                                \* Transformations
  step, get, post, types, processor, bodyError, strict, uploads, sizes, combined, disk,
  tmpNames, matched, highestSeverity, audit, sent, requests,      \* RequestData
  stage, script, program, waf, tx, lock, entries, index, failing, \* Settings
  sample, txMap, matchedVar, waiting, lookups, serving, hits, decided, panicked   \* TxVariables

collectionVars == <<data, ref>>
textVars == <<alphabet, input>>
requestVars == <<step, get, post, types, processor, bodyError, strict, uploads, sizes, combined,
                 disk, tmpNames, matched, highestSeverity, audit, sent, requests>>
settingVars == <<stage, script, program, waf, tx, lock, entries, index, failing>>
scoreVars == <<sample, txMap, matchedVar, waiting, lookups, serving, hits, decided, panicked>>
mcVars == <<part, vars, collectionVars, textVars, requestVars, settingVars, scoreVars>>

Unused == "unused"
NoCollections == data = Unused /\ ref = Unused
NoText == alphabet = Unused /\ input = Unused
NoRequest == /\ step = Unused /\ get = Unused /\ post = Unused /\ types = Unused
             /\ processor = Unused /\ bodyError = Unused /\ strict = Unused /\ uploads = Unused
             /\ sizes = Unused /\ combined = Unused /\ disk = Unused /\ tmpNames = Unused
             /\ matched = Unused /\ highestSeverity = Unused /\ audit = Unused /\ sent = Unused
             /\ requests = Unused
NoSettings == /\ stage = Unused /\ script = Unused /\ program = Unused /\ waf = Unused
              /\ tx = Unused /\ lock = Unused /\ entries = Unused /\ index = Unused
              /\ failing = Unused
NoScores == /\ sample = Unused /\ txMap = Unused /\ matchedVar = Unused /\ waiting = Unused
            /\ lookups = Unused /\ serving = Unused /\ hits = Unused /\ decided = Unused
            /\ panicked = Unused

\* The slices that are written to the buffer.
MCSlices == {<<1>>, <<2, 3>>}

Lower == [k \in {"a", "A", "b", "c"} |-> IF k = "A" THEN "a" ELSE k]

\* A map whose keys keep their case and one whose keys do not.
Maps == INSTANCE Collections WITH
  Keys <- {"a", "A", "b"}, ToLower <- Lower, Values <- {"v", "ww"},
  Length <- [x \in {"a", "A", "b", "v", "ww"} |-> IF x = "ww" THEN 2 ELSE 1],
  Sensitive <- [m \in {"get", "post"} |-> m = "get"], MaxPairs <- 2

\* The bytes that each decoder treats apart, and one or two that it does not.
Text == INSTANCE Transformations WITH
  Alphabets <- {[chars |-> {37, 43, 70, 49}, max |-> 4],     \* % + F 1
                [chars |-> {37, 117, 70}, max |-> 6],        \* % u F
                [chars |-> {92, 120, 102, 55}, max |-> 4],   \* \ x f 7
                [chars |-> {92, 117, 102}, max |-> 6],       \* \ u f
                [chars |-> {92, 48, 49, 10}, max |-> 4],     \* \ 0 1 and a line feed
                [chars |-> {47, 42, 45, 35}, max |-> 4],     \* / * - #
                [chars |-> {60, 33, 45, 62}, max |-> 5],     \* < ! - >
                [chars |-> {32, 9, 65, 47, 34}, max |-> 4],  \* white space, A / "
                [chars |-> {0, 59, 97, 32}, max |-> 3],      \* null, ; a
                [chars |-> {65, 98, 61, 255}, max |-> 4],   \* A b + = and a high byte
                [chars |-> {97, 233, 8364, 65313}, max |-> 3]}  \* characters of 1, 2 and 3 bytes

FilePart(f, name, size) == [file |-> f, name |-> name, size |-> size]

\* Queries with a name that repeats, with more names than the limit, and with two names
\* that differ in case; a multipart body of two files and a field.
Request == INSTANCE RequestData WITH
  files <- uploads, ToLower <- Lower, ArgumentLimit <- 2,
  Queries <- {<< <<"a", 1>>, <<"a", 2>>, <<"b", 1>>, <<"c", 1>> >>, << <<"a", 1>>, <<"A", 2>> >>},
  Multiparts <- {<<FilePart(TRUE, "a", 1), FilePart(FALSE, "b", 1), FilePart(TRUE, "A", 2)>>},
  ContentTypes <- {"urlencoded", "multipart", "other"},
  AuditParts <- {<<"C", "H", "K">>, <<"C", "K", "H">>, <<"C", "H">>},
  Rules <- {[id |-> 1, severity |-> 2, log |-> TRUE, datas |-> 2], [id |-> 2, severity |-> 5, log |-> FALSE, datas |-> 1],
            [id |-> 3, severity |-> 4, log |-> TRUE, datas |-> 1]},
  MaxHeaders <- 2, MaxMatches <- 2, MaxRequests <- 2

\* Scripts of three directives, accepted and not, with and without options of the program
\* that overrule them; -102 is an option that cannot be converted.
Engine == INSTANCE Settings WITH
  Lines <- {<<"RequestBodyLimit", 1>>, <<"RequestBodyLimit", 4>>, <<"RequestBodyInMemoryLimit", 0>>,
            <<"RequestBodyInMemoryLimit", 2>>, <<"AuditLog", 1>>, <<"AuditLogType", 1>>,
            <<"AuditLogType", 2>>, <<"AuditEngine", -102>>, <<"DebugLogLevel", 10>>,
            <<"ConnEngine", 1>>, <<"AuditLogParts", 0>>, <<"RemoteRules", 1>>},
  MaxLines <- 3, Cap <- 3, DefaultBody <- 2, DefaultArguments <- 2, MaxOptions <- 1,
  Options <- {<<"RequestBodyLimit", 3>>, <<"AuditEngine", 2>>, <<"AuditLogType", 3>>}

LexDigit(n) == [k |-> "digit", n |-> n, w |-> ""]
LexWord(w) == [k |-> "word", n |-> 0, w |-> w]
LexMark(k) == [k |-> k, n |-> 0, w |-> ""]
MacroOf(key) == <<LexMark("open"), LexWord("tx"), LexMark("dot"), LexWord(key), LexMark("close")>>
SetvarOf(key, value) == [remove |-> FALSE, key |-> <<LexWord(key)>>, hasValue |-> TRUE, value |-> value]
RuleOf(op, capture, groups, values, sets, adds) ==
  [op |-> op, capture |-> capture, groups |-> groups, values |-> values, value |-> <<LexWord(op)>>,
   sets |-> sets, arg |-> MacroOf("limit"), adds |-> adds, needs |-> FALSE, init |-> FALSE]
ScoreRules == {"ge", "gt", "le", "lt", "eq", "streq"}
ScoreWords == ScoreRules \cup {"tx", "score", "SCORE", "weight", "limit", "note", "flag", "rx", "pm", "action",
                               "matched_var", "httpbl", "listed"}

\* A rule that sets the weight and the threshold, one that adds the weight for each of two
\* matches, one that takes a point away and captures ten phrases, one with eleven groups,
\* one whose setvar has no value, and one for each comparison; macros of up to four lexemes.
Scores == INSTANCE TxVariables WITH
  Rules <- {[RuleOf("action", FALSE, 0, 1, <<SetvarOf("weight", <<LexDigit(3)>>), SetvarOf("limit", <<LexDigit(5)>>)>>, 0)
               EXCEPT !.init = TRUE],
            [RuleOf("rx", TRUE, 2, 2, <<SetvarOf("SCORE", <<LexMark("plus")>> \o MacroOf("weight"))>>, 3)
               EXCEPT !.needs = TRUE],
            RuleOf("pm", TRUE, 10, 1, <<SetvarOf("score", <<LexMark("minus"), LexDigit(1)>>)>>, -1),
            RuleOf("rx", TRUE, 11, 1, <<SetvarOf("note", <<LexMark("open"), LexWord("matched_var"), LexMark("close")>>)>>, 0),
            RuleOf("action", FALSE, 0, 1, <<[SetvarOf("flag", <<>>) EXCEPT !.hasValue = FALSE]>>, 0)}
           \cup {RuleOf(op, FALSE, 0, 1, <<>>, 0) : op \in ScoreRules},
  Sample <- UNION {[1 .. n -> {LexDigit(1), LexWord("tx"), LexWord("score"), LexMark("dot"), LexMark("open"),
                               LexMark("close"), LexMark("bad")}] : n \in 1 .. 4},
  ToLower <- [w \in ScoreWords |-> IF w = "SCORE" THEN "score" ELSE w],
  Variables <- {"matched_var"}, MaxInt <- 7, Limit <- 5, MaxHits <- 3, MaxRequests <- 2, MaxLookups <- 1

MCInit ==
  /\ Init
  /\ \/ part = "buffer" /\ NoCollections /\ NoText /\ NoRequest /\ NoSettings /\ NoScores
     \/ part = "maps" /\ Maps!Init /\ NoText /\ NoRequest /\ NoSettings /\ NoScores
     \/ part = "text" /\ Text!Init /\ NoCollections /\ NoRequest /\ NoSettings /\ NoScores
     \/ part = "request" /\ Request!Init /\ NoCollections /\ NoText /\ NoSettings /\ NoScores
     \/ part = "engine" /\ Engine!Init /\ NoCollections /\ NoText /\ NoRequest /\ NoScores
     \/ part = "scores" /\ Scores!Init /\ NoCollections /\ NoText /\ NoRequest /\ NoSettings

MCNext ==
  \/ part = "buffer" /\ Next /\ UNCHANGED <<part, collectionVars, textVars, requestVars, settingVars, scoreVars>>
  \/ part = "maps" /\ Maps!Next /\ UNCHANGED <<part, vars, textVars, requestVars, settingVars, scoreVars>>
  \/ part = "text" /\ Text!Next /\ UNCHANGED <<part, vars, collectionVars, requestVars, settingVars, scoreVars>>
  \/ part = "request" /\ Request!Next /\ UNCHANGED <<part, vars, collectionVars, textVars, settingVars, scoreVars>>
  \/ part = "engine" /\ Engine!Next /\ UNCHANGED <<part, vars, collectionVars, textVars, requestVars, scoreVars>>
  \/ part = "scores" /\ Scores!Next /\ UNCHANGED <<part, vars, collectionVars, textVars, requestVars, settingVars>>

MCSpec == MCInit /\ [][MCNext]_mcVars

\* What a rule compares is what the client sent: the readers of a collection return what
\* was put into it, encoders and decoders are inverse, transformations write in place and
\* settle, multiMatch ends in the value that a rule without it tries, and the arguments of
\* query and body are those that were sent, within the limit.  The score is the sum of what
\* the matched rules add, and TX is the transaction's own (see these properties in
\* Collections, Transformations, RequestData and TxVariables).
ValuesRight ==
  /\ part = "maps" => Maps!TypeOK /\ Maps!ReadersAgree
  /\ part = "text" => Text!RoundTrips /\ Text!MultimatchAgrees /\ Text!InPlace /\ Text!Settled
  /\ part = "request" => Request!ArgsKept
  /\ part = "scores" => Scores!TypeOK /\ Scores!ScoreAddsUp /\ Scores!TxIsOwn /\ Scores!CompileKeepsText

\* What a transaction leaves behind is whole: its audit log names the rules that matched,
\* concurrent writers store it before the index points at it, and Close removes the files
\* of its uploads (see AuditComplete and FilesRemoved in RequestData, IndexPointsAtEntries
\* in Settings).
RecordsWhole ==
  /\ part = "request" => Request!TypeOK /\ Request!AuditComplete /\ Request!FilesRemoved
  /\ part = "engine" => Engine!IndexPointsAtEntries

\* NewWAF: the settings of an engine are those its configuration asks for, in whatever
\* order, and fit together (see BuiltAsAsked in Settings).
BuiltAsAsked == part = "engine" => Engine!TypeOK /\ Engine!BuiltAsAsked

Symmetry == Permutations(Txs)
=============================================================================
