----------------------------- MODULE RequestData -----------------------------
(***************************************************************************)
(* What a transaction knows of its request: the arguments of the query,    *)
(* the cookies, the body processors that parse the body into arguments and *)
(* files, the rules that matched, and the audit log made of them.          *)
(*                                                                         *)
(* A collection is the sequence of its pairs of key and value (module      *)
(* Collections shows that it may be seen so).  Go visits the keys of a     *)
(* parsed query or body in any order, so an action that adds them chooses  *)
(* an order.                                                               *)
(***************************************************************************)
EXTENDS Naturals, Sequences, FiniteSets, SequencesExt, FiniteSetsExt

CONSTANTS
  ToLower,         \* key -> the key in lower case
  ArgumentLimit,   \* SecArgumentsLimit
  Queries,         \* parsed queries and bodies: sequences of <<key, value>>
  Multiparts,      \* multipart bodies: sequences of [file, name, size]
  ContentTypes,    \* values of Content-Type headers
  AuditParts,      \* orders of the parts of an audit log
  Rules,           \* rules that may match: [id, severity, log, datas]; datas counts their matches
  MaxHeaders, MaxMatches, MaxRequests   \* bounds

VARIABLES
  step,            \* what the connector has done: "idle", "uri", "body", "logged"
  get, post,       \* ARGS_GET and ARGS_POST
  types,           \* the Content-Type headers
  processor,       \* REQBODY_PROCESSOR
  bodyError,       \* REQBODY_ERROR
  strict,          \* MULTIPART_STRICT_ERROR
  files, sizes,    \* FILES, and FILES_SIZES by name
  combined,        \* FILES_COMBINED_SIZE
  disk, tmpNames,  \* temporary files that exist, and FILES_TMPNAMES
  matched,         \* rules that matched
  highestSeverity, \* HIGHEST_SEVERITY
  audit,           \* the messages of the audit log
  sent,            \* what the client sent: query and body
  requests         \* counts the requests

vars == <<step, get, post, types, processor, bodyError, strict, files, sizes, combined, disk, tmpNames, matched,
          highestSeverity, audit, sent, requests>>
request == <<get, post, types, processor, bodyError, strict, files, sizes, combined, disk, tmpNames, matched,
             highestSeverity, audit, sent>>

Same(k, l) == ToLower[k] = ToLower[l]
Names(c) == {ToLower[c[i][1]] : i \in DOMAIN c}
Keys(q) == {q[i][1] : i \in DOMAIN q}
Of(q, k) == SelectSeq(q, LAMBDA p : p[1] = k)

\* Add, Set and SetIndex(_, 0, _) of a collection whose keys ignore case.
Add(c, p) == Append(c, p)
Set(c, k, ps) == SelectSeq(c, LAMBDA p : ~Same(p[1], k)) \o ps
SetFirst(c, k, p) ==
  LET at == {i \in DOMAIN c : Same(c[i][1], k)} IN
  IF at = {} THEN Append(c, p) ELSE [c EXCEPT ![Min(at)] = p]

\* The orders in which Go may visit a set of keys.
Orders(ks) == SetToSeqs(ks)

Fresh ==
  /\ get = <<>> /\ post = <<>> /\ types = <<>> /\ processor = "" /\ bodyError = FALSE /\ strict = FALSE
  /\ files = <<>> /\ sizes = <<>> /\ combined = 0 /\ tmpNames = {} /\ matched = <<>> /\ highestSeverity = 0
  /\ audit = <<>> /\ sent = [query |-> <<>>, body |-> <<>>]

Init == step = "idle" /\ Fresh /\ disk = [held |-> {}, leaked |-> {}] /\ requests = 0

(***************************************************************************)
(* The request line and the headers                                        *)
(***************************************************************************)

\* Mutant: lets one more name in.
checkArgumentLimitLate(c) == Cardinality(Names(c)) > ArgumentLimit

\* The limit counts names.
checkArgumentLimit(c) == Cardinality(Names(c)) >= ArgumentLimit

AddArgument(c, p) == IF checkArgumentLimit(c) THEN c ELSE Add(c, p)

ExtractGetArguments(c, q, order) ==
  FoldLeft(LAMBDA a, k : FoldLeft(AddArgument, a, Of(q, k)), c, order)

\* A URI that does not parse gives no arguments.
ProcessURI(q, parses) ==
  /\ step = "idle" /\ requests < MaxRequests
  /\ \E order \in Orders(Keys(q)) : get' = IF parses THEN ExtractGetArguments(get, q, order) ELSE get
  /\ sent' = [sent EXCEPT !.query = IF parses THEN q ELSE <<>>]
  /\ step' = "uri" /\ requests' = requests + 1
  /\ UNCHANGED <<post, types, processor, bodyError, strict, files, sizes, combined, disk, tmpNames, matched,
                 highestSeverity, audit>>

\* Content-Type; other media types leave the processor as it is.
AddRequestHeader(type) ==
  /\ step = "uri" /\ Len(types) < MaxHeaders
  /\ types' = Append(types, type)
  /\ processor' = CASE type = "urlencoded" -> "URLENCODED"
                    [] type \in {"multipart", "malformed"} -> "MULTIPART"
                    [] OTHER -> processor
  /\ UNCHANGED <<step, get, post, bodyError, strict, files, sizes, combined, disk, tmpNames, matched,
                 highestSeverity, audit, sent, requests>>

\* ctl:requestBodyProcessor
SetProcessor(p) ==
  /\ step = "uri" /\ processor # p
  /\ processor' = p
  /\ UNCHANGED <<step, get, post, types, bodyError, strict, files, sizes, combined, disk, tmpNames, matched,
                 highestSeverity, audit, sent, requests>>

(***************************************************************************)
(* Body processors                                                         *)
(***************************************************************************)
generateRequestBodyError(failed) == bodyError' = failed

Parsed(c) ==
  /\ post' = c
  /\ generateRequestBodyError(FALSE)
  /\ UNCHANGED <<strict, files, sizes, combined, disk, tmpNames>>

ProcessUrlencoded(q) ==
  /\ processor = "URLENCODED"
  /\ \E order \in Orders(Keys(q)) : Parsed(FoldLeft(LAMBDA a, k : Set(a, k, Of(q, k)), post, order))

\* readJSON keeps the last value of a key.
ProcessJson(q) ==
  /\ processor = "JSON"
  /\ \E order \in Orders(Keys(q)) :
       Parsed(FoldLeft(LAMBDA a, k : SetFirst(a, k, Last(Of(q, k))), post, order))

\* Raw, XML and unknown processors set no arguments; an unknown one is an error.
ProcessOther(q) ==
  /\ processor \in {"", "RAW", "XML", "UNKNOWN"}
  /\ generateRequestBodyError(processor = "UNKNOWN")
  /\ UNCHANGED <<post, strict, files, sizes, combined, disk, tmpNames>>

\* What the loop over the parts of a multipart body knows.  Part n fails at "create" or "copy"
\* of its temporary file, or at "part" when it cannot be read; a file of a failed copy stays.
Part(s, n, parts, failAt, at) ==
  LET p == parts[n]
      fails == n = failAt IN
  IF s.err \/ (fails /\ (at = "part" \/ (p.file /\ at = "create"))) THEN [s EXCEPT !.err = TRUE]
  ELSE IF ~p.file
  THEN [s EXCEPT !.post = Add(@, <<p.name, p.size>>), !.combined = @ + p.size]
  ELSE IF fails THEN [s EXCEPT !.leaked = @ \cup {<<requests, n>>}, !.err = TRUE]
  ELSE [s EXCEPT !.held = @ \cup {<<requests, n>>}, !.files = Append(@, p.name),
                 !.sizes = [k \in DOMAIN @ \cup {ToLower[p.name]} |-> IF k = ToLower[p.name] THEN p.size ELSE @[k]],
                 !.combined = @ + p.size]

\* The media type is that of the first Content-Type header.
ProcessMultipart(parts, failAt, at) ==
  /\ processor = "MULTIPART"
  /\ LET mime == IF types = <<>> THEN "" ELSE types[1]
         start == [post |-> post, files |-> files, sizes |-> sizes, combined |-> combined, held |-> {},
                   leaked |-> {}, err |-> mime # "multipart"]
         s == FoldLeft(LAMBDA a, n : Part(a, n, parts, failAt, at), start, [n \in DOMAIN parts |-> n]) IN
     /\ post' = s.post /\ files' = s.files /\ sizes' = s.sizes /\ combined' = s.combined
     /\ tmpNames' = tmpNames \cup s.held
     /\ disk' = [held |-> disk.held \cup s.held, leaked |-> disk.leaked \cup s.leaked]
     /\ generateRequestBodyError(s.err)
     /\ strict' = (s.err /\ mime \in {"", "malformed", "multipart"})

ProcessRequestBody(q) ==
  /\ step = "uri"
  /\ \/ ProcessUrlencoded(q) \/ ProcessJson(q) \/ ProcessOther(q)
  /\ sent' = [sent EXCEPT !.body = q]
  /\ step' = "body"
  /\ UNCHANGED <<get, types, processor, matched, highestSeverity, audit, requests>>

ProcessMultipartBody(parts) ==
  /\ step = "uri"
  /\ \E failAt \in 0 .. Len(parts), at \in {"part", "create", "copy"} : ProcessMultipart(parts, failAt, at)
  /\ sent' = [sent EXCEPT !.body = parts]
  /\ step' = "body"
  /\ UNCHANGED <<get, types, processor, matched, highestSeverity, audit, requests>>

(***************************************************************************)
(* Matched rules and the audit log                                         *)
(***************************************************************************)
MatchRule(r) ==
  /\ step \in {"uri", "body"} /\ Len(matched) < MaxMatches
  /\ matched' = Append(matched, r)
  /\ highestSeverity' = IF r.severity > highestSeverity THEN r.severity ELSE highestSeverity
  /\ UNCHANGED <<step, get, post, types, processor, bodyError, strict, files, sizes, combined, disk, tmpNames,
                 audit, sent, requests>>

\* Part K has a message for every match of a rule; they carry the text of the error log when H came before it.
WithText(parts, n) == \E i \in 1 .. n - 1 : parts[i] = "H"

AuditLog(parts) ==
  LET logged == SelectSeq(matched, LAMBDA r : r.log)
      of(r, n) == [i \in 1 .. r.datas |-> [id |-> r.id, text |-> WithText(parts, n)]]
      at(n) == FlattenSeq([i \in DOMAIN logged |-> of(logged[i], n)])
      ks == {n \in DOMAIN parts : parts[n] = "K"} IN
  IF ks # {} THEN FlattenSeq([k \in 1 .. Cardinality(ks) |-> at(SetToSortSeq(ks, <)[k])])
  ELSE IF Contains(parts, "H")
  THEN [i \in DOMAIN logged |-> [id |-> 0, text |-> TRUE]]
  ELSE <<>>

\* The files of part C, each with the size that FILES_SIZES has for its name.
AuditFiles == [i \in DOMAIN files |-> [name |-> files[i], size |-> sizes[ToLower[files[i]]]]]

WriteAuditLog(parts) ==
  /\ step = "body"
  /\ audit' = [parts |-> parts, messages |-> AuditLog(parts), files |-> IF Contains(parts, "C") THEN AuditFiles ELSE <<>>]
  /\ step' = "logged"
  /\ UNCHANGED <<get, post, types, processor, bodyError, strict, files, sizes, combined, disk, tmpNames, matched,
                 highestSeverity, sent, requests>>

\* Removes the temporary files it knows of, and resets the variables.
Close ==
  /\ step \in {"uri", "body", "logged"}
  /\ disk' = [disk EXCEPT !.held = @ \ tmpNames]
  /\ get' = <<>> /\ post' = <<>> /\ types' = <<>> /\ processor' = "" /\ bodyError' = FALSE /\ strict' = FALSE
  /\ files' = <<>> /\ sizes' = <<>> /\ combined' = 0 /\ tmpNames' = {} /\ matched' = <<>> /\ highestSeverity' = 0
  /\ audit' = <<>> /\ sent' = [query |-> <<>>, body |-> <<>>]
  /\ step' = "idle"
  /\ UNCHANGED requests

Next ==
  \/ \E q \in Queries, b \in BOOLEAN : ProcessURI(q, b)
  \/ \E t \in ContentTypes : AddRequestHeader(t)
  \/ \E p \in {"JSON", "XML", "UNKNOWN"} : SetProcessor(p)
  \/ \E q \in Queries : ProcessRequestBody(q)
  \/ \E m \in Multiparts : ProcessMultipartBody(m)
  \/ \E r \in Rules : MatchRule(r)
  \/ \E parts \in AuditParts : WriteAuditLog(parts)
  \/ Close

Spec == Init /\ [][Next]_vars

(***************************************************************************)
(* Properties                                                              *)
(***************************************************************************)
Done == step \in {"body", "logged"}
Alone(q, p) == \A i \in DOMAIN q : Same(q[i][1], p[1]) => q[i][1] = p[1]

\* Types of the collections of files and of the steps.
TypeOK ==
  /\ step \in {"idle", "uri", "body", "logged"}
  /\ DOMAIN sizes = {ToLower[files[i]] : i \in DOMAIN files}
  /\ requests \in 0 .. MaxRequests

\* ARGS_GET holds nothing but arguments of the query, with at most ArgumentLimit names,
\* and misses one only when it has that many.  ARGS_POST has every name of a parsed body,
\* and every value of a name that no other name of the body equals but for its case.
\* FILES, its sizes and the fields are those of the parts of a body without an error.
ArgsKept ==
  /\ Cardinality(Names(get)) <= ArgumentLimit
  /\ ToSet(get) \subseteq ToSet(sent.query)
  /\ ToSet(sent.query) \subseteq ToSet(get) \/ Cardinality(Names(get)) = ArgumentLimit
  /\ Done /\ processor = "URLENCODED" =>
       /\ Names(post) = Names(sent.body)
       /\ \A i \in DOMAIN sent.body : Alone(sent.body, sent.body[i]) => Contains(post, sent.body[i])
  /\ Done /\ processor = "JSON" => Names(post) = Names(sent.body)
  /\ Done /\ processor = "MULTIPART" /\ ~bodyError =>
       /\ combined = FoldLeft(LAMBDA n, p : n + p.size, 0, sent.body)
       /\ Len(files) + Len(post) = Len(sent.body)

\* Every temporary file of an upload is one that Close removes, but for those whose copy
\* failed; after Close no other is left.  A body that is not parsed to its end is flagged.
FilesRemoved ==
  /\ disk.held = tmpNames
  /\ step = "idle" => disk.held = {}
  /\ Done /\ processor = "MULTIPART" /\ Len(files) + Len(post) # Len(sent.body) => bodyError

\* The audit log has, in the order in which they were found, the matches of the rules that
\* log and no others, and gives the text of each when part H is asked for before part K;
\* with part H alone it has one text for each of these rules.
\* A file whose name no other file has is listed with its own size.
AuditComplete ==
  step = "logged" =>
    LET logged == SelectSeq(matched, LAMBDA r : r.log)
        named(id) == Len(SelectSeq(audit.messages, LAMBDA m : m.id = id)) IN
    /\ Contains(audit.parts, "K") =>
         /\ \A r \in Rules : named(r.id) = Len(SelectSeq(logged, LAMBDA l : l = r)) * r.datas
         /\ \A i, j \in DOMAIN audit.messages : i < j =>
              \E k, l \in DOMAIN logged :
                k <= l /\ logged[k].id = audit.messages[i].id /\ logged[l].id = audit.messages[j].id
    /\ audit.parts = <<"C", "H">> => Len(audit.messages) = Len(logged)
    /\ audit.parts \in {<<"C", "H">>, <<"C", "H", "K">>} => \A i \in DOMAIN audit.messages : audit.messages[i].text
    /\ \A i \in DOMAIN audit.files : processor = "MULTIPART" /\ ~bodyError =>
         LET own == SelectSeq(sent.body, LAMBDA p : p.file /\ Same(p.name, audit.files[i].name)) IN
         audit.files[i].size = Last(own).size

(***************************************************************************)
(* Claims of the comments that the code does not keep                      *)
(***************************************************************************)

\* "Configures the maximum number of ARGS that will be accepted for processing.  Exceeding
\* the limit will not be included.  With JSON body processing, there is nothing to do when
\* exceed the limit." (seclang/directives.go:1267-1272): names are counted, not arguments,
\* and the processors of urlencoded and multipart bodies do not count at all.
LimitCountsArguments == Len(get) <= ArgumentLimit
LimitCountsBody == processor = "URLENCODED" => Cardinality(Names(post)) <= ArgumentLimit

\* "HighestSeverity is the highest severity from all matched rules"
\* (types/variables/variables.go:108), where emergency is 0 and debug 7: the code keeps the
\* largest number.
HighestIsMostSevere ==
  matched # <<>> => highestSeverity = Min({matched[i].severity : i \in DOMAIN matched})

\* "If AuditLogPartAuditLogTrailer (H) is set, we expect to log the error messages emitted
\* by the rules in the audit log" (corazawaf/transaction.go:1533): not when K comes before H.
TrailerHasTexts ==
  step = "logged" /\ Contains(audit.parts, "H") => \A i \in DOMAIN audit.messages : audit.messages[i].text
=============================================================================
