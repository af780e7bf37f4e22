-------------------------- MODULE Transformations --------------------------
(***************************************************************************)
(* The transformations of rules, and the parsers of queries and cookies,   *)
(* as operators on strings of bytes.  A scanner is one Step: from the      *)
(* input, the place and a mode it gives the bytes to write, the next place *)
(* and the next mode.  A transformation returns its output and whether it  *)
(* says that it changed the input.                                         *)
(*                                                                         *)
(* A behaviour types a string, byte by byte, from one of a few alphabets,  *)
(* and the properties hold of every string it can type.                    *)
(***************************************************************************)
EXTENDS Integers, Sequences, FiniteSets, SequencesExt, FiniteSetsExt

CONSTANTS Alphabets    \* set of [chars, max]: bytes, and the longest string of them

VARIABLES alphabet, input

vars == <<alphabet, input>>

\* Bytes by their names
Nul == 0
Tab == 9
LF == 10
CR == 13
Sp == 32
Quote == 34
Hash == 35
Percent == 37
Amp == 38
Apos == 39
Paren == 40
Star == 42
Plus == 43
Comma == 44
Dash == 45
Dot == 46
Slash == 47
Semi == 59
Lt == 60
Eq == 61
Gt == 62
Quest == 63
Back == 92
Caret == 94
Bang == 33

Upper(c) == c \in 65 .. 90
Digit(c) == c \in 48 .. 57
isodigit(c) == c \in 48 .. 55
ToLower(c) == IF Upper(c) THEN c + 32 ELSE c

\* The byte at place i, or -1 past the end: what "i+k < inputLen" guards in the code.
At(in, i) == IF i <= Len(in) THEN in[i] ELSE -1

\* in has the bytes of p from place i on.
Has(in, i, p) == \A k \in DOMAIN p : At(in, i + k - 1) = p[k]

ValidHex(c) == Digit(c) \/ c \in 97 .. 102 \/ c \in 65 .. 70
xsingle2c(c) == IF c >= 65 THEN (ToLower(c) - 97) + 10 ELSE c - 48

\* X2c on the two bytes from place i.
X2c(in, i) == 16 * xsingle2c(in[i]) + xsingle2c(in[i + 1])
HexFrom(in, i, n) == \A k \in 0 .. n - 1 : ValidHex(At(in, i + k))

\* Full width characters, ff01 to ff5e, stand for the ASCII character 0x20 above.
FullWidth(c, high, low) ==
  IF c \in 1 .. 94 /\ {high, low} \subseteq {70, 102} THEN c + 32 ELSE c

\* What a Step gives.
Emit(out, next, mode) == [out |-> out, next |-> next, mode |-> mode]
Copy(in, i, m) == Emit(<<in[i]>>, i + 1, m)

\* The loop of a scanner: all that it writes and the mode in which it ends.  Besides text,
\* a scanner may be in a comment, have changed the text, or have stopped.
Modes == {"text", "comment", "changed", "stop"}

Scan(in, Step(_, _, _)) ==
  LET f[i \in 1 .. Len(in) + 2, m \in Modes] ==
        IF i > Len(in) \/ m = "stop" THEN [out |-> <<>>, mode |-> m]
        ELSE LET s == Step(in, i, m)
                 rest == f[s.next, s.mode] IN
             [rest EXCEPT !.out = s.out \o @]
  IN f[1, "text"]

Run(in, Step(_, _, _)) == Scan(in, Step).out
Result(out, changed) == [out |-> out, changed |-> changed, err |-> FALSE]
Occurs(in, cs) == \E i \in DOMAIN in : in[i] \in cs

(***************************************************************************)
(* Percent encoding                                                        *)
(***************************************************************************)

UrlStep(in, i, m) ==
  IF in[i] = Percent /\ HexFrom(in, i + 1, 2) THEN Emit(<<X2c(in, i + 1)>>, i + 3, m)
  ELSE IF in[i] = Plus THEN Emit(<<Sp>>, i + 1, m) ELSE Copy(in, i, m)

urlDecode(in) == Result(Run(in, UrlStep), Occurs(in, {Percent, Plus}))

UniStep(in, i, m) ==
  IF in[i] = Percent /\ At(in, i + 1) \in {85, 117} THEN
    IF HexFrom(in, i + 2, 4)
    THEN Emit(<<FullWidth(X2c(in, i + 4), in[i + 2], in[i + 3])>>, i + 6, m)
    ELSE Emit(<<in[i], in[i + 1]>>, i + 2, m)
  ELSE UrlStep(in, i, m)

urlDecodeUni(in) == Result(Run(in, UniStep), Occurs(in, {Percent, Plus}))

HexDigit(n) == IF n < 10 THEN 48 + n ELSE 87 + n
HexPair(c) == <<HexDigit(c \div 16), HexDigit(c % 16)>>
Kept(c) == c = Star \/ Digit(c) \/ Upper(c) \/ c \in 97 .. 122

urlEncode(in) ==
  LET one(c) == IF c = Sp THEN <<Plus>> ELSE IF Kept(c) THEN <<c>> ELSE <<Percent>> \o HexPair(c) IN
  Result(FlattenSeq([i \in DOMAIN in |-> one(in[i])]), \E i \in DOMAIN in : ~Kept(in[i]))

\* The unescaping of queries.
hexDigitToByte(c) == IF ValidHex(c) THEN xsingle2c(c) ELSE -1

queryUnescape(in) ==
  LET Step(s, i, m) ==
        LET hi == hexDigitToByte(At(s, i + 1))
            lo == hexDigitToByte(At(s, i + 2)) IN
        CASE s[i] = Plus -> Emit(<<Sp>>, i + 1, m)
          [] s[i] = Percent /\ hi >= 0 /\ lo >= 0 -> Emit(<<16 * hi + lo>>, i + 3, m)
          [] OTHER -> Copy(s, i, m)
  IN Run(in, Step)

(***************************************************************************)
(* Hexadecimal and base 64                                                 *)
(***************************************************************************)
hexEncode(in) == Result(FlattenSeq([i \in DOMAIN in |-> HexPair(in[i])]), TRUE)

\* On an error the output is empty.
hexDecode(in) ==
  IF Len(in) % 2 = 0 /\ HexFrom(in, 1, Len(in))
  THEN Result([i \in 1 .. Len(in) \div 2 |-> X2c(in, 2 * i - 1)], TRUE)
  ELSE [out |-> <<>>, changed |-> FALSE, err |-> TRUE]

\* The value of a byte in base 64; -1 where the table has 127.
base64DecMap(c) ==
  CASE Upper(c) -> c - 65
    [] c \in 97 .. 122 -> c - 71
    [] Digit(c) -> c + 4
    [] c = Plus -> 62
    [] c = Slash -> 63
    [] OTHER -> -1

\* The bytes of n digits of base 64, fewer than four in the last group.
GroupBytes(g) ==
  LET x == FoldLeft(LAMBDA a, d : 64 * a + d, 0, g) IN
  CASE Len(g) = 4 -> <<x \div 65536, (x \div 256) % 256, x % 256>>
    [] Len(g) = 3 -> <<x \div 1024, (x \div 4) % 256>>
    [] Len(g) = 2 -> <<x \div 16>>
    [] OTHER -> <<>>

Skipped(c, ext) == c \in {CR, LF} \/ (ext /\ (c \in {9, 11, 12, Sp, 133, 160} \/ c = Dot))

\* Decodes up to the first byte that is not a digit.
doBase64decode(in, ext) ==
  LET kept == SelectSeq(in, LAMBDA c : ~Skipped(c, ext))
      bad == {i \in DOMAIN kept : base64DecMap(kept[i]) < 0}
      digits == [i \in 1 .. (IF bad = {} THEN Len(kept) ELSE Min(bad) - 1) |-> base64DecMap(kept[i])]
  IN FlattenSeq([g \in 1 .. (Len(digits) + 3) \div 4 |->
       GroupBytes(SubSeq(digits, 4 * g - 3, Min({4 * g, Len(digits)})))])

base64decode(in) == Result(doBase64decode(in, FALSE), TRUE)
base64decodeext(in) == Result(doBase64decode(in, TRUE), TRUE)

Digit64(n) ==
  IF n < 26 THEN 65 + n ELSE IF n < 52 THEN 71 + n ELSE IF n < 62 THEN n - 4 ELSE IF n = 62 THEN Plus ELSE Slash

base64encode(in) ==
  LET b(i) == IF i <= Len(in) THEN in[i] ELSE 0
      group(g) == LET i == 3 * g - 2
                      x == 65536 * b(i) + 256 * b(i + 1) + b(i + 2) IN
        <<Digit64(x \div 262144), Digit64((x \div 4096) % 64),
          IF i + 1 <= Len(in) THEN Digit64((x \div 64) % 64) ELSE Eq,
          IF i + 2 <= Len(in) THEN Digit64(x % 64) ELSE Eq>>
  IN Result(FlattenSeq([g \in 1 .. (Len(in) + 2) \div 3 |-> group(g)]), TRUE)

(***************************************************************************)
(* Escapes                                                                 *)
(***************************************************************************)
isspace(c) == c \in {Sp, 9, 10, 11, 12, 13}

CssStep(in, i, m) ==
  LET p == i + 1
      j == CHOOSE n \in 0 .. 6 : HexFrom(in, p, n) /\ (n = 6 \/ ~ValidHex(At(in, p + n)))
      low == IF j = 1 THEN xsingle2c(in[p]) ELSE X2c(in, p + j - 2)
      full == j = 4 \/ (j = 5 /\ in[p] = 48) \/ (j = 6 /\ in[p] = 48 /\ in[p + 1] = 48) IN
  CASE in[i] # Back -> Copy(in, i, m)
    [] in[i] = Back /\ i = Len(in) -> Emit(<<>>, i + 1, m)
    [] in[i] = Back /\ i < Len(in) /\ j > 0 ->
         Emit(<<IF full THEN FullWidth(low, in[p + j - 4], in[p + j - 3]) ELSE low>>,
              IF isspace(At(in, p + j)) THEN p + j + 1 ELSE p + j, m)
    [] in[i] = Back /\ At(in, p) = LF -> Emit(<<>>, p + 1, m)
    [] OTHER -> Emit(<<in[p]>>, p + 1, m)

cssDecode(in) == Result(Run(in, CssStep), Occurs(in, {Back}))

\* a, b, f, n, r, t and v after a backslash.
Control(c) ==
  CASE c = 97 -> 7 [] c = 98 -> 8 [] c = 102 -> 12 [] c = 110 -> 10
    [] c = 114 -> 13 [] c = 116 -> 9 [] c = 118 -> 11 [] OTHER -> c

\* The digits of an octal escape are read from the backslash on, which is no digit: the
\* byte is 0, and the escape takes two bytes after the backslash if there are two.
JsStep(in, i, m) ==
  LET d == At(in, i + 1) IN
  CASE in[i] # Back \/ i = Len(in) -> Copy(in, i, m)
    [] in[i] = Back /\ d = 117 /\ HexFrom(in, i + 2, 4) ->
         Emit(<<FullWidth(X2c(in, i + 4), in[i + 2], in[i + 3])>>, i + 6, "changed")
    [] in[i] = Back /\ d = 120 /\ HexFrom(in, i + 2, 2) -> Emit(<<X2c(in, i + 2)>>, i + 4, "changed")
    [] in[i] = Back /\ isodigit(d) -> Emit(<<0>>, Min({i + 3, Len(in) + 1}), "changed")
    [] OTHER -> Emit(<<Control(d)>>, i + 2, "changed")

jsDecode(in) == LET s == Scan(in, JsStep) IN Result(s.out, s.mode = "changed")

\* ParseUint gives the largest byte when the number is too large.
Octal(in, i, n) == LET v == FoldLeft(LAMBDA a, d : 8 * a + d - 48, 0, SubSeq(in, i, i + n - 1)) IN Min({v, 255})

EscapeStep(in, i, m) ==
  LET d == At(in, i + 1)
      n == CHOOSE k \in 0 .. 3 : /\ \A l \in 1 .. k : isodigit(At(in, i + l))
                                 /\ k = 3 \/ ~isodigit(At(in, i + k + 1)) IN
  CASE in[i] # Back \/ i = Len(in) -> Copy(in, i, m)
    [] in[i] = Back /\ (Control(d) # d \/ d \in {Back, Quest, Apos, Quote}) -> Emit(<<Control(d)>>, i + 2, "changed")
    [] in[i] = Back /\ d \in {120, 88} /\ HexFrom(in, i + 2, 2) -> Emit(<<X2c(in, i + 2)>>, i + 4, "changed")
    [] in[i] = Back /\ n > 0 -> Emit(<<Octal(in, i + 1, n)>>, i + n + 1, "changed")
    [] OTHER -> Emit(<<d>>, i + 2, m)

escapeSeqDecode(in) == LET s == Scan(in, EscapeStep) IN Result(s.out, s.mode = "changed")

(***************************************************************************)
(* Comments                                                                *)
(***************************************************************************)
Open == <<Slash, Star>>
Shut == <<Star, Slash>>
OpenTag == <<Lt, Bang, Dash, Dash>>
ShutTag == <<Dash, Dash, Gt>>
Dashes == <<Dash, Dash>>

\* The byte after a comment is copied as it is; past the end it is the pad, a null byte.
AfterComment(in, i) == Emit(<<IF i <= Len(in) THEN in[i] ELSE Nul>>, i + 1, "text")

RemoveStep(in, i, m) ==
  IF m = "comment"
  THEN CASE Has(in, i, Shut) -> AfterComment(in, i + 2)
         [] Has(in, i, ShutTag) -> AfterComment(in, i + 3)
         [] OTHER -> Emit(<<>>, i + 1, m)
  ELSE CASE Has(in, i, Open) -> Emit(<<>>, i + 2, "comment")
         [] Has(in, i, OpenTag) -> Emit(<<>>, i + 4, "comment")
         [] Has(in, i, Dashes) \/ in[i] = Hash -> Emit(<<>>, i, "stop")
         [] OTHER -> Copy(in, i, m)

removeComments(in) ==
  LET s == Scan(in, RemoveStep) IN
  Result(IF s.mode = "comment" THEN Append(s.out, Sp) ELSE s.out, s.mode \in {"comment", "stop"})

ReplaceStep(in, i, m) ==
  IF m = "comment"
  THEN IF Has(in, i, Shut) THEN Emit(<<Sp>>, i + 2, "text") ELSE Emit(<<>>, i + 1, m)
  ELSE IF Has(in, i, Open) THEN Emit(<<>>, i + 2, "comment") ELSE Copy(in, i, m)

replaceComments(in) ==
  LET s == Scan(in, ReplaceStep) IN
  Result(IF s.mode = "comment" THEN Append(s.out, Sp) ELSE s.out, \E i \in DOMAIN in : Has(in, i, Open))

RemoveCharStep(in, i, m) ==
  CASE Has(in, i, Open) \/ Has(in, i, Shut) -> Emit(<<>>, i + 2, "changed")
    [] Has(in, i, OpenTag) -> Emit(<<>>, i + 4, "changed")
    [] Has(in, i, ShutTag) -> Emit(<<>>, i + 3, "changed")
    [] Has(in, i, Dashes) /\ ~Has(in, i, ShutTag) -> Emit(<<>>, i + 2, "changed")
    [] in[i] = Hash -> Emit(<<>>, i + 1, "changed")
    [] OTHER -> Copy(in, i, m)

removeCommentsChar(in) == LET s == Scan(in, RemoveCharStep) IN Result(s.out, s.mode = "changed")

(***************************************************************************)
(* White space, case and null bytes                                        *)
(***************************************************************************)
isLatinSpace(c) == isspace(c) \/ c \in {133, 160}

compressWhitespace(in) ==
  LET second(i) == i > 1 /\ isLatinSpace(in[i]) /\ isLatinSpace(in[i - 1])
      kept == SelectSeq([i \in DOMAIN in |-> i], LAMBDA i : ~second(i)) IN
  Result([k \in DOMAIN kept |-> IF isLatinSpace(in[kept[k]]) THEN Sp ELSE in[kept[k]]], Len(kept) < Len(in))

removeWhitespace(in) == Result(SelectSeq(in, LAMBDA c : ~isLatinSpace(c)), \E i \in DOMAIN in : isLatinSpace(in[i]))

Solid(in) == {i \in DOMAIN in : ~isspace(in[i])}
Slice(in, lo, hi) == Result(SubSeq(in, lo, hi), lo > 1 \/ hi < Len(in))
trimLeft(in) == Slice(in, IF Solid(in) = {} THEN Len(in) + 1 ELSE Min(Solid(in)), Len(in))
trimRight(in) == Slice(in, 1, IF Solid(in) = {} THEN 0 ELSE Max(Solid(in)))
trim(in) == LET t == trimRight(trimLeft(in).out).out IN Result(t, Len(t) # Len(in))

Each(in, f(_)) == LET out == [i \in DOMAIN in |-> f(in[i])] IN Result(out, out # in)
lowerCase(in) == Each(in, ToLower)
upperCase(in) == Each(in, LAMBDA c : IF c \in 97 .. 122 THEN c - 32 ELSE c)
replaceNulls(in) == Each(in, LAMBDA c : IF c = Nul THEN Sp ELSE c)
removeNulls(in) == LET out == SelectSeq(in, LAMBDA c : c # Nul) IN Result(out, Len(out) # Len(in))

Dropped == {Quote, Apos, Back, Caret}
Spaces == {Sp, Comma, Semi, Tab, CR, LF}
needsTransform(c) == Upper(c) \/ c \in Dropped \cup Spaces \cup {Slash, Paren}

CmdByte(a, c) ==
  CASE c \in Dropped -> a
    [] c \in Spaces -> IF a.space THEN a ELSE [out |-> Append(a.out, Sp), space |-> TRUE]
    [] c \in {Slash, Paren} -> [out |-> Append(IF a.space THEN Front(a.out) ELSE a.out, c), space |-> FALSE]
    [] OTHER -> [out |-> Append(a.out, ToLower(c)), space |-> FALSE]

cmdLine(in) ==
  Result(FoldLeft(CmdByte, [out |-> <<>>, space |-> FALSE], in).out, \E i \in DOMAIN in : needsTransform(in[i]))

\* Here the input is the characters of the string, not its bytes.
numHexDigits(c) == IF c <= 15 THEN 1 ELSE IF c <= 255 THEN 2 ELSE IF c <= 4095 THEN 3 ELSE 4
Hex(c, n) == [i \in 1 .. n |-> HexDigit((c \div 16 ^ (n - i)) % 16)]

utf8ToUnicode(in) ==
  LET digits(c) == IF c < 65536 THEN numHexDigits(c) ELSE 5
      one(c) == IF c < 128 THEN <<c>>
                ELSE <<Percent, 117>> \o [i \in 1 .. 4 - numHexDigits(c) |-> 48] \o Hex(c, digits(c)) IN
  Result(FlattenSeq([i \in DOMAIN in |-> one(in[i])]), \E i \in DOMAIN in : in[i] >= 128)

(***************************************************************************)
(* Queries and cookies: sequences of names and values                      *)
(***************************************************************************)
Split(in, sep) ==
  FoldLeft(LAMBDA a, c : IF c = sep THEN Append(a, <<>>) ELSE [a EXCEPT ![Len(a)] = Append(@, c)], <<<<>>>>, in)

\* strings.Cut at the first sep.
Cut(in, sep) ==
  LET at == {i \in DOMAIN in : in[i] = sep} IN
  IF at = {} THEN <<in, <<>>>> ELSE <<SubSeq(in, 1, Min(at) - 1), SubSeq(in, Min(at) + 1, Len(in))>>

ParseQuery(in) ==
  LET pieces == SelectSeq(Split(in, Amp), LAMBDA p : p # <<>>)
      pair(p) == LET kv == Cut(p, Eq) IN <<queryUnescape(kv[1]), queryUnescape(kv[2])>> IN
  [i \in DOMAIN pieces |-> pair(pieces[i])]

ParseCookies(in) ==
  LET pieces == [i \in DOMAIN Split(in, Semi) |-> Cut(trim(Split(in, Semi)[i]).out, Eq)]
      named == [i \in DOMAIN pieces |-> <<trim(pieces[i][1]).out, pieces[i][2]>>] IN
  SelectSeq(named, LAMBDA kv : kv[1] # <<>>)

(***************************************************************************)
(* Chains of transformations, given by their names                         *)
(***************************************************************************)
Apply(t, in) ==
  CASE t = "urlDecode" -> urlDecode(in) [] t = "urlDecodeUni" -> urlDecodeUni(in) [] t = "urlEncode" -> urlEncode(in)
    [] t = "cssDecode" -> cssDecode(in) [] t = "jsDecode" -> jsDecode(in)
    [] t = "escapeSeqDecode" -> escapeSeqDecode(in) [] t = "removeComments" -> removeComments(in)
    [] t = "replaceComments" -> replaceComments(in) [] t = "removeCommentsChar" -> removeCommentsChar(in)
    [] t = "compressWhitespace" -> compressWhitespace(in) [] t = "removeWhitespace" -> removeWhitespace(in)
    [] t = "trim" -> trim(in) [] t = "trimLeft" -> trimLeft(in) [] t = "trimRight" -> trimRight(in)
    [] t = "lowercase" -> lowerCase(in) [] t = "uppercase" -> upperCase(in) [] t = "cmdLine" -> cmdLine(in)
    [] t = "replaceNulls" -> replaceNulls(in) [] t = "removeNulls" -> removeNulls(in)
    [] t = "hexDecode" -> hexDecode(in) [] t = "hexEncode" -> hexEncode(in)
    [] t = "base64Decode" -> base64decode(in) [] t = "base64DecodeExt" -> base64decodeext(in)
    [] t = "base64Encode" -> base64encode(in) [] t = "utf8toUnicode" -> utf8ToUnicode(in)

executeTransformations(in, ts) ==
  FoldLeft(LAMBDA v, t : LET r == Apply(t, v) IN IF r.err THEN v ELSE r.out, in, ts)

\* The values that a rule with multiMatch tries.
executeTransformationsMultimatch(in, ts) ==
  FoldLeft(LAMBDA vs, t : LET r == Apply(t, Last(vs)) IN IF r.changed /\ ~r.err THEN Append(vs, r.out) ELSE vs,
           <<in>>, ts)

(***************************************************************************)
(* Typing                                                                  *)
(***************************************************************************)
Init == alphabet \in Alphabets /\ input = <<>>

Type(c) ==
  /\ Len(input) < alphabet.max
  /\ input' = Append(input, c)
  /\ UNCHANGED alphabet

Next == \E c \in alphabet.chars : Type(c)

Spec == Init /\ [][Next]_vars

(***************************************************************************)
(* Properties                                                              *)
(***************************************************************************)
Bytes == \A i \in DOMAIN input : input[i] < 256

\* What urlEncode, hexEncode and base64Encode write, their decoders read back, and a query
\* or a Cookie header made of encoded names and values is parsed into them.  The two
\* decoders of percent encoding, of rules and of queries, agree.  A character of
\* utf8toUnicode is read by urlDecodeUni as its low byte, or as the ASCII character that
\* its full width form stands for.
RoundTrips ==
  /\ Bytes =>
       LET e == urlEncode(input).out
           f == IF e = <<>> THEN <<Star>> ELSE e
           query == e \o <<Eq>> \o e \o <<Amp>> \o e
           cookie == f \o <<Eq>> \o e \o <<Semi, Sp>> \o f IN
       /\ urlDecode(e).out = input
       /\ urlDecodeUni(e).out = input
       /\ hexDecode(hexEncode(input).out).out = input
       /\ base64decode(base64encode(input).out).out = input
       /\ ParseQuery(query) = <<<<input, input>>>> \o (IF input = <<>> THEN <<>> ELSE <<<<input, <<>>>>>>)
       /\ ParseCookies(cookie) = <<<<f, e>>, <<f, <<>>>>>>
  /\ queryUnescape(input) = urlDecode(input).out
  /\ (\A i \in DOMAIN input : input[i] < 65536 /\ input[i] # Percent /\ input[i] # Plus) =>
       urlDecodeUni(utf8ToUnicode(input).out).out = [i \in DOMAIN input |->
         IF input[i] \in 65281 .. 65374 THEN input[i] - 65248 ELSE input[i] % 256]

\* Transformations that never say that they changed nothing when they did.
Reporting ==
  {"urlDecode", "urlDecodeUni", "urlEncode", "cssDecode", "jsDecode", "replaceComments", "removeCommentsChar",
   "removeWhitespace", "trim", "trimLeft", "trimRight", "lowercase", "uppercase", "cmdLine", "replaceNulls",
   "removeNulls", "hexDecode", "hexEncode", "base64Decode", "base64DecodeExt", "base64Encode", "utf8toUnicode"}

\* The last value that a rule with multiMatch tries is the value that the same rule tries
\* without, whichever of its transformations fail or find nothing to change.
MultimatchAgrees ==
  Bytes => \A t \in Reporting :
    LET ts == <<t, "hexDecode", "lowercase">> IN
    Last(executeTransformationsMultimatch(input, ts)) = executeTransformations(input, ts)

\* The decoders write into the buffer they read: no step writes more bytes than it reads,
\* so that no byte is written over before it is read.
InPlace ==
  \A i \in DOMAIN input, m \in {"text", "comment"} :
    \A s \in {UrlStep(input, i, m), UniStep(input, i, m), CssStep(input, i, m), JsStep(input, i, m),
              EscapeStep(input, i, m), ReplaceStep(input, i, m), RemoveStep(input, i, m)} :
      Len(s.out) <= s.next - i

\* A second application of a normalisation changes nothing.
Settled ==
  /\ compressWhitespace(compressWhitespace(input).out).out = compressWhitespace(input).out
  /\ cmdLine(cmdLine(input).out).out = cmdLine(input).out
  /\ replaceComments(replaceComments(input).out).out = replaceComments(input).out
  /\ trim(trim(input).out).out = trim(input).out

(***************************************************************************)
(* Claims of the comments that the code does not keep                      *)
(***************************************************************************)

\* "Every time a transformation generates a new value different from the previous one, the
\* new value is collected to be evaluated" (corazawaf/rule.go:656): removeComments,
\* compressWhitespace and escapeSeqDecode may report no change of a value they changed.
NewValuesCollected ==
  \A t \in {"removeComments", "compressWhitespace", "escapeSeqDecode"} :
    Last(executeTransformationsMultimatch(input, <<t>>)) = executeTransformations(input, <<t>>)

\* "If a transformation fails to run it will return the same string and an error"
\* (plugintypes/transformation.go:8): hexDecode returns the empty string.
SameOnError == hexDecode(input).err => hexDecode(input).out = input

\* "\OOO (only one byte, \000 - \377)" (transformations/js_decode.go:60): jsDecode reads
\* every octal escape as a null byte.
OctalDecoded ==
  input = <<Back, 49, 48, 49>> => jsDecode(input).out = <<65>>
=============================================================================
