------------------------------ MODULE SecLang -------------------------------
(***************************************************************************)
(* Parser of internal/seclang: FromFile and FromString with Include, and   *)
(* parseString, which joins continued lines, skips comments and keeps the  *)
(* lines between backticks.                                                *)
(*                                                                         *)
(* A line is what parseString tells apart: how it starts, how it ends, and *)
(* the directive it starts: a name of a directive that compiles ("ok") or  *)
(* does not ("bad"), or "include" with the path of a file, relative to the *)
(* directory of the file it is in.  A path is a sequence of names; a       *)
(* pattern that names several files is left out.                           *)
(***************************************************************************)
EXTENDS Integers, Sequences, FiniteSets, SequencesExt

CONSTANTS
  Contents,             \* the possible contents of the files: functions from paths to lines
  Main,                 \* the path the parser is started on
  MaxIncludeRecursion

VARIABLES
  files,        \* the file system
  stack,        \* calls of parseString: file, next line, linebuffer, inBackticks
  currentFile, currentDir,
  includeCount,
  status,       \* running, ok, error or panic
  seen          \* history: the directives evaluated, where they stand and what the parser said of it

vars == <<files, stack, currentFile, currentDir, includeCount, status, seen>>

NoFile == <<>>
Dir(path) == Front(path)
Frame(path, dir) == [file |-> path, next |-> 1, buffer |-> <<>>, inTicks |-> FALSE, lastDir |-> dir]
Top == Last(stack)
Line == files[Top.file][Top.next]
Parsing == status = "running" /\ stack # <<>>
InFile == Parsing /\ Top.next <= Len(files[Top.file])

Init ==
  /\ files \in Contents
  /\ stack = << Frame(Main, <<>>) >> /\ currentFile = Main /\ currentDir = Dir(Main)
  /\ includeCount = 0 /\ status = "running" /\ seen = {}

----------------------------------------------------------------------------
\* parseString: the lines that are passed over.
Skipped(line) == line.head \in {"blank", "comment"}

\* The frames with the top one at its next line and otherwise changed.  Mutant:
\* a line passed over is read again.
AdvanceUnlessSkipped(buffer, inTicks) ==
  IF Skipped(Line) THEN stack
  ELSE [stack EXCEPT ![Len(stack)].next = @ + 1, ![Len(stack)].buffer = buffer, ![Len(stack)].inTicks = inTicks]
Advance(buffer, inTicks) ==
  [stack EXCEPT ![Len(stack)].next = @ + 1, ![Len(stack)].buffer = buffer, ![Len(stack)].inTicks = inTicks]

Skip ==
  /\ InFile /\ Skipped(Line)
  /\ stack' = Advance(Top.buffer, Top.inTicks)
  /\ UNCHANGED <<files, currentFile, currentDir, includeCount, status, seen>>

\* Whether the line leaves the parser between backticks.
InTicks(line) ==
  IF ~Top.inTicks /\ line.tail = "tick" THEN TRUE
  ELSE IF Top.inTicks /\ line.head = "tick" THEN FALSE
  ELSE Top.inTicks

\* A line between backticks, or one that is continued.
Buffer ==
  /\ InFile /\ ~Skipped(Line)
  /\ InTicks(Line) \/ Line.tail = "cont"
  /\ stack' = Advance(Append(Top.buffer, Top.next), InTicks(Line))
  /\ UNCHANGED <<files, currentFile, currentDir, includeCount, status, seen>>

\* The directive that ends with this line starts with the first line buffered.
Complete == InFile /\ ~Skipped(Line) /\ ~InTicks(Line) /\ Line.tail # "cont"
Whole == Append(Top.buffer, Top.next)
First == files[Top.file][Head(Whole)]
Seen == seen \cup {[file |-> Top.file, lines |-> ToSet(Whole), said |-> currentFile, dir |-> currentDir]}

\* linebuffer.Reset() after a directive.
BufferReset == <<>>

\* logAndReturnErr, and the returns of every parseString and FromFile above it.
Fail ==
  /\ status' = "error" /\ stack' = <<>>
  /\ currentFile' = NoFile /\ currentDir' = <<>>

EvaluateLine ==
  /\ Complete /\ First.dir # "include"
  /\ seen' = Seen
  /\ IF First.head = "comment"
     THEN status' = "panic" /\ UNCHANGED <<stack, currentFile, currentDir>>
     ELSE \/ /\ First.dir = "ok"
             /\ stack' = Advance(BufferReset, FALSE) /\ UNCHANGED <<status, currentFile, currentDir>>
          \/ First.dir = "bad" /\ Fail
  /\ UNCHANGED <<files, includeCount>>

Includes == includeCount

\* Include: FromFile on a path relative to the current directory.
Include ==
  /\ Complete /\ First.dir = "include"
  /\ seen' = Seen
  /\ LET path == currentDir \o First.path IN
       \/ Includes >= MaxIncludeRecursion /\ Fail /\ UNCHANGED includeCount
       \/ /\ Includes < MaxIncludeRecursion
          /\ includeCount' = includeCount + 1
          /\ \/ path \notin DOMAIN files /\ Fail
             \/ /\ path \in DOMAIN files
                /\ stack' = Append(Advance(BufferReset, FALSE), Frame(path, currentDir))
                /\ currentFile' = path /\ currentDir' = Dir(path)
                /\ UNCHANGED status
  /\ UNCHANGED files

\* The directory restored when a file is done.  Mutant: it stays.
DirKept == currentDir
DirRestored == Top.lastDir

\* The end of a file: parseString returns, and FromFile restores the directory
\* and forgets the file.  What is left in linebuffer is dropped.
EndOfFile ==
  /\ Parsing /\ Top.next > Len(files[Top.file])
  /\ \/ Top.inTicks /\ Fail
     \/ /\ ~Top.inTicks
        /\ stack' = Front(stack)
        /\ currentDir' = DirRestored /\ currentFile' = NoFile
        /\ status' = IF Len(stack) = 1 THEN "ok" ELSE "running"
  /\ UNCHANGED <<files, includeCount, seen>>

Next == Skip \/ Buffer \/ EvaluateLine \/ Include \/ EndOfFile

Spec == Init /\ [][Next]_vars
\* One goroutine parses; it is never held up.
FairSpec == Spec /\ WF_vars(Next)

----------------------------------------------------------------------------
\* Type invariant.
TypeOK ==
  /\ files \in Contents /\ status \in {"running", "ok", "error", "panic"}
  /\ includeCount \in 0..MaxIncludeRecursion
  /\ \A i \in DOMAIN stack : stack[i].file \in DOMAIN files /\ stack[i].next \in 1..(Len(files[stack[i].file]) + 1)
  /\ status = "running" <=> stack # <<>> /\ status # "panic"

\* The panic on an invalid line in evaluateLine is never reached.
NeverPanics == status # "panic"

\* An Include is resolved in the directory of the file it stands in, however
\* many files were included and left before it.
DirOfFile == Parsing => currentDir = Dir(Top.file)

\* No line of a file is part of two directives.
LinesUsedOnce ==
  \A s, t \in seen : s.file = t.file /\ s.lines \cap t.lines # {} => s.lines = t.lines

\* Files that include one another do not keep the parser busy for ever.
Terminates == <>(status # "running")

\* Claims of the comments that the code does not keep.

\* A directive knows the file it stands in (File_ of a rule).
FileNamed == \A s \in seen : s.said = s.file

\* When a file was parsed without an error, every line of it that is no comment
\* was part of a directive.
NothingDropped ==
  status = "ok" =>
    \A i \in DOMAIN files[Main] :
      Skipped(files[Main][i]) \/ \E s \in seen : s.file = Main /\ i \in s.lines
=============================================================================
