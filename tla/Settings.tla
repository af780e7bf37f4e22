------------------------------ MODULE Settings ------------------------------
(***************************************************************************)
(* How an engine gets its settings and where its audit log goes.  A        *)
(* configuration is a script of directives together with options set by    *)
(* the program; NewWAF runs the script, lets the options of the program    *)
(* overrule it, opens the audit log and validates the whole.  The          *)
(* transactions of the engine then write their audit logs concurrently.    *)
(*                                                                         *)
(* The option of a directive is a number: the number it says, or the       *)
(* constant of a word the directive knows, as types/waf.go counts them.    *)
(***************************************************************************)
EXTENDS Integers, Sequences, FiniteSets, Functions, SequencesExt

CONSTANTS
  Lines,           \* the directives of a script: <<setting, option>>
  MaxLines,        \* bound on the length of a script
  Options,         \* options the program may set: <<setting, value>>
  MaxOptions,      \* bound on the options of the program
  Cap,             \* 1 GiB, the largest limit of a body
  DefaultBody, DefaultArguments,   \* the defaults of the limits
  Txs              \* transactions that write an audit log

VARIABLES
  stage,           \* "config", "script", "built" or "refused"
  script,          \* the directives run so far
  program,         \* the options the program has set
  waf,             \* the settings of the engine
  tx,              \* where each transaction is in writing its audit log
  lock,            \* the transaction that holds the writer's mutex
  entries,         \* the audit log files of a concurrent writer
  index,           \* the lines of the audit log, in order
  failing          \* the disk or the log server refuses writes

vars == <<stage, script, program, waf, tx, lock, entries, index, failing>>

(* Options that are not numbers. *)
Empty == -101
Bad == -102
Free == "free"

(***************************************************************************)
(* The directives.  Each has an outcome: whether it succeeds and what it   *)
(* leaves in its setting, which some write before they look at the error.  *)
(***************************************************************************)
Sets(o) == [ok |-> TRUE, value |-> o]
Fails(left) == [ok |-> FALSE, value |-> left]
OneOf(S, o, left) == IF o \in S THEN Sets(o) ELSE Fails(left)
Text(o, old) == IF o = Empty THEN Fails(old) ELSE Sets(o)
Converted(o, old) == IF o \in {Empty, Bad} THEN Fails(old) ELSE Sets(o)
ConvertedInto(o, old) == IF o = Empty THEN Fails(old) ELSE IF o = Bad THEN Fails(0) ELSE Sets(o)

(* The words of types/waf.go, and those that name a writer or a formatter that is registered. *)
parseBoolean == {0, 1}
ParseRuleEngineStatus == 0..2
ParseAuditEngineStatus == 0..2
BodyLimitActions == {0, 1}
Serial == 0
Concurrent == 1
Https == 2
Syslog == 3
writers == Serial..Syslog
Native == 0
formatters == 0..3

SecResponseBodyAccess(o, old) == OneOf(parseBoolean, o, old)
SecRequestBodyAccess(o, old) == OneOf(parseBoolean, o, old)
SecUploadKeepFiles(o, old) == OneOf(parseBoolean, o, old)
SecRequestBodyLimit(o, old) == Converted(o, old)
SecResponseBodyLimit(o, old) == Converted(o, old)
SecRequestBodyInMemoryLimit(o, old) == Converted(o, old)
SecUploadFileLimit(o, old) == ConvertedInto(o, old)
SecRequestBodyNoFilesLimit(o, old) == ConvertedInto(o, old)
SecArgumentsLimit(o, old) == IF o > 0 THEN Sets(o) ELSE Fails(old)
SecRequestBodyLimitAction(o, old) == OneOf(BodyLimitActions, o, old)
SecResponseBodyLimitAction(o, old) == OneOf(BodyLimitActions, o, old)
SecRemoteRulesFailAction(o, old) == OneOf({0, 1}, o, old)
SecRuleEngine(o, old) == OneOf(ParseRuleEngineStatus, o, -1)
SecAuditEngine(o, old) == OneOf(ParseAuditEngineStatus, o, IF o = Empty THEN old ELSE -1)
SecWebAppID(o, old) == Text(o, old)
SecServerSignature(o, old) == Text(o, old)
SecSensorID(o, old) == Text(o, old)
SecDataDir(o, old) == Text(o, old)
SecAuditLog(o, old) == Text(o, old)
SecAuditLogDir(o, old) == Text(o, old)
SecAuditLogType(o, old) == OneOf(writers, o, old)
SecAuditLogFormat(o, old) == OneOf(formatters, o, old)
SecAuditLogDirMode(o, old) == Converted(o, old)
SecAuditLogFileMode(o, old) == Converted(o, old)
SecUploadFileMode(o, old) == Converted(o, old)
SecAuditLogRelevantStatus(o, old) == Converted(o, old)   \* Bad: no regular expression
SecAuditLogParts(o, old) == ConvertedInto(o, old)        \* Bad: not A...Z, or an unknown part
SecUploadDir(o, old) == Converted(o, old)                \* Bad: a directory that cannot be written
SecDebugLog(o, old) == Converted(o, old)                 \* Bad: a file that cannot be opened
SecDebugLogLevel(o, old) == OneOf(0..9, o, old)

(* Directives that are read and do nothing, and one that always fails. *)
Ignored == {"ConnWriteStateLimit", "ConnReadStateLimit", "PcreMatchLimitRecursion", "PcreMatchLimit", "HTTPBlKey",
            "GsbLookupDb", "HashMethodPm", "HashMethodRx", "HashParam", "HashKey", "HashEngine", "ConnEngine",
            "CollectionTimeout"}
SecRemoteRules(old) == Fails(old)

Known == {"ResponseBodyAccess", "RequestBodyAccess", "UploadKeepFiles", "RequestBodyLimit", "ResponseBodyLimit",
          "RequestBodyInMemoryLimit", "UploadFileLimit", "RequestBodyNoFilesLimit", "ArgumentsLimit",
          "RequestBodyLimitAction", "ResponseBodyLimitAction", "RemoteRulesFailAction", "RuleEngine", "AuditEngine",
          "WebAppID", "ServerSignature", "SensorID", "DataDir", "AuditLog", "AuditLogDir", "AuditLogType",
          "AuditLogFormat", "AuditLogDirMode", "AuditLogFileMode", "UploadFileMode", "AuditLogRelevantStatus",
          "AuditLogParts", "UploadDir", "DebugLog", "DebugLogLevel"}

(* The table of directives. *)
Outcome(d, o, old) ==
  CASE d = "ResponseBodyAccess" -> SecResponseBodyAccess(o, old)
    [] d = "RequestBodyAccess" -> SecRequestBodyAccess(o, old)
    [] d = "UploadKeepFiles" -> SecUploadKeepFiles(o, old)
    [] d = "RequestBodyLimit" -> SecRequestBodyLimit(o, old)
    [] d = "ResponseBodyLimit" -> SecResponseBodyLimit(o, old)
    [] d = "RequestBodyInMemoryLimit" -> SecRequestBodyInMemoryLimit(o, old)
    [] d = "UploadFileLimit" -> SecUploadFileLimit(o, old)
    [] d = "RequestBodyNoFilesLimit" -> SecRequestBodyNoFilesLimit(o, old)
    [] d = "ArgumentsLimit" -> SecArgumentsLimit(o, old)
    [] d = "RequestBodyLimitAction" -> SecRequestBodyLimitAction(o, old)
    [] d = "ResponseBodyLimitAction" -> SecResponseBodyLimitAction(o, old)
    [] d = "RemoteRulesFailAction" -> SecRemoteRulesFailAction(o, old)
    [] d = "RuleEngine" -> SecRuleEngine(o, old)
    [] d = "AuditEngine" -> SecAuditEngine(o, old)
    [] d = "WebAppID" -> SecWebAppID(o, old)
    [] d = "ServerSignature" -> SecServerSignature(o, old)
    [] d = "SensorID" -> SecSensorID(o, old)
    [] d = "DataDir" -> SecDataDir(o, old)
    [] d = "AuditLog" -> SecAuditLog(o, old)
    [] d = "AuditLogDir" -> SecAuditLogDir(o, old)
    [] d = "AuditLogType" -> SecAuditLogType(o, old)
    [] d = "AuditLogFormat" -> SecAuditLogFormat(o, old)
    [] d = "AuditLogDirMode" -> SecAuditLogDirMode(o, old)
    [] d = "AuditLogFileMode" -> SecAuditLogFileMode(o, old)
    [] d = "UploadFileMode" -> SecUploadFileMode(o, old)
    [] d = "AuditLogRelevantStatus" -> SecAuditLogRelevantStatus(o, old)
    [] d = "AuditLogParts" -> SecAuditLogParts(o, old)
    [] d = "UploadDir" -> SecUploadDir(o, old)
    [] d = "DebugLog" -> SecDebugLog(o, old)
    [] d = "DebugLogLevel" -> SecDebugLogLevel(o, old)
    [] d \in Ignored -> Sets(old)
    [] d = "RemoteRules" -> SecRemoteRules(old)

Unset == -100
Defaults == [s \in Known |->
  CASE s = "RequestBodyLimitAction" -> 1
    [] s \in {"RequestBodyLimit", "ResponseBodyLimit"} -> DefaultBody
    [] s = "ArgumentsLimit" -> DefaultArguments
    [] s \in {"RequestBodyInMemoryLimit", "AuditLogRelevantStatus", "AuditLog"} -> Unset
    [] s = "AuditLogParts" -> 1
    [] OTHER -> 0]

Init ==
  /\ stage = "config" /\ script = <<>> /\ program = <<>>
  /\ waf = Defaults
  /\ tx = [t \in Txs |-> "idle"] /\ lock = Free
  /\ entries = {} /\ index = <<>> /\ failing = FALSE

(* The program sets one more option of the configuration it will build the engine from. *)
With(option) ==
  /\ stage = "config" /\ Cardinality(DOMAIN program) < MaxOptions
  /\ program' = [s \in DOMAIN program \cup {option[1]} |-> IF s = option[1] THEN option[2] ELSE program[s]]
  /\ UNCHANGED <<stage, script, waf, tx, lock, entries, index, failing>>

(* NewWAF begins with the defaults. *)
NewWAF ==
  /\ stage = "config" /\ stage' = "script"
  /\ UNCHANGED <<script, program, waf, tx, lock, entries, index, failing>>

(* One line of the script.  An error ends the building of the engine. *)
Directive(line) ==
  LET d == line[1]
      old == IF d \in Known THEN waf[d] ELSE Unset
      outcome == Outcome(d, line[2], old)
  IN
  /\ stage = "script" /\ Len(script) < MaxLines
  /\ script' = Append(script, line)
  /\ waf' = IF d \in Known THEN [waf EXCEPT ![d] = outcome.value] ELSE waf
  /\ stage' = IF outcome.ok THEN stage ELSE "refused"
  /\ UNCHANGED <<program, tx, lock, entries, index, failing>>

(***************************************************************************)
(* NewWAF after the script.                                                *)
(***************************************************************************)
(* Mutant: the memory limit is not compared with the limit of the body. *)
ValidateAlone(w) ==
  /\ w["RequestBodyLimit"] \in 1..Cap
  /\ w["RequestBodyInMemoryLimit"] # Unset => w["RequestBodyInMemoryLimit"] > 0
  /\ w["ResponseBodyLimit"] \in 1..Cap
  /\ w["ArgumentsLimit"] > 0

Validate(w) ==
  /\ w["RequestBodyLimit"] \in 1..Cap
  /\ w["RequestBodyInMemoryLimit"] # Unset =>
       /\ w["RequestBodyInMemoryLimit"] > 0
       /\ w["RequestBodyInMemoryLimit"] <= w["RequestBodyLimit"]
  /\ w["ResponseBodyLimit"] \in 1..Cap
  /\ w["ArgumentsLimit"] > 0

OverruledIn(S, w) == [s \in Known |-> IF s \in S \cap DOMAIN program THEN program[s] ELSE w[s]]

(* An audit log configured by the program switches the audit engine on. *)
populateAuditLog(w) == OverruledIn({"AuditEngine", "AuditLogParts", "AuditLogType"}, w)

(* The other options of the program that are set; an access switch is set only when it is on. *)
Overruled(w) ==
  OverruledIn({"RequestBodyAccess", "RequestBodyLimit", "RequestBodyInMemoryLimit", "ResponseBodyAccess",
               "ResponseBodyLimit"}, w)

(* Whether each writer can open the target of the audit log. *)
Stdout == 0
SerialInit(w) == w["AuditLog"] \in {Unset, Stdout} \/ ~failing
ConcurrentInit(w) == w["AuditLog"] \in {Unset, Stdout} \/ ~failing
HttpsInit(w) == w["AuditLog"] # Bad                      \* Bad: no address
SyslogInit(w) == ~failing
Opens(w) ==
  CASE w["AuditLogType"] = Serial -> SerialInit(w)
    [] w["AuditLogType"] = Concurrent -> ConcurrentInit(w)
    [] w["AuditLogType"] = Https -> HttpsInit(w)
    [] w["AuditLogType"] = Syslog -> SyslogInit(w)

InitAuditLogWriter ==
  /\ stage = "script"
  /\ waf' = IF Opens(populateAuditLog(waf)) THEN Overruled(populateAuditLog(waf)) ELSE populateAuditLog(waf)
  /\ stage' = IF Opens(populateAuditLog(waf)) /\ Validate(waf') THEN "built" ELSE "refused"
  /\ UNCHANGED <<script, program, tx, lock, entries, index, failing>>

(***************************************************************************)
(* Writing an audit log.                                                   *)
(***************************************************************************)
(* A writer without a target keeps no formatter, and the native format of no parts is empty: nothing is written. *)
Silent ==
  \/ waf["AuditLog"] = Unset /\ waf["AuditLogType"] \in {Serial, Concurrent}
  \/ waf["AuditLogFormat"] = Native /\ waf["AuditLogParts"] = 0 /\ waf["AuditLogType"] \in {Serial, Concurrent}

Moves(t, to) == tx' = [tx EXCEPT ![t] = to]

(* Nothing to write. *)
WriteNothing(t) ==
  /\ stage = "built" /\ tx[t] = "idle" /\ Silent
  /\ Moves(t, "returned")
  /\ UNCHANGED <<stage, script, program, waf, lock, entries, index, failing>>

(* The serial writer gives the entry to a logger, which writes it under its own mutex and reports no error. *)
SerialWrite(t) ==
  /\ stage = "built" /\ tx[t] = "idle" /\ waf["AuditLogType"] = Serial /\ ~Silent
  /\ IF failing THEN Moves(t, "lost") /\ index' = index ELSE Moves(t, "returned") /\ index' = Append(index, t)
  /\ UNCHANGED <<stage, script, program, waf, lock, entries, failing>>

(* The remote writers send the entry in one call. *)
HttpsWrite(t) ==
  /\ stage = "built" /\ tx[t] = "idle" /\ waf["AuditLogType"] = Https
  /\ IF failing THEN Moves(t, "error") /\ index' = index ELSE Moves(t, "returned") /\ index' = Append(index, t)
  /\ UNCHANGED <<stage, script, program, waf, lock, entries, failing>>

SyslogWrite(t) ==
  /\ stage = "built" /\ tx[t] = "idle" /\ waf["AuditLogType"] = Syslog
  /\ IF failing THEN Moves(t, "error") /\ index' = index ELSE Moves(t, "returned") /\ index' = Append(index, t)
  /\ UNCHANGED <<stage, script, program, waf, lock, entries, failing>>

(* Mutant: the line of the index is written before the entry. *)
WriteEntryLater(t) ==
  /\ stage = "built" /\ tx[t] = "idle"
  /\ waf["AuditLogType"] = Concurrent /\ ~Silent
  /\ Moves(t, "stored")
  /\ UNCHANGED <<stage, script, program, waf, lock, entries, index, failing>>

(* The concurrent writer stores the entry in a file of its own, without the mutex. *)
WriteEntry(t) ==
  /\ stage = "built" /\ tx[t] = "idle"
  /\ waf["AuditLogType"] = Concurrent /\ ~Silent
  /\ IF failing
     THEN Moves(t, "error") /\ entries' = entries
     ELSE Moves(t, "stored") /\ entries' = entries \cup {t}
  /\ UNCHANGED <<stage, script, program, waf, lock, index, failing>>

Lock(t) ==
  /\ tx[t] = "stored" /\ lock = Free
  /\ lock' = t /\ Moves(t, "locked")
  /\ UNCHANGED <<stage, script, program, waf, entries, index, failing>>

(* The line of the index is appended under the mutex; when it cannot be, nobody is told. *)
AppendIndex(t) ==
  /\ tx[t] = "locked"
  /\ IF failing THEN Moves(t, "lost") /\ index' = index
     ELSE Moves(t, "returned") /\ index' = Append(index, t)
  /\ lock' = Free
  /\ UNCHANGED <<stage, script, program, waf, entries, failing>>

(* External: the disk fills, or the log server goes away and comes back. *)
Faults ==
  /\ failing' = ~failing
  /\ UNCHANGED <<stage, script, program, waf, tx, lock, entries, index>>

Next ==
  \/ \E option \in Options : With(option)
  \/ NewWAF
  \/ \E line \in Lines : Directive(line)
  \/ InitAuditLogWriter
  \/ \E t \in Txs : WriteNothing(t) \/ SerialWrite(t) \/ HttpsWrite(t) \/ SyslogWrite(t) \/ WriteEntry(t) \/ Lock(t) \/ AppendIndex(t)
  \/ Faults

Spec == Init /\ [][Next]_vars

(***************************************************************************)
(* Properties.                                                             *)
(***************************************************************************)
(* The variables have their types. *)
TypeOK ==
  /\ stage \in {"config", "script", "built", "refused"}
  /\ script \in Seq(Lines) /\ Len(script) <= MaxLines
  /\ DOMAIN waf = Known
  /\ tx \in [Txs -> {"idle", "stored", "locked", "returned", "lost", "error"}]
  /\ lock \in Txs \cup {Free}
  /\ entries \subseteq Txs /\ index \in Seq(Txs)

(* What a configuration says of a setting: the program's word, else the last word of the script, else the default. *)
Asked(s) ==
  LET said == SelectSeq(script, LAMBDA line : line[1] = s) IN
  IF s \in DOMAIN program THEN program[s] ELSE IF said = <<>> THEN Defaults[s] ELSE Last(said)[2]

(* An engine that was built has, for every setting, what its configuration asks for, whatever the order of *)
(* the directives and whichever of them were given twice; and its limits fit together: the buffer of a     *)
(* request body keeps at most the body limit in memory, which is at most 1 GiB (NewWAF, Validate).         *)
BuiltAsAsked ==
  stage = "built" =>
    /\ \A s \in Known : waf[s] = Asked(s)
    /\ \A i \in DOMAIN script : Outcome(script[i][1], script[i][2], Unset).ok
    /\ waf["RequestBodyLimit"] \in 1..Cap
    /\ waf["RequestBodyInMemoryLimit"] # Unset => waf["RequestBodyInMemoryLimit"] \in 1..waf["RequestBodyLimit"]

(* However the transactions interleave, an audit log whose write returned is in the log exactly once, and *)
(* every line of the index of a concurrent log points at an entry that is already stored                 *)
(* (auditlog.concurrentWriter, serialWriter).                                                            *)
IndexPointsAtEntries ==
  /\ \A t \in Txs : Len(SelectSeq(index, LAMBDA u : u = t)) = (IF tx[t] = "returned" /\ ~Silent THEN 1 ELSE 0)
  /\ waf["AuditLogType"] = Concurrent => ToSet(index) \subseteq entries

(* Claims of the comments that the code does not keep. *)

(* "Levels outside the 0-9 range will default to level 3 (Info)" (seclang/directives.go:1018). *)
LevelsDefault ==
  \A i \in DOMAIN script : script[i][1] = "DebugLogLevel" /\ script[i][2] \in Nat => stage # "refused" \/ i # Len(script)

=============================================================================
