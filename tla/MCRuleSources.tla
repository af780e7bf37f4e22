--------------------------- MODULE MCRuleSources ---------------------------
(***************************************************************************)
(* Small instances of the way from rule files to compiled rules: the       *)
(* parser of the files, the directives, the filter of duplicate rules and  *)
(* the transformation pipelines.  They share no state, so a behaviour is   *)
(* of one instance: part says which one, the variables of TransformCache   *)
(* keep their initial values in the others, and those that an instance     *)
(* does not have keep the value Unused.                                    *)
(***************************************************************************)
EXTENDS TransformCache, TLC

VARIABLES
  part,
  status,                                                         \* SecLang, Directives
  files, stack, currentFile, currentDir, includeCount, seen,      \* SecLang
  rules, defaults, ignore, mime, limit, n, asked,                 \* Directives
  text, crs, i, kept, loaded, pc                                  \* RuleLoading

fileVars == <<files, stack, currentFile, currentDir, includeCount, seen>>
wafVars == <<rules, defaults, ignore, mime, limit, n, asked>>
loadVars == <<text, crs, i, kept, loaded, pc>>
sourceVars == <<part, status, fileVars, wafVars, loadVars>>
allVars == <<sourceVars, vars>>

Unused == "unused"
NoFiles == /\ files = Unused /\ stack = Unused /\ currentFile = Unused
           /\ currentDir = Unused /\ includeCount = Unused /\ seen = Unused
NoWaf == /\ rules = Unused /\ defaults = Unused /\ ignore = Unused /\ mime = Unused
         /\ limit = Unused /\ n = Unused /\ asked = Unused
NoLoad == /\ text = Unused /\ crs = Unused /\ i = Unused /\ kept = Unused
          /\ loaded = Unused /\ pc = Unused

TextsOf(lines, most) == UNION {[1..k -> lines] : k \in 1..most}

----------------------------------------------------------------------------
\* A main file of up to three lines that includes a file in a directory of its own,
\* which may include a third or itself.
Line(h, t, d) == [head |-> h, tail |-> t, dir |-> d, path |-> <<>>]
Inc(t, p) == [head |-> "text", tail |-> t, dir |-> "include", path |-> p]
Ok == Line("text", "plain", "ok")
MainLines == { Ok, Line("text", "cont", "ok"), Line("text", "tick", "ok"),
               Line("tick", "tick", "bad"), Line("comment", "plain", "ok"),
               Line("comment", "cont", "ok"), Line("blank", "plain", "ok"),
               Line("text", "plain", "bad"), Inc("plain", <<"d", "sub">>) }
SubFiles == { <<Ok>>, <<Inc("plain", <<"sub">>)>>,
              <<Inc("plain", <<"leaf">>), Inc("plain", <<"leaf">>)>>,
              <<Inc("cont", <<"leaf">>), Line("text", "plain", "bad"), Ok>> }
FileSystem(main, sub) ==
  (<<"main">> :> main) @@ (<<"d", "sub">> :> sub) @@ (<<"d", "leaf">> :> <<Ok>>)

Parser == INSTANCE SecLang WITH
  Contents <- {FileSystem(m, s) : m \in TextsOf(MainLines, 3), s \in SubFiles},
  Main <- <<"main">>, MaxIncludeRecursion <- 3

----------------------------------------------------------------------------
\* Three directives that add and remove rules, with default actions.
Adding == INSTANCE Directives WITH
  Ids <- {0, 1, 2}, Tags <- {"t"}, Phases <- {1, 2},
  Actions <- {<<>>, <<"deny">>, <<"block", "nolog">>, <<"deny", "nolog", "pass">>},
  Defaults <- {[phase |-> 2, acts |-> <<"log", "deny">>], [phase |-> 1, acts |-> <<"pass">>],
               [phase |-> 1, acts |-> <<"log">>]},
  Allowed <- {"SecRule", "SecAction", "SecMarker", "SecDefaultAction",
              "SecIgnoreRuleCompilationErrors", "SecRuleRemoveById", "SecRuleRemoveByTag"},
  Limits <- {1}, Gib <- 2, MaxDirectives <- 3

\* Four directives that update rules and settings, and the WAF made of them.
Updating == INSTANCE Directives WITH
  Ids <- {0, 1, 2}, Tags <- {"t"}, Phases <- {2}, Actions <- {<<"deny">>, <<"nolog">>},
  Defaults <- {},
  Allowed <- {"SecRule", "SecRuleUpdateTargetById", "SecRuleUpdateTargetByRange",
              "SecRuleUpdateTargetByTag", "SecRuleUpdateActionById",
              "SecResponseBodyMimeType", "SecBodyLimit", "NewWAF"},
  Limits <- {0, 1, 2, 3}, Gib <- 2, MaxDirectives <- 4

----------------------------------------------------------------------------
\* Texts of up to four lines.  A rule has one identifier, on one of its lines, and no
\* two rules the same; a directive that is no rule is one line without an identifier.
TextLine == [rule : BOOLEAN, cont : BOOLEAN, id : 0..2, chain : {FALSE}]
StartsOf(t) == {k \in DOMAIN t : k = 1 \/ ~t[k - 1].cont}
EndOf(t, s) == CHOOSE e \in s..Len(t) : (~t[e].cont \/ e = Len(t)) /\ \A k \in s..(e - 1) : t[k].cont
IdsIn(t, s) == {k \in s..EndOf(t, s) : t[k].id # 0}
WellFormed(t) ==
  /\ ~t[Len(t)].cont
  /\ \A k \in DOMAIN t : t[k].rule <=> k \in StartsOf(t) /\ (t[k].cont \/ t[k].id # 0)
  /\ \A s \in StartsOf(t) : t[s].rule => Cardinality(IdsIn(t, s)) = 1
  /\ \A k, m \in DOMAIN t : t[k].id # 0 /\ t[k].id = t[m].id => k = m

Loading == INSTANCE RuleLoading WITH
  Texts <- {t \in TextsOf(TextLine, 4) : WellFormed(t)}, CrsIds <- {1},
  Places <- {"none", "cwd", "root"}

----------------------------------------------------------------------------
\* Three rules over two keys, one of them with two values, in two phases; t:none
\* comes first in a pipeline.
MCTransforms == {"lower", "trim"}
MCPipelines == {<<>>, <<"lower">>, <<"none", "trim">>, <<"none", "lower", "trim">>,
                <<"lower", "trim">>}
MCHeaders == [x |-> <<"v1", "v2">>, y |-> <<"v3">>]

----------------------------------------------------------------------------
SourcesInit ==
  /\ Init
  /\ \/ part = "parser" /\ Parser!Init /\ NoWaf /\ NoLoad
     \/ part = "adding" /\ Adding!Init /\ NoFiles /\ NoLoad
     \/ part = "updating" /\ Updating!Init /\ NoFiles /\ NoLoad
     \/ part = "loading" /\ Loading!Init /\ status = Unused /\ NoFiles /\ NoWaf
     \/ part = "cache" /\ status = Unused /\ NoFiles /\ NoWaf /\ NoLoad

ParserStep == part = "parser" /\ Parser!Next /\ UNCHANGED <<part, wafVars, loadVars, vars>>

SourcesNext ==
  \/ ParserStep
  \/ part = "adding" /\ Adding!Next /\ UNCHANGED <<part, fileVars, loadVars, vars>>
  \/ part = "updating" /\ Updating!Next /\ UNCHANGED <<part, fileVars, loadVars, vars>>
  \/ part = "loading" /\ Loading!Next /\ UNCHANGED <<part, status, fileVars, wafVars, vars>>
  \/ part = "cache" /\ Next /\ UNCHANGED sourceVars

\* One goroutine parses; it is never held up.
FairSpec == SourcesInit /\ [][SourcesNext]_allVars /\ WF_allVars(ParserStep)

\* Type invariant of each instance.
SourcesTypeOK ==
  CASE part = "parser" -> Parser!TypeOK
    [] part = "adding" -> Adding!TypeOK
    [] part = "updating" -> Updating!TypeOK
    [] part = "loading" -> Loading!TypeOK
    [] part = "cache" -> TypeOK

\* FromFile, parseString and evaluateLine: an Include is resolved in the directory of
\* its file, no line is part of two directives, and the panic is never reached;
\* filterDuplicateRules keeps a directive whole or not at all, and NewWAF loads custom
\* rules that load on their own beside a core rule set too (see these properties in
\* SecLang and RuleLoading).
FilesReadRight ==
  /\ part = "parser" => Parser!NeverPanics /\ Parser!DirOfFile /\ Parser!LinesUsedOnce
  /\ part = "loading" => Loading!FiltersBlocks /\ Loading!LoadsBesideCRS

\* Files that include one another do not keep the parser busy for ever.
Terminates == (part = "parser") ~> (part = "parser" /\ status # "running")

\* RuleGroup.Add, mergeActions and Validate: the identifiers of the rules are unique,
\* a rule has one disruptive action, and the limits of a WAF do not contradict each
\* other (see these properties in Directives); transformationID: rules with the same
\* identifier of transformations apply the same functions (see SameIdSameFunctions in
\* TransformCache).
RulesWellFormed ==
  /\ SourcesTypeOK
  /\ part = "adding" => Adding!IdsUnique /\ Adding!OneDisruptive
  /\ part = "updating" => Updating!LimitsConsistent
  /\ part = "cache" => SameIdSameFunctions
=============================================================================
