------------------------------- MODULE Store -------------------------------
(***************************************************************************)
(* The rules of the store (internal/app/store/store.go) and the handlers   *)
(* that change them (internal/app/api/handlers.go): rules in memory under  *)
(* one lock, the state file data.json, its temporary file and the copy of  *)
(* the rules in PostgreSQL, with failing writes, crashes and restarts.     *)
(*                                                                         *)
(* A rule is its source, whether it is read-only and a version that stands *)
(* for everything an administrator may edit.                               *)
(***************************************************************************)
EXTENDS Integers, FiniteSets

CONSTANTS
  Ids,         \* rule IDs
  Defaults,    \* IDs of defaultRules
  FileRules,   \* IDs in the custom rules file
  CrsRules,    \* IDs in the files of the core rule set
  CustomRange, \* IDs that validateRuleIDRange allows for custom rules
  Savers,      \* requests whose audit log calls Save
  Togglers     \* handlers that switch the core rule set on or off

VARIABLES
  up,       \* the program runs
  rules,    \* state.Rules: from ID to rule
  crsOn,    \* crsOn
  job,      \* the rule operation that holds the lock
  saver,    \* the calls of Save, which hold the lock for reading
  toggler,  \* the calls of EnableCRS and DisableCRS
  file,     \* data.json: whether it parses, and the rules in it
  tmp,      \* data.json.tmp
  db,       \* the rules in PostgreSQL: from ID to version
  dbFailed, \* history: a write to PostgreSQL failed since the start
  cut,      \* history: a write over data.json itself was cut short
  promised  \* history: what the last acknowledged operation on an ID made of it

vars == <<up, rules, crsOn, job, saver, toggler, file, tmp, db, dbFailed, cut, promised>>

Versions == {0, 1}
Gone == 2
Rule(src, ro, ver) == [src |-> src, ro |-> ro, ver |-> ver]
RuleType == [src : {"custom", "crs"}, ro : BOOLEAN, ver : Versions]
Only(f, S) == [x \in DOMAIN f \cap S |-> f[x]]
Without(f, k) == Only(f, DOMAIN f \ {k})
With(f, k, v) == [x \in DOMAIN f \cup {k} |-> IF x = k THEN v ELSE f[x]]
Over(f, g) == [x \in DOMAIN f \cup DOMAIN g |-> IF x \in DOMAIN f THEN f[x] ELSE g[x]]

NoJob == [at |-> "idle", id |-> 0, to |-> 0]
NoFile == [whole |-> FALSE, rules |-> <<>>]
Whole == [whole |-> TRUE, rules |-> rules]
LockFree == job = NoJob /\ \A s \in Savers : saver[s] = "idle"

defaultRules == [x \in Defaults |-> Rule("custom", FALSE, 0)]
customRulesFromFile == [x \in FileRules |-> Rule("custom", TRUE, 0)]
crsRulesFromFiles == [x \in CrsRules |-> Rule("crs", TRUE, 0)]

Init ==
  /\ up = FALSE /\ rules = <<>> /\ crsOn = FALSE /\ job = NoJob
  /\ saver = [s \in Savers |-> "idle"] /\ toggler = [t \in Togglers |-> "idle"]
  /\ file = NoFile /\ tmp = NoFile /\ db = <<>>
  /\ dbFailed = FALSE /\ cut = FALSE /\ promised = <<>>

\* mergeRulesFromFile: what is in memory goes before the custom file and that
\* before the core rule set.
Merged(mine, custom, crs) == Over(mine, Over(custom, crs))

\* Mutant: the defaults replace what was edited.
LoadedDefaultsFirst == Over(defaultRules, IF file.whole THEN file.rules ELSE <<>>)
\* load: a file that does not parse leaves the defaults; the defaults that are
\* missing are put back.
Loaded == Over(IF file.whole THEN file.rules ELSE <<>>, defaultRules)

\* SaveWAFRule for every rule in turn.
Synced(rs) == Over([x \in DOMAIN rs |-> rs[x].ver], db)

\* NewStore and SyncRulesToDB.  When the custom rules file cannot be read nothing
\* is merged.
Start ==
  /\ ~up
  /\ up' = TRUE
  /\ crsOn' \in BOOLEAN
  /\ \/ rules' = Loaded
     \/ rules' = Merged(Loaded, customRulesFromFile, IF crsOn' THEN crsRulesFromFiles ELSE <<>>)
  /\ \/ db' = Synced(rules') /\ dbFailed' = FALSE
     \/ UNCHANGED db /\ dbFailed' = TRUE
  /\ UNCHANGED <<job, saver, toggler, file, tmp, cut, promised>>

\* The program ends at any point; a write over data.json is then cut short.
Crash ==
  /\ up
  /\ up' = FALSE
  /\ rules' = <<>> /\ job' = NoJob
  /\ saver' = [s \in Savers |-> "idle"] /\ toggler' = [t \in Togglers |-> "idle"]
  /\ cut' = (cut \/ (\E s \in Savers : saver[s] # "idle") \/ job.at = "direct")
  /\ UNCHANGED <<crsOn, file, tmp, db, dbFailed, promised>>

----------------------------------------------------------------------------
Begin(id, to) ==
  /\ job' = [at |-> "db", id |-> id, to |-> to]
  /\ promised' = Without(promised, id)
  /\ UNCHANGED <<up, crsOn, saver, toggler, file, tmp, db, dbFailed, cut>>

\* CreateRule: the source is always "custom" when it is called by the handler.
CreateRule(id, ver) ==
  /\ up /\ LockFree
  /\ id \in CustomRange /\ id \notin DOMAIN rules
  /\ rules' = With(rules, id, Rule("custom", FALSE, ver))
  /\ Begin(id, ver)

Writable(id) == ~rules[id].ro /\ rules[id].src # "crs"

UpdateRule(id, ver) ==
  /\ up /\ LockFree
  /\ id \in DOMAIN rules /\ Writable(id) /\ id \in CustomRange
  /\ rules' = With(rules, id, Rule("custom", FALSE, ver))
  /\ Begin(id, ver)

DeleteRule(id) ==
  /\ up /\ LockFree
  /\ id \in DOMAIN rules /\ Writable(id)
  /\ rules' = Without(rules, id)
  /\ Begin(id, Gone)

\* SaveWAFRule or DeleteWAFRule; a failure is only logged.
WriteDb ==
  /\ job.at = "db"
  /\ job' = [job EXCEPT !.at = "tmp"]
  /\ \/ /\ db' = IF job.to = Gone THEN Without(db, job.id) ELSE With(db, job.id, job.to)
        /\ UNCHANGED dbFailed
     \/ dbFailed' = TRUE /\ UNCHANGED db
  /\ UNCHANGED <<up, rules, crsOn, saver, toggler, file, tmp, cut, promised>>

TempIsOther == tmp' = NoFile /\ UNCHANGED file

\* persistState, step by step: the temporary file is emptied and written, then
\* renamed; where that fails data.json is written over.
OpenTmp ==
  /\ job.at = "tmp"
  /\ job' = [job EXCEPT !.at = "write"]
  /\ TempIsOther
  /\ UNCHANGED <<up, rules, crsOn, saver, toggler, db, dbFailed, cut, promised>>

WriteTmp ==
  /\ job.at = "write"
  /\ \/ tmp' = Whole /\ job' = [job EXCEPT !.at = "rename"]
     \/ job' = NoJob /\ UNCHANGED tmp
  /\ UNCHANGED <<up, rules, crsOn, saver, toggler, file, db, dbFailed, cut, promised>>

Acknowledge ==
  /\ job' = NoJob
  /\ promised' = With(promised, job.id, job.to)

Rename ==
  /\ job.at = "rename"
  /\ \/ file' = tmp /\ tmp' = NoFile /\ Acknowledge
     \/ /\ file' = NoFile /\ job' = [job EXCEPT !.at = "direct"]
        /\ UNCHANGED <<tmp, promised>>
  /\ UNCHANGED <<up, rules, crsOn, saver, toggler, db, dbFailed, cut>>

WriteDirect ==
  /\ job.at = "direct"
  /\ \/ file' = Whole /\ Acknowledge /\ UNCHANGED cut
     \/ job' = NoJob /\ cut' = TRUE /\ UNCHANGED <<file, promised>>
  /\ UNCHANGED <<up, rules, crsOn, saver, toggler, tmp, db, dbFailed>>

----------------------------------------------------------------------------
\* Save: the state is encoded and data.json emptied, then written over.
OpenSave(s) ==
  /\ up /\ saver[s] = "idle" /\ job = NoJob
  /\ saver' = [saver EXCEPT ![s] = "write"]
  /\ file' = NoFile
  /\ UNCHANGED <<up, rules, crsOn, job, toggler, tmp, db, dbFailed, cut, promised>>

WriteSave(s) ==
  /\ saver[s] = "write"
  /\ saver' = [saver EXCEPT ![s] = "idle"]
  /\ \/ file' = Whole /\ UNCHANGED cut
     \/ cut' = TRUE /\ UNCHANGED file
  /\ UNCHANGED <<up, rules, crsOn, job, toggler, tmp, db, dbFailed, promised>>

\* EnableCRS and DisableCRS: the switch, the files, the merge.
SetCrs(t, on) ==
  /\ up /\ toggler[t] = "idle" /\ LockFree
  /\ crsOn' = on
  /\ toggler' = [toggler EXCEPT ![t] = "load"]
  /\ UNCHANGED <<up, rules, job, saver, file, tmp, db, dbFailed, cut, promised>>

LoadRules(t) ==
  /\ toggler[t] = "load"
  /\ \/ toggler' = [toggler EXCEPT ![t] = IF crsOn THEN "merge" ELSE "mergeNone"]
     \/ toggler' = [toggler EXCEPT ![t] = "idle"]
  /\ UNCHANGED <<up, rules, crsOn, job, saver, file, tmp, db, dbFailed, cut, promised>>

MergeOver(crs) == Merged(rules, customRulesFromFile, crs)

MergeRules(t) ==
  /\ toggler[t] \in {"merge", "mergeNone"} /\ LockFree
  /\ toggler' = [toggler EXCEPT ![t] = "idle"]
  /\ rules' = MergeOver(IF toggler[t] = "merge" THEN crsRulesFromFiles ELSE <<>>)
  /\ UNCHANGED <<up, crsOn, job, saver, file, tmp, db, dbFailed, cut, promised>>

Next ==
  \/ Start \/ Crash
  \/ \E id \in Ids, ver \in Versions : CreateRule(id, ver) \/ UpdateRule(id, ver)
  \/ \E id \in Ids : DeleteRule(id)
  \/ WriteDb \/ OpenTmp \/ WriteTmp \/ Rename \/ WriteDirect
  \/ \E s \in Savers : OpenSave(s) \/ WriteSave(s)
  \/ \E t \in Togglers : (\E on \in BOOLEAN : SetCrs(t, on)) \/ LoadRules(t) \/ MergeRules(t)

Spec == Init /\ [][Next]_vars

----------------------------------------------------------------------------
\* Type invariant: the rules of the core rule set are never edited.
TypeOK ==
  /\ \A f \in {rules, file.rules, tmp.rules} :
       /\ DOMAIN f \subseteq Ids
       /\ \A x \in DOMAIN f : f[x] \in RuleType /\ (f[x].src = "crs" => f[x].ro /\ f[x].ver = 0)
  /\ job.at \in {"idle", "db", "tmp", "write", "rename", "direct"}
  /\ \A s \in Savers : saver[s] \in {"idle", "write"}
  /\ \A t \in Togglers : toggler[t] \in {"idle", "load", "merge", "mergeNone"}

\* The rules rs are what the acknowledged operations promises made of them.
Keeps(rs, promises) ==
  \A x \in DOMAIN promises :
    IF promises[x] = Gone
    THEN x \in DOMAIN rs => x \in Defaults \cup FileRules \/ rs[x].src = "crs"
    ELSE x \in DOMAIN rs /\ rs[x].ver = promises[x]

\* A rule operation that was acknowledged holds from then on, through calls of
\* Save, switching of the core rule set, crashes and restarts, unless a write
\* over data.json itself was cut short.  After the deletion of a rule there is a
\* rule with its ID again only if it was a default rule, if it is also in the rules
\* file, or if the core rule set has one, whose IDs may be in the custom range.
Durable == up /\ ~cut => Keeps(rules, promised)

\* When nothing is writing and no write failed, data.json parses: calls of Save
\* that overlap under the read lock write the same bytes.
SavedWhole ==
  ~cut /\ (\A s \in Savers : saver[s] = "idle") /\ job.at # "direct" =>
     file.whole \/ (file = NoFile /\ promised = <<>>)

\* Every rule that can be edited is in PostgreSQL in the version shown to the
\* administrators, if no write to it failed since the start.
DbHasRules ==
  up /\ job = NoJob /\ ~dbFailed =>
    \A x \in DOMAIN rules : ~rules[x].ro => x \in DOMAIN db /\ db[x] = rules[x].ver

\* Claims of the comments that the code does not keep.

\* After DisableCRS has returned no rule of the core rule set is shown.
CrsHidden ==
  up /\ ~crsOn /\ (\A t \in Togglers : toggler[t] = "idle") =>
    \A x \in DOMAIN rules : rules[x].src # "crs"
=============================================================================
