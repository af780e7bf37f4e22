------------------------- MODULE PersistenceProofs -------------------------
(***************************************************************************)
(* Proofs about what outlives the process: the rules of Store and the      *)
(* tables of PgStore.  The two share no state; the tables are renamed.     *)
(***************************************************************************)
EXTENDS Store, Sequences, FiniteSetTheorems, TLAPS

----------------------------------------------------------------------------
(***************************************************************************)
(* Store, for every set of rules, of default rules, of rules of the rules  *)
(* file and of the core rule set, and every number of overlapping calls of *)
(* Save and of handlers that switch the core rule set.  DurableCorrect,    *)
(* WholeCorrect and DbCorrect rest on StoreInv, which says what memory and *)
(* files hold at each step of an operation.                                *)
(***************************************************************************)
Steps == {"idle", "db", "tmp", "write", "rename", "direct"}
AllIdle == \A s \in Savers : saver[s] = "idle"

\* The lock: an operation excludes the calls of Save, and a program that is down does
\* neither.
LockInv ==
  /\ up \in BOOLEAN /\ cut \in BOOLEAN
  /\ saver \in [Savers -> {"idle", "write"}]
  /\ job \in [at : Steps, id : Ids \cup {0}, to : Versions \cup {Gone}]
  /\ job.at = "idle" <=> job = NoJob
  /\ ~up => job = NoJob /\ AllIdle
  /\ job # NoJob => AllIdle

\* What operation j is to make of a rule.
Does(j, rs) ==
  IF j.to = Gone THEN j.id \notin DOMAIN rs ELSE j.id \in DOMAIN rs /\ rs[j.id].ver = j.to

\* An operation has changed the rules in memory from its start, and what it renames is
\* a copy of them.
JobInv ==
  /\ job # NoJob => Does(job, rules)
  /\ job.at = "rename" => tmp = Whole

\* While no write over data.json was cut short, memory and data.json hold what was
\* promised, except that data.json is empty while it is written over, and before the
\* first promise.
KeptInv ==
  /\ promised \in [DOMAIN promised -> Versions \cup {Gone}]
  /\ file.whole \/ file = NoFile
  /\ ~cut =>
       /\ up => Keeps(rules, promised)
       /\ file.whole => Keeps(file.rules, promised)
       /\ file.whole \/ DOMAIN promised = {} \/ job.at = "direct" \/ ~AllIdle

\* PostgreSQL has the rules that can be edited, but for the one being written.
DbInv ==
  up /\ ~dbFailed =>
    \A x \in DOMAIN rules :
      ~rules[x].ro /\ (job.at = "db" => x # job.id) => x \in DOMAIN db /\ db[x] = rules[x].ver

StoreInv == LockInv /\ JobInv /\ KeptInv /\ DbInv

----------------------------------------------------------------------------
\* The helpers on functions.
LEMMA WithoutFacts ==
  ASSUME NEW f, NEW k
  PROVE  DOMAIN Without(f, k) = DOMAIN f \ {k} /\ \A x \in DOMAIN f \ {k} : Without(f, k)[x] = f[x]
  BY DEF Without, Only

LEMMA OverFacts ==
  ASSUME NEW f, NEW g
  PROVE  /\ DOMAIN Over(f, g) = DOMAIN f \cup DOMAIN g
         /\ \A x \in DOMAIN f : Over(f, g)[x] = f[x]
         /\ \A x \in DOMAIN g : x \notin DOMAIN f => Over(f, g)[x] = g[x]
  BY DEF Over

LEMMA EmptyFunction ==
  ASSUME NEW S, NEW f \in [{} -> S]
  PROVE  f = <<>>
  OBVIOUS

\* Changing the rule of an operation leaves the promises about the others.
LEMMA KeepsOthers ==
  ASSUME NEW rs, NEW p, NEW id, NEW rule, Keeps(rs, p)
  PROVE  /\ Keeps(rs, Without(p, id))
         /\ Keeps(With(rs, id, rule), Without(p, id))
         /\ Keeps(Without(rs, id), Without(p, id))
<1>1. DOMAIN Without(p, id) = DOMAIN p \ {id} /\ \A x \in DOMAIN p \ {id} : Without(p, id)[x] = p[x]
  BY WithoutFacts
<1>2. Keeps(rs, Without(p, id))
  BY <1>1 DEF Keeps
<1>3. Keeps(With(rs, id, rule), Without(p, id))
  <2>1. /\ DOMAIN With(rs, id, rule) = DOMAIN rs \cup {id}
        /\ \A x \in DOMAIN rs : x # id => With(rs, id, rule)[x] = rs[x]
    BY DEF With
  <2> QED
    BY <1>1, <2>1 DEF Keeps
<1>4. Keeps(Without(rs, id), Without(p, id))
  <2>1. DOMAIN Without(rs, id) = DOMAIN rs \ {id} /\ \A x \in DOMAIN rs \ {id} : Without(rs, id)[x] = rs[x]
    BY WithoutFacts
  <2> QED
    BY <1>1, <2>1 DEF Keeps
<1> QED
  BY <1>2, <1>3, <1>4

\* An operation that is done can be promised.
LEMMA KeepsDone ==
  ASSUME NEW rs, NEW p, NEW j, Keeps(rs, p), Does(j, rs)
  PROVE  Keeps(rs, With(p, j.id, j.to))
<1>1. /\ DOMAIN With(p, j.id, j.to) = DOMAIN p \cup {j.id} /\ With(p, j.id, j.to)[j.id] = j.to
      /\ \A x \in DOMAIN p : x # j.id => With(p, j.id, j.to)[x] = p[x]
  BY DEF With
<1> QED
  BY <1>1 DEF Keeps, Does

\* The rules that are merged, by mergeRulesFromFile and by load, break no promise.
LEMMA KeepsMerged ==
  ASSUME NEW rs, NEW p, Keeps(rs, p)
  PROVE  /\ Keeps(Over(rs, defaultRules), p)
         /\ \A crs \in {crsRulesFromFiles, <<>>} : Keeps(Merged(rs, customRulesFromFile, crs), p)
<1>1. Keeps(Over(rs, defaultRules), p)
  <2>1. DOMAIN defaultRules = Defaults
    BY DEF defaultRules
  <2>2. /\ DOMAIN Over(rs, defaultRules) = DOMAIN rs \cup Defaults
        /\ \A x \in DOMAIN rs : Over(rs, defaultRules)[x] = rs[x]
    BY <2>1, OverFacts
  <2> QED
    BY <2>2 DEF Keeps
<1>2. ASSUME NEW crs \in {crsRulesFromFiles, <<>>}
      PROVE  Keeps(Merged(rs, customRulesFromFile, crs), p)
  <2>1. DOMAIN customRulesFromFile = FileRules /\ \A x \in DOMAIN crs : crs[x].src = "crs"
    BY DEF customRulesFromFile, crsRulesFromFiles, Rule
  <2> DEFINE files == Over(customRulesFromFile, crs)
             merged == Over(rs, files)
  <2>2. /\ DOMAIN files = FileRules \cup DOMAIN crs
        /\ \A x \in DOMAIN crs : x \notin FileRules => files[x].src = "crs"
    <3>1. /\ DOMAIN files = DOMAIN customRulesFromFile \cup DOMAIN crs
          /\ \A x \in DOMAIN crs : x \notin DOMAIN customRulesFromFile => files[x] = crs[x]
      BY Zenon, OverFacts
    <3> HIDE DEF files
    <3> QED
      BY <2>1, <3>1
  <2>3. /\ DOMAIN merged = DOMAIN rs \cup DOMAIN files
        /\ \A x \in DOMAIN rs : merged[x] = rs[x]
        /\ \A x \in DOMAIN files : x \notin DOMAIN rs => merged[x] = files[x]
    BY OverFacts
  <2> HIDE DEF files, merged
  <2>4. Keeps(merged, p)
    BY <2>2, <2>3 DEF Keeps
  <2> QED
    BY <2>4 DEF merged, files, Merged
<1> QED
  BY <1>1, <1>2

----------------------------------------------------------------------------
LEMMA StoreInit == Init => StoreInv
<1> SUFFICES ASSUME Init PROVE StoreInv
  OBVIOUS
<1>1. LockInv
  BY DEF Init, LockInv, NoJob, Steps, Versions, Gone, AllIdle
<1>2. JobInv
  BY DEF Init, JobInv, NoJob
<1>3. KeptInv
  <2>1. promised = <<>> /\ DOMAIN promised = {} /\ ~up /\ file = NoFile /\ ~file.whole
    BY DEF Init, NoFile
  <2>2. promised \in [DOMAIN promised -> Versions \cup {Gone}]
    BY <2>1
  <2> QED
    BY <2>1, <2>2 DEF KeptInv
<1>4. DbInv
  BY DEF Init, DbInv
<1> QED
  BY <1>1, <1>2, <1>3, <1>4 DEF StoreInv

\* NewStore: whatever is merged, the rules loaded are those promised, and read-only rules
\* are all that SyncRulesToDB may have missed.
LEMMA StartInv ==
  ASSUME StoreInv, Start
  PROVE  StoreInv'
<1>0. /\ ~up /\ up' /\ up' = TRUE /\ job = NoJob /\ AllIdle
      /\ UNCHANGED <<job, saver, toggler, file, tmp, cut, promised>>
      /\ \/ rules' = Loaded
         \/ \E crs \in {crsRulesFromFiles, <<>>} : rules' = Merged(Loaded, customRulesFromFile, crs)
      /\ (db' = Synced(rules') /\ dbFailed' = FALSE) \/ dbFailed' = TRUE
  BY DEF Start, StoreInv, LockInv
<1>1. LockInv'
  BY <1>0 DEF StoreInv, LockInv, AllIdle
<1>2. JobInv'
  BY <1>0 DEF JobInv, NoJob
<1>3. KeptInv'
  <2>1. ~cut => file.whole \/ DOMAIN promised = {}
    BY <1>0 DEF StoreInv, KeptInv, NoJob
  <2>2. ~cut => Keeps(IF file.whole THEN file.rules ELSE <<>>, promised)
    BY <2>1 DEF StoreInv, KeptInv, Keeps
  <2>3. ~cut => Keeps(Loaded, promised)
    BY Zenon, <2>2, KeepsMerged DEF Loaded
  <2>4. ~cut => Keeps(rules', promised)
    BY Zenon, <1>0, <2>3, KeepsMerged
  <2> QED
    BY <1>0, <2>4 DEF StoreInv, KeptInv, AllIdle
<1>4. DbInv'
  <2> SUFFICES ASSUME db' = Synced(rules'), NEW x \in DOMAIN rules'
               PROVE  x \in DOMAIN db' /\ db'[x] = rules'[x].ver
    BY <1>0 DEF DbInv
  <2> QED
    BY DEF Synced, Over
<1> QED
  BY <1>1, <1>2, <1>3, <1>4 DEF StoreInv

\* A crash in the middle of a write over data.json is the only one that loses anything.
LEMMA CrashInv ==
  ASSUME StoreInv, Crash
  PROVE  StoreInv'
<1>0. /\ up' = FALSE /\ job' = NoJob /\ saver' = [s \in Savers |-> "idle"]
      /\ cut' = (cut \/ ~AllIdle \/ job.at = "direct")
      /\ UNCHANGED <<file, tmp, db, dbFailed, promised>>
  BY DEF Crash, AllIdle
<1>1. LockInv'
  BY <1>0 DEF StoreInv, LockInv, AllIdle, NoJob, Steps, Versions, Gone
<1>2. JobInv'
  BY <1>0 DEF JobInv, NoJob
<1>3. KeptInv'
  BY <1>0 DEF StoreInv, KeptInv
<1>4. DbInv'
  BY <1>0 DEF DbInv
<1> QED
  BY <1>1, <1>2, <1>3, <1>4 DEF StoreInv

----------------------------------------------------------------------------
\* The start of CreateRule, UpdateRule and DeleteRule: an earlier promise about the ID
\* ends, the others stand.
LEMMA BeginInv ==
  ASSUME StoreInv, NEW id \in Ids, NEW ver \in Versions,
         CreateRule(id, ver) \/ UpdateRule(id, ver) \/ DeleteRule(id)
  PROVE  StoreInv'
<1>0. PICK to \in Versions \cup {Gone} :
        /\ up /\ LockFree /\ Begin(id, to)
        /\ \/ to = ver /\ rules' = With(rules, id, Rule("custom", FALSE, ver))
           \/ to = Gone /\ rules' = Without(rules, id)
  BY DEF CreateRule, UpdateRule, DeleteRule
<1>1. /\ job = NoJob /\ AllIdle /\ job' = [at |-> "db", id |-> id, to |-> to]
      /\ promised' = Without(promised, id)
      /\ UNCHANGED <<up, crsOn, saver, toggler, file, tmp, db, dbFailed, cut>>
  BY <1>0 DEF LockFree, Begin, AllIdle
<1>2. job'.at = "db" /\ job'.id = id /\ job'.to = to /\ job' # NoJob
  BY <1>1 DEF NoJob
<1>3. LockInv'
  BY <1>0, <1>1, <1>2 DEF StoreInv, LockInv, AllIdle, Steps
<1>4. Does(job', rules')
  <2>1. CASE to = ver /\ rules' = With(rules, id, Rule("custom", FALSE, ver))
    BY <1>2, <2>1 DEF Does, With, Rule, Versions, Gone
  <2>2. CASE to = Gone /\ rules' = Without(rules, id)
    BY <1>2, <2>2 DEF Does, Without, Only
  <2> QED
    BY <1>0, <2>1, <2>2
<1>5. JobInv'
  BY <1>2, <1>4 DEF JobInv, Does
<1>6. KeptInv'
  <2>1. promised' \in [DOMAIN promised' -> Versions \cup {Gone}]
    BY <1>1 DEF StoreInv, KeptInv, Without, Only
  <2>2. ~cut => Keeps(rules', promised')
    <3>1. ~cut => Keeps(rules, promised)
      BY <1>0 DEF StoreInv, KeptInv
    <3> QED
      BY Zenon, <1>0, <1>1, <3>1, KeepsOthers
  <2>3. ~cut /\ file.whole => Keeps(file.rules, promised')
    BY Zenon, <1>1, KeepsOthers DEF StoreInv, KeptInv
  <2>4. DOMAIN promised = {} => DOMAIN promised' = {}
    BY <1>1, WithoutFacts
  <2>5. ~cut => file.whole \/ DOMAIN promised = {}
    BY <1>1 DEF StoreInv, KeptInv, NoJob
  <2> QED
    BY <1>1, <2>1, <2>2, <2>3, <2>4, <2>5 DEF StoreInv, KeptInv
<1>7. DbInv'
  <2>1. \A x \in DOMAIN rules' : x # id => x \in DOMAIN rules /\ rules'[x] = rules[x]
    <3>1. CASE rules' = With(rules, id, Rule("custom", FALSE, ver))
      BY <3>1 DEF With
    <3>2. CASE rules' = Without(rules, id)
      BY <3>2 DEF Without, Only
    <3> QED
      BY <1>0, <3>1, <3>2
  <2> QED
    BY <1>0, <1>1, <1>2, <2>1 DEF StoreInv, DbInv, NoJob
<1> QED
  BY <1>3, <1>5, <1>6, <1>7 DEF StoreInv

\* An operation that goes on to its next step.
LEMMA JobMoves ==
  ASSUME LockInv, job.at # "idle", NEW at \in Steps \ {"idle"}, job' = [job EXCEPT !.at = at]
  PROVE  /\ job' \in [at : Steps, id : Ids \cup {0}, to : Versions \cup {Gone}]
         /\ job'.at = at /\ job'.id = job.id /\ job'.to = job.to
         /\ job # NoJob /\ job' # NoJob
<1>1. job \in [at : Steps, id : Ids \cup {0}, to : Versions \cup {Gone}] /\ job # NoJob
  BY DEF LockInv, NoJob
<1>2. job' \in [at : Steps, id : Ids \cup {0}, to : Versions \cup {Gone}]
  BY Zenon, <1>1
<1>3. job'.at = at /\ job'.id = job.id /\ job'.to = job.to
  BY <1>1
<1> QED
  BY <1>1, <1>2, <1>3 DEF NoJob

\* SaveWAFRule and DeleteWAFRule: the row of the rule follows the rule.
LEMMA WriteDbInv ==
  ASSUME StoreInv, WriteDb
  PROVE  StoreInv'
<1>0. /\ job.at = "db" /\ job' = [job EXCEPT !.at = "tmp"]
      /\ UNCHANGED <<up, rules, crsOn, saver, toggler, file, tmp, cut, promised>>
      /\ \/ /\ db' = IF job.to = Gone THEN Without(db, job.id) ELSE With(db, job.id, job.to)
            /\ dbFailed' = dbFailed
         \/ dbFailed' = TRUE
  BY DEF WriteDb
<1>1. /\ job' \in [at : Steps, id : Ids \cup {0}, to : Versions \cup {Gone}]
      /\ job'.at = "tmp" /\ job'.id = job.id /\ job'.to = job.to
      /\ job # NoJob /\ job' # NoJob
  BY <1>0, JobMoves DEF StoreInv, Steps
<1>2. LockInv'
  BY <1>0, <1>1 DEF StoreInv, LockInv, AllIdle
<1>3. JobInv'
  BY <1>0, <1>1 DEF StoreInv, JobInv, Does
<1>4. KeptInv'
  BY <1>0, <1>1 DEF StoreInv, KeptInv, AllIdle
<1>5. DbInv'
  <2> SUFFICES ASSUME up, ~dbFailed, NEW x \in DOMAIN rules, ~rules[x].ro,
                      db' = IF job.to = Gone THEN Without(db, job.id) ELSE With(db, job.id, job.to)
               PROVE  x \in DOMAIN db' /\ db'[x] = rules[x].ver
    BY <1>0 DEF DbInv
  <2>1. Does(job, rules)
    BY <1>1 DEF StoreInv, JobInv
  <2>2. CASE x = job.id
    BY <2>1, <2>2 DEF Does, With
  <2>3. CASE x # job.id
    <3>1. x \in DOMAIN db /\ db[x] = rules[x].ver
      BY <2>3 DEF StoreInv, DbInv
    <3> QED
      BY <2>3, <3>1 DEF With, Without, Only
  <2> QED
    BY <2>2, <2>3
<1> QED
  BY <1>2, <1>3, <1>4, <1>5 DEF StoreInv

\* persistState up to the rename: data.json is untouched, also when a write fails.
LEMMA TmpInv ==
  ASSUME StoreInv, OpenTmp \/ WriteTmp
  PROVE  StoreInv'
<1>0. /\ job.at \in {"tmp", "write"}
      /\ \/ job' = [job EXCEPT !.at = "write"]
         \/ job' = [job EXCEPT !.at = "rename"] /\ tmp' = Whole
         \/ job' = NoJob
      /\ UNCHANGED <<up, rules, crsOn, saver, toggler, file, db, dbFailed, cut, promised>>
  BY DEF OpenTmp, WriteTmp, TempIsOther
<1>1. /\ job' \in [at : Steps, id : Ids \cup {0}, to : Versions \cup {Gone}]
      /\ job # NoJob
      /\ \/ job'.at = "write" /\ job'.id = job.id /\ job'.to = job.to /\ job' # NoJob
         \/ job'.at = "rename" /\ job'.id = job.id /\ job'.to = job.to /\ job' # NoJob /\ tmp' = Whole
         \/ job'.at = "idle" /\ job' = NoJob
  <2>1. CASE job' = [job EXCEPT !.at = "write"]
    BY <1>0, <2>1, JobMoves DEF StoreInv, Steps
  <2>2. CASE job' = [job EXCEPT !.at = "rename"] /\ tmp' = Whole
    BY <1>0, <2>2, JobMoves DEF StoreInv, Steps
  <2>3. CASE job' = NoJob
    BY <1>0, <2>3 DEF NoJob, Steps, Versions
  <2> QED
    BY <1>0, <2>1, <2>2, <2>3
<1>2. LockInv'
  BY <1>0, <1>1 DEF StoreInv, LockInv, AllIdle
<1>3. JobInv'
  BY <1>0, <1>1 DEF StoreInv, JobInv, Does, Whole
<1>4. KeptInv'
  BY <1>0, <1>1 DEF StoreInv, KeptInv, AllIdle
<1>5. DbInv'
  BY <1>0, <1>1 DEF StoreInv, DbInv
<1> QED
  BY <1>2, <1>3, <1>4, <1>5 DEF StoreInv

\* The end of persistState: the operation is acknowledged once data.json holds it.
LEMMA PersistInv ==
  ASSUME StoreInv, Rename \/ WriteDirect
  PROVE  StoreInv'
<1>0. /\ job.at \in {"rename", "direct"}
      /\ UNCHANGED <<up, rules, crsOn, saver, toggler, db, dbFailed>>
      /\ \/ file' = Whole /\ Acknowledge /\ cut' = cut
         \/ /\ file' = NoFile /\ job' = [job EXCEPT !.at = "direct"]
            /\ UNCHANGED <<tmp, promised, cut>>
         \/ job' = NoJob /\ cut' = TRUE /\ UNCHANGED <<file, promised>>
  BY DEF StoreInv, JobInv, Rename, WriteDirect
<1>1. /\ job # NoJob /\ up /\ AllIdle
      /\ job.id \in Ids \cup {0} /\ job.to \in Versions \cup {Gone}
  BY <1>0 DEF StoreInv, LockInv, NoJob
<1>2. /\ job' \in [at : Steps, id : Ids \cup {0}, to : Versions \cup {Gone}]
      /\ \/ job'.at = "direct" /\ job'.id = job.id /\ job'.to = job.to /\ job' # NoJob /\ file' = NoFile
         \/ job'.at = "idle" /\ job' = NoJob
  <2>1. CASE file' = NoFile /\ job' = [job EXCEPT !.at = "direct"]
    BY <1>0, <2>1, JobMoves DEF StoreInv, Steps
  <2>2. CASE job' = NoJob
    BY <2>2 DEF NoJob, Steps, Versions
  <2> QED
    BY <1>0, <2>1, <2>2 DEF Acknowledge
<1>3. LockInv'
  BY <1>0, <1>1, <1>2 DEF StoreInv, LockInv, AllIdle
<1>4. JobInv'
  BY <1>0, <1>1, <1>2 DEF StoreInv, JobInv, Does
<1>5. KeptInv'
  <2>1. CASE file' = Whole /\ Acknowledge /\ cut' = cut
    <3>1. /\ file'.whole /\ file'.rules = rules /\ job' = NoJob
          /\ promised' = With(promised, job.id, job.to)
      BY <2>1 DEF Whole, Acknowledge
    <3>2. promised' \in [DOMAIN promised' -> Versions \cup {Gone}]
      BY <1>1, <3>1 DEF StoreInv, KeptInv, With
    <3>3. ~cut => Keeps(rules, promised')
      BY <1>1, <3>1, KeepsDone DEF StoreInv, JobInv, KeptInv
    <3> QED
      BY <1>0, <2>1, <3>1, <3>2, <3>3 DEF KeptInv
  <2>2. CASE file' = NoFile /\ job' = [job EXCEPT !.at = "direct"] /\ UNCHANGED <<tmp, promised, cut>>
    <3>1. job'.at = "direct" /\ ~file'.whole
      BY <1>0, <2>2, JobMoves DEF StoreInv, Steps, NoFile
    <3> QED
      BY <1>0, <2>2, <3>1 DEF StoreInv, KeptInv
  <2>3. CASE job' = NoJob /\ cut' = TRUE /\ UNCHANGED <<file, promised>>
    BY <2>3 DEF StoreInv, KeptInv
  <2> QED
    BY <1>0, <2>1, <2>2, <2>3
<1>6. DbInv'
  BY <1>0, <1>2 DEF StoreInv, DbInv
<1> QED
  BY <1>3, <1>4, <1>5, <1>6 DEF StoreInv

----------------------------------------------------------------------------
\* Save: no operation is under way, so the calls that overlap write the same rules.
LEMMA SaveInv ==
  ASSUME StoreInv, NEW s \in Savers, OpenSave(s) \/ WriteSave(s)
  PROVE  StoreInv'
<1>0. /\ UNCHANGED <<up, rules, crsOn, job, toggler, tmp, db, dbFailed, promised>>
      /\ saver \in [Savers -> {"idle", "write"}] /\ up /\ job = NoJob
  BY DEF OpenSave, WriteSave, StoreInv, LockInv, AllIdle
<1>1. saver' \in [Savers -> {"idle", "write"}]
  BY <1>0 DEF OpenSave, WriteSave
<1>2. LockInv'
  BY <1>0, <1>1 DEF StoreInv, LockInv, OpenSave, WriteSave
<1>3. JobInv'
  BY <1>0 DEF StoreInv, JobInv, Whole
<1>4. KeptInv'
  <2>1. CASE OpenSave(s)
    <3>1. saver'[s] = "write" /\ file' = NoFile /\ ~file'.whole /\ cut' = cut
      BY <1>0, <2>1 DEF OpenSave, NoFile
    <3> QED
      BY <1>0, <3>1 DEF StoreInv, KeptInv, AllIdle
  <2>2. CASE WriteSave(s) /\ file' = Whole /\ cut' = cut
    <3>1. file'.whole /\ file'.rules = rules
      BY <2>2 DEF Whole
    <3> QED
      BY <1>0, <2>2, <3>1 DEF StoreInv, KeptInv
  <2>3. CASE cut' = TRUE /\ file' = file
    BY <1>0, <2>3 DEF StoreInv, KeptInv
  <2> QED
    BY <2>1, <2>2, <2>3 DEF WriteSave
<1>5. DbInv'
  BY <1>0 DEF StoreInv, DbInv
<1> QED
  BY <1>2, <1>3, <1>4, <1>5 DEF StoreInv

\* EnableCRS and DisableCRS: the merge waits for the lock, and adds read-only rules.
LEMMA ToggleInv ==
  ASSUME StoreInv, NEW t \in Togglers, (\E on \in BOOLEAN : SetCrs(t, on)) \/ LoadRules(t) \/ MergeRules(t)
  PROVE  StoreInv'
<1>0. /\ UNCHANGED <<up, job, saver, file, tmp, db, dbFailed, cut, promised>>
      /\ \/ rules' = rules
         \/ /\ LockFree
            /\ \E crs \in {crsRulesFromFiles, <<>>} : rules' = Merged(rules, customRulesFromFile, crs)
  BY DEF SetCrs, LoadRules, MergeRules, MergeOver
<1>1. CASE rules' = rules
  BY <1>0, <1>1 DEF StoreInv, LockInv, JobInv, KeptInv, DbInv, AllIdle, Whole
<1>2. ASSUME NEW crs \in {crsRulesFromFiles, <<>>}, LockFree, rules' = Merged(rules, customRulesFromFile, crs)
      PROVE  StoreInv'
  <2>1. job = NoJob /\ job.at = "idle"
    BY <1>2 DEF LockFree, NoJob
  <2>2. LockInv'
    BY <1>0 DEF StoreInv, LockInv, AllIdle
  <2>3. JobInv'
    BY <1>0, <2>1 DEF JobInv
  <2>4. KeptInv'
    <3>1. Keeps(rules, promised) => Keeps(rules', promised)
      BY Zenon, <1>2, KeepsMerged
    <3> QED
      BY <1>0, <3>1 DEF StoreInv, KeptInv, AllIdle
  <2>5. DbInv'
    <3> SUFFICES ASSUME up, ~dbFailed, NEW x \in DOMAIN rules', ~rules'[x].ro
                 PROVE  x \in DOMAIN db /\ db[x] = rules'[x].ver
      BY <1>0 DEF DbInv
    <3>1. x \in DOMAIN rules /\ rules'[x] = rules[x]
      <4>1. \A y \in DOMAIN customRulesFromFile : customRulesFromFile[y].ro
        BY DEF customRulesFromFile, Rule
      <4>2. \A y \in DOMAIN crs : crs[y].ro
        BY <1>2 DEF crsRulesFromFiles, Rule
      <4> QED
        BY <1>2, <4>1, <4>2 DEF Merged, Over
    <3> QED
      BY <2>1, <3>1 DEF StoreInv, DbInv
  <2> QED
    BY <2>2, <2>3, <2>4, <2>5 DEF StoreInv
<1> QED
  BY <1>0, <1>1, <1>2

LEMMA StoreStep ==
  ASSUME StoreInv, [Next]_vars
  PROVE  StoreInv'
<1>1. CASE UNCHANGED vars
  BY <1>1 DEF vars, StoreInv, LockInv, JobInv, KeptInv, DbInv, AllIdle, Whole
<1>2. CASE \E id \in Ids, ver \in Versions : CreateRule(id, ver) \/ UpdateRule(id, ver)
  BY <1>2, BeginInv
<1>3. CASE \E id \in Ids : DeleteRule(id)
  BY <1>3, BeginInv DEF Versions
<1>4. CASE \E s \in Savers : OpenSave(s) \/ WriteSave(s)
  BY <1>4, SaveInv
<1>5. CASE \E t \in Togglers : (\E on \in BOOLEAN : SetCrs(t, on)) \/ LoadRules(t) \/ MergeRules(t)
  BY <1>5, ToggleInv
<1> QED
  BY Zenon, <1>1, <1>2, <1>3, <1>4, <1>5, StartInv, CrashInv, WriteDbInv, TmpInv, PersistInv DEF Next

LEMMA StoreCorrect == Spec => []StoreInv
  BY StoreInit, StoreStep, PTL DEF Spec

----------------------------------------------------------------------------
\* CreateRule, UpdateRule, DeleteRule, persistState, load, Save: an acknowledged rule
\* operation holds from then on, through overlapping calls of Save, switching of the core
\* rule set, failed writes, crashes and restarts, unless a write over data.json itself was
\* cut short.
THEOREM DurableCorrect == Spec => []Durable
<1>1. StoreInv => Durable
  BY DEF StoreInv, KeptInv, Durable
<1> QED
  BY <1>1, StoreCorrect, PTL

\* persistState and Save: while nobody writes over data.json, and no such write was cut
\* short, it parses, or there is none yet and nothing was acknowledged.
THEOREM WholeCorrect == Spec => []SavedWhole
<1>1. StoreInv => SavedWhole
  <2> SUFFICES ASSUME StoreInv, ~cut, AllIdle, job.at # "direct", ~file.whole
               PROVE  file = NoFile /\ promised = <<>>
    BY DEF SavedWhole, AllIdle
  <2>1. file = NoFile /\ DOMAIN promised = {} /\ promised \in [DOMAIN promised -> Versions \cup {Gone}]
    BY DEF StoreInv, KeptInv
  <2> QED
    BY <2>1, EmptyFunction
<1> QED
  BY <1>1, StoreCorrect, PTL

\* SyncRulesToDB, SaveWAFRule, DeleteWAFRule: between operations PostgreSQL has every rule
\* that can be edited, in the version shown, if no write to it failed since the start.
THEOREM DbCorrect == Spec => []DbHasRules
<1>1. StoreInv => DbHasRules
  BY DEF StoreInv, DbInv, DbHasRules, NoJob
<1> QED
  BY <1>1, StoreCorrect, PTL


----------------------------------------------------------------------------
(***************************************************************************)
(* PostgresStore: references between the tables.  Serial numbers of users  *)
(* are not given twice, so that a reference to a deleted user can never    *)
(* come to mean another.                                                   *)
(***************************************************************************)
CONSTANTS
  Names, Emails, MaxUsers, SessionIds, MaxAudits, Callers, Times, Statuses,
  RuleIds, PageSizes, DefaultPage, LargestPage, MaxStarts

VARIABLES
  pgState, starts, migration, userRows, nextUser, sessionRows, auditRows, logRows, counterRows,
  ruleRows, adding, cutShort, pager

Pg == INSTANCE PgStore WITH state <- pgState, users <- userRows, sessions <- sessionRows, audits <- auditRows,
        logs <- logRows, counters <- counterRows, rules <- ruleRows

\* The number of elements is the same in the instance and here.
LEMMA PgCardinality ==
  ASSUME NEW S
  PROVE  Pg!Cardinality(S) = Cardinality(S)
  BY DEF Pg!Cardinality, Cardinality

AuditRecords == [user : Nat, by : Names]
UserRecords == [name : Names, email : Emails, enabled : BOOLEAN]

UserInv ==
  /\ nextUser \in Nat \ {0} /\ DOMAIN userRows \subseteq 1 .. nextUser - 1
  /\ userRows \in [DOMAIN userRows -> UserRecords]
  /\ \A i, j \in DOMAIN userRows : userRows[i].name = userRows[j].name => i = j

RefInv ==
  /\ \A s \in DOMAIN sessionRows : sessionRows[s] \in DOMAIN userRows
  /\ auditRows \in Seq(AuditRecords)
  /\ \A k \in DOMAIN auditRows : auditRows[k].user # Pg!Absent =>
       /\ auditRows[k].user \in DOMAIN userRows
       /\ userRows[auditRows[k].user].name = auditRows[k].by

OwnerInv == UserInv /\ RefInv

LEMMA OwnerInit == Pg!Init => OwnerInv
  BY DEF Pg!Init, OwnerInv, UserInv, RefInv

LEMMA CreateUserStep ==
  ASSUME OwnerInv, NEW n \in Names, NEW e \in Emails, Pg!CreateUser(n, e)
  PROVE  OwnerInv'
<1>1. nextUser' = nextUser + 1 /\ UNCHANGED <<sessionRows, auditRows>>
      /\ userRows' = IF Pg!Taken(n, e) THEN userRows
                     ELSE Pg!With(userRows, nextUser, [name |-> n, email |-> e, enabled |-> TRUE])
  BY DEF Pg!CreateUser
<1>2. CASE Pg!Taken(n, e)
  BY <1>1, <1>2 DEF OwnerInv, UserInv, RefInv
<1>3. CASE ~Pg!Taken(n, e)
  <2> DEFINE new == [name |-> n, email |-> e, enabled |-> TRUE]
  <2>1. new \in UserRecords /\ new.name = n
    BY DEF UserRecords
  <2> HIDE DEF new
  <2>2. DOMAIN userRows' = DOMAIN userRows \cup {nextUser} /\ userRows'[nextUser] = new
        /\ \A i \in DOMAIN userRows : i # nextUser => userRows'[i] = userRows[i]
    BY <1>1, <1>3 DEF Pg!With, new
  <2>3. nextUser \notin DOMAIN userRows
    BY DEF OwnerInv, UserInv
  <2>4. userRows' \in [DOMAIN userRows' -> UserRecords]
    <3>1. userRows' = [x \in DOMAIN userRows \cup {nextUser} |-> IF x = nextUser THEN new ELSE userRows[x]]
      BY <1>1, <1>3 DEF Pg!With, new
    <3> QED
      BY <2>1, <2>2, <3>1 DEF OwnerInv, UserInv
  <2>5. \A i \in DOMAIN userRows : userRows[i].name # n
    BY <1>3 DEF Pg!Taken
  <2>6. DOMAIN userRows' \subseteq 1 .. nextUser' - 1 /\ nextUser' \in Nat \ {0}
    <3>1. nextUser \in Nat \ {0} /\ \A x \in DOMAIN userRows : x \in Nat /\ 1 <= x /\ x <= nextUser - 1
      BY DEF OwnerInv, UserInv
    <3> QED
      <4>1. nextUser' - 1 = nextUser /\ nextUser' \in Nat \ {0} /\ nextUser \in 1 .. nextUser
        BY <1>1, <3>1
      <4>2. \A x \in DOMAIN userRows : x \in 1 .. nextUser
        BY <3>1
      <4> QED
        BY <2>2, <4>1, <4>2
  <2>7. UserInv'
    BY <2>1, <2>2, <2>3, <2>4, <2>5, <2>6 DEF OwnerInv, UserInv
  <2>8. RefInv'
    BY <1>1, <2>2, <2>3 DEF OwnerInv, RefInv
  <2> QED
    BY <2>7, <2>8 DEF OwnerInv
<1> QED
  BY <1>2, <1>3

LEMMA UpdateUserStep ==
  ASSUME OwnerInv, NEW i \in DOMAIN userRows, NEW e \in Emails, NEW on \in BOOLEAN, Pg!UpdateUser(i, e, on)
  PROVE  OwnerInv'
<1>1. UNCHANGED <<nextUser, sessionRows, auditRows>>
      /\ userRows' = [userRows EXCEPT ![i].email = e, ![i].enabled = on]
  BY DEF Pg!UpdateUser
<1>2. DOMAIN userRows' = DOMAIN userRows /\ userRows' \in [DOMAIN userRows' -> UserRecords]
      /\ \A j \in DOMAIN userRows : userRows'[j].name = userRows[j].name
  BY <1>1 DEF OwnerInv, UserInv, UserRecords
<1> QED
  BY <1>1, <1>2 DEF OwnerInv, UserInv, RefInv

LEMMA DeleteUserStep ==
  ASSUME OwnerInv, NEW i \in DOMAIN userRows, Pg!DeleteUser(i)
  PROVE  OwnerInv'
<1>1. nextUser' = nextUser /\ userRows' = Pg!Without(userRows, i) /\ sessionRows' = Pg!Cascade(i)
      /\ auditRows' = Pg!SetNull(i)
  BY DEF Pg!DeleteUser
<1>2. DOMAIN userRows' = DOMAIN userRows \ {i} /\ \A j \in DOMAIN userRows' : userRows'[j] = userRows[j]
  BY <1>1 DEF Pg!Without
<1>3. userRows' \in [DOMAIN userRows' -> UserRecords]
  BY <1>1 DEF Pg!Without, OwnerInv, UserInv
<1>4. UserInv'
  BY <1>1, <1>2, <1>3 DEF OwnerInv, UserInv
<1>5. \A s \in DOMAIN sessionRows' : sessionRows'[s] \in DOMAIN userRows'
  BY <1>1, <1>2 DEF Pg!Cascade, OwnerInv, RefInv
<1>6. DOMAIN auditRows' = DOMAIN auditRows
      /\ \A k \in DOMAIN auditRows :
           /\ auditRows[k] \in AuditRecords
           /\ auditRows'[k] = IF auditRows[k].user = i THEN [auditRows[k] EXCEPT !.user = Pg!Absent] ELSE auditRows[k]
  <2>1. \A k \in DOMAIN auditRows : auditRows[k] \in AuditRecords
    BY DEF OwnerInv, RefInv
  <2> QED
    BY <1>1, <2>1 DEF Pg!SetNull
<1>7. \A k \in DOMAIN auditRows :
        /\ auditRows'[k] \in AuditRecords
        /\ auditRows'[k].by = auditRows[k].by
        /\ auditRows'[k].user # Pg!Absent => auditRows'[k].user = auditRows[k].user /\ auditRows[k].user # i
  BY <1>6 DEF Pg!Absent, AuditRecords
<1>8. auditRows' \in Seq(AuditRecords)
  <2>1. auditRows' = [k \in 1 .. Len(auditRows) |-> auditRows'[k]]
    BY <1>1 DEF Pg!SetNull, OwnerInv, RefInv
  <2> QED
    BY <1>6, <1>7, <2>1 DEF OwnerInv, RefInv
<1>9. RefInv'
  BY <1>2, <1>5, <1>6, <1>7, <1>8 DEF OwnerInv, RefInv
<1> QED
  BY <1>4, <1>9 DEF OwnerInv

LEMMA AddAuditLogStep ==
  ASSUME OwnerInv, NEW i \in DOMAIN userRows, Pg!AddAuditLog(i)
  PROVE  OwnerInv'
<1>1. UNCHANGED <<nextUser, userRows, sessionRows>>
      /\ auditRows' = Append(auditRows, [user |-> i, by |-> userRows[i].name])
  BY DEF Pg!AddAuditLog
<1>2. [user |-> i, by |-> userRows[i].name] \in AuditRecords
  BY DEF OwnerInv, UserInv, UserRecords, AuditRecords
<1> QED
  BY <1>1, <1>2 DEF OwnerInv, UserInv, RefInv

LEMMA OwnerStep ==
  ASSUME OwnerInv, [Pg!Next]_(Pg!vars)
  PROVE  OwnerInv'
<1>1. CASE UNCHANGED Pg!accountVars
  BY <1>1 DEF Pg!accountVars, OwnerInv, UserInv, RefInv
<1>2. CASE \E n \in Names, e \in Emails : Pg!CreateUser(n, e)
  BY <1>2, CreateUserStep
<1>3. ASSUME NEW i \in DOMAIN userRows,
             \/ \E e \in Emails, on \in BOOLEAN : Pg!UpdateUser(i, e, on)
             \/ Pg!DeleteUser(i) \/ Pg!AddAuditLog(i)
      PROVE  OwnerInv'
  BY <1>3, UpdateUserStep, DeleteUserStep, AddAuditLogStep
<1>4. CASE UNCHANGED <<userRows, nextUser, auditRows>>
           /\ \A s \in DOMAIN sessionRows' : sessionRows'[s] \in DOMAIN userRows
  BY <1>4 DEF OwnerInv, UserInv, RefInv
<1>5. ASSUME NEW i \in DOMAIN userRows, Pg!DeleteUserSessions(i)
      PROVE  OwnerInv'
  BY <1>4, <1>5 DEF Pg!DeleteUserSessions, Pg!Cascade, OwnerInv, RefInv
<1>6. ASSUME NEW s \in SessionIds, NEW i \in 1 .. MaxUsers, Pg!CreateSession(s, i)
      PROVE  OwnerInv'
  BY <1>4, <1>6 DEF Pg!CreateSession, Pg!With, OwnerInv, RefInv
<1>7. ASSUME NEW s \in DOMAIN sessionRows, Pg!DeleteSession(s)
      PROVE  OwnerInv'
  BY <1>4, <1>7 DEF Pg!DeleteSession, Pg!Without, OwnerInv, RefInv
<1>8. CASE Pg!NewPostgresStore \/ Pg!Migrate \/ Pg!Ends \/ Pg!NextPage \/ Pg!EndPaging
  BY <1>1, <1>8, Zenon DEF Pg!NewPostgresStore, Pg!Migrate, Pg!Ends, Pg!NextPage, Pg!EndPaging, Pg!serverVars, Pg!accountVars
<1>9. CASE \E r \in RuleIds : Pg!DeleteRule(r) \/ \E on \in BOOLEAN : Pg!CreateRule(r, on) \/ Pg!UpdateRule(r, on)
  BY <1>1, <1>9, Zenon DEF Pg!DeleteRule, Pg!CreateRule, Pg!UpdateRule
<1>10. ASSUME NEW c \in Callers,
              \/ \E t \in Times, status \in Statuses : Pg!AddRow(c, t, status)
              \/ Pg!AddTotal(c) \/ Pg!AddPart(c) \/ Pg!AddFails(c)
       PROVE  OwnerInv'
  BY <1>1, <1>10, Zenon DEF Pg!AddRow, Pg!AddTotal, Pg!AddPart, Pg!AddFails
<1>11. CASE \E filtered, descending \in BOOLEAN, filter \in {"any", "Blocked"}, n \in PageSizes :
              Pg!StartPaging(filtered, filter, descending, n)
  BY <1>1, <1>11, Zenon DEF Pg!StartPaging
<1>12. CASE UNCHANGED Pg!vars
  BY <1>1, <1>12, Zenon DEF Pg!vars
<1> QED
  BY <1>2, <1>3, <1>5, <1>6, <1>7, <1>8, <1>9, <1>10, <1>11, <1>12, Zenon DEF Pg!Next

\* DeleteUser and the references of the tables: a session leads to a user, no name is used
\* twice, and an audit entry that still names a user names the one who acted.
THEOREM OwnersCorrect == Pg!Spec => []Pg!OwnersKept
<1>1. OwnerInv => Pg!OwnersKept
  <2> SUFFICES ASSUME OwnerInv PROVE Pg!OwnersKept
    OBVIOUS
  <2>1. ASSUME NEW s \in DOMAIN sessionRows PROVE Pg!SessionOwner(s) # {}
    BY <2>1 DEF Pg!SessionOwner, Pg!GetUserByID, OwnerInv, RefInv
  <2>2. ASSUME NEW n \in Names PROVE Pg!Cardinality(Pg!GetUser(n)) <= 1
    <3>1. Pg!GetUser(n) = {} \/ \E i : Pg!GetUser(n) = {i}
      BY DEF Pg!GetUser, OwnerInv, UserInv
    <3>2. CASE Pg!GetUser(n) = {}
      BY <3>2, FS_EmptySet, PgCardinality
    <3>3. ASSUME NEW i, Pg!GetUser(n) = {i} PROVE Pg!Cardinality(Pg!GetUser(n)) <= 1
      BY <3>3, FS_Singleton, PgCardinality
    <3> QED
      BY <3>1, <3>2, <3>3
  <2>3. ASSUME NEW k \in DOMAIN auditRows, auditRows[k].user # Pg!Absent
        PROVE  Pg!GetUserByID(auditRows[k].user) = Pg!GetUser(auditRows[k].by)
    BY <2>3 DEF Pg!GetUserByID, Pg!GetUser, OwnerInv, UserInv, RefInv
  <2> QED
    BY <2>1, <2>2, <2>3 DEF Pg!OwnersKept
<1> QED
  BY <1>1, OwnerInit, OwnerStep, PTL DEF Pg!Spec
----------------------------------------------------------------------------
(***************************************************************************)
(* PostgresStore: the counters of the requests.  AddLog stores the row,    *)
(* then adds to the total, then to the counter of the status, so at any    *)
(* moment the calls that are between two of these statements are what the  *)
(* three numbers may differ by.                                            *)
(***************************************************************************)
CallersOK == IsFiniteSet(Callers)

\* The value of a counter, whether or not its row is there yet.
CountOf(cs, n) == IF n \in DOMAIN cs THEN cs[n] ELSE 0
PartsOf(cs) == CountOf(cs, "blocked_requests") + CountOf(cs, "flagged_requests") + CountOf(cs, "safe_requests")
TotalOf(cs) == CountOf(cs, "total_requests")

At(f, place) == {c \in Callers : f[c].at = place}
Adding == {Pg!Idle} \cup [at : {"total", "part"}, status : Statuses]

\* The rows of the counters are there before the store is open.
CounterRows ==
  /\ counterRows = <<>> \/ counterRows \in [Pg!Counters -> Nat]
  /\ pgState = "open" => counterRows \in [Pg!Counters -> Nat]
  /\ pgState = "migrating" => migration \in 1 .. 8 /\ (migration > 5 => counterRows \in [Pg!Counters -> Nat])

Counted ==
  /\ adding \in [Callers -> Adding] /\ cutShort \in Nat /\ IsFiniteSet(DOMAIN logRows)
  /\ Cardinality(DOMAIN logRows) = PartsOf(counterRows) + cutShort + Cardinality(Pg!InFlight)
  /\ PartsOf(counterRows) + Cardinality(At(adding, "part")) <= TotalOf(counterRows)
  /\ TotalOf(counterRows) + Cardinality(At(adding, "total")) <= Cardinality(DOMAIN logRows)

CountInv == CounterRows /\ Counted

\* The counters are numbers.
LEMMA CountsType ==
  ASSUME CounterRows
  PROVE  PartsOf(counterRows) \in Nat /\ TotalOf(counterRows) \in Nat
         /\ \A n : CountOf(counterRows, n) \in Nat
<1>1. \A n : CountOf(counterRows, n) \in Nat
  BY DEF CounterRows, CountOf
<1> QED
  BY <1>1 DEF PartsOf, TotalOf

\* The callers that are in AddLog are finitely many.
LEMMA CallersFinite ==
  ASSUME CallersOK, NEW f
  PROVE  /\ \A place : IsFiniteSet(At(f, place)) /\ Cardinality(At(f, place)) \in Nat
         /\ IsFiniteSet(Pg!InFlight) /\ Cardinality(Pg!InFlight) \in Nat
<1>1. Pg!InFlight \subseteq Callers /\ \A place : At(f, place) \subseteq Callers
  BY DEF Pg!InFlight, At
<1> QED
  BY <1>1, FS_Subset, FS_CardinalityType DEF CallersOK

\* The numbers of the invariant.
LEMMA CountNumbers ==
  ASSUME CallersOK, CountInv
  PROVE  /\ Cardinality(DOMAIN logRows) \in Nat /\ PartsOf(counterRows) \in Nat /\ TotalOf(counterRows) \in Nat
         /\ Cardinality(Pg!InFlight) \in Nat /\ cutShort \in Nat
         /\ Cardinality(At(adding, "total")) \in Nat /\ Cardinality(At(adding, "part")) \in Nat
         /\ IsFiniteSet(DOMAIN logRows)
<1>1. IsFiniteSet(DOMAIN logRows) /\ cutShort \in Nat
  BY DEF CountInv, Counted
<1>2. Cardinality(DOMAIN logRows) \in Nat
  BY <1>1, FS_CardinalityType
<1>3. Cardinality(Pg!InFlight) \in Nat /\ Cardinality(At(adding, "total")) \in Nat /\ Cardinality(At(adding, "part")) \in Nat
  BY CallersFinite
<1>4. PartsOf(counterRows) \in Nat /\ TotalOf(counterRows) \in Nat
  BY CountsType DEF CountInv
<1> QED
  BY <1>1, <1>2, <1>3, <1>4

LEMMA NobodyAdding ==
  ASSUME adding = [c \in Callers |-> Pg!Idle]
  PROVE  /\ adding \in [Callers -> Adding]
         /\ Cardinality(Pg!InFlight) = 0
         /\ Cardinality(At(adding, "total")) = 0 /\ Cardinality(At(adding, "part")) = 0
<1>1. Pg!InFlight = {} /\ At(adding, "total") = {} /\ At(adding, "part") = {}
  BY DEF Pg!InFlight, At, Pg!Idle
<1>2. adding \in [Callers -> Adding]
  BY DEF Adding
<1> QED
  BY <1>1, <1>2, FS_EmptySet

LEMMA CountInit ==
  ASSUME Pg!Init
  PROVE  CountInv
<1>1. counterRows = <<>> /\ DOMAIN logRows = {} /\ cutShort = 0 /\ pgState = "closed"
      /\ adding = [c \in Callers |-> Pg!Idle]
  BY DEF Pg!Init
<1>2. PartsOf(counterRows) = 0 /\ TotalOf(counterRows) = 0
  BY <1>1 DEF PartsOf, TotalOf, CountOf
<1>3. CounterRows
  BY <1>1 DEF CounterRows
<1> QED
  BY <1>1, <1>2, <1>3, NobodyAdding, FS_EmptySet DEF CountInv, Counted

\* One more for a counter, and the others as they were.
LEMMA Incremented ==
  ASSUME CounterRows, counterRows \in [Pg!Counters -> Nat], NEW n \in Pg!Counters,
         counterRows' = Pg!IncrementStat(counterRows, n), pgState' = "open"
  PROVE  /\ CounterRows'
         /\ n = "total_requests" => PartsOf(counterRows') = PartsOf(counterRows)
                                    /\ TotalOf(counterRows') = TotalOf(counterRows) + 1
         /\ n \in Pg!Parts => PartsOf(counterRows') = PartsOf(counterRows) + 1
                              /\ TotalOf(counterRows') = TotalOf(counterRows)
<1>1. counterRows' = [x \in Pg!Counters |-> IF x = n THEN counterRows[n] + 1 ELSE counterRows[x]]
  <2>1. DOMAIN counterRows = Pg!Counters /\ Pg!Counters \cup {n} = Pg!Counters
    OBVIOUS
  <2> QED
    BY <2>1 DEF Pg!IncrementStat, Pg!With
<1>2. counterRows' \in [Pg!Counters -> Nat]
  BY <1>1
<1>3. CounterRows'
  BY <1>2 DEF CounterRows
<1>4. \A x \in Pg!Counters : /\ CountOf(counterRows', x) = IF x = n THEN CountOf(counterRows, x) + 1 ELSE CountOf(counterRows, x)
                             /\ CountOf(counterRows, x) \in Nat
  BY <1>1 DEF CountOf
<1>5. Pg!Parts = {"blocked_requests", "flagged_requests", "safe_requests"}
      /\ Pg!Counters = {"blocked_requests", "flagged_requests", "safe_requests", "total_requests"}
  BY DEF Pg!Counters, Pg!Parts
<1> QED
  BY <1>3, <1>4, <1>5 DEF PartsOf, TotalOf

\* What a step of one caller does to the sets of callers.
LEMMA CallerMoves ==
  ASSUME CallersOK, adding \in [Callers -> Adding], NEW c \in Callers, NEW v \in Adding, adding' = [adding EXCEPT ![c] = v]
  PROVE  /\ adding' \in [Callers -> Adding]
         /\ \A place : At(adding', place) = IF v.at = place THEN At(adding, place) \cup {c} ELSE At(adding, place) \ {c}
         /\ Pg!InFlight' = IF v.at # "idle" THEN Pg!InFlight \cup {c} ELSE Pg!InFlight \ {c}
  BY DEF At, Pg!InFlight

LEMMA AddRowStep ==
  ASSUME CallersOK, CountInv, NEW c \in Callers, NEW t \in Times, NEW status \in Statuses, Pg!AddRow(c, t, status)
  PROVE  CountInv'
<1> DEFINE v == [at |-> "total", status |-> status]
<1>1. adding[c] = Pg!Idle /\ t \notin DOMAIN logRows /\ logRows' = Pg!With(logRows, t, status)
      /\ adding' = [adding EXCEPT ![c] = v] /\ UNCHANGED <<counterRows, cutShort, pgState, migration>>
  BY DEF Pg!AddRow, Pg!Open
<1>2. DOMAIN logRows' = DOMAIN logRows \cup {t}
  BY <1>1 DEF Pg!With
<1>3. v \in Adding /\ v.at = "total" /\ adding[c].at = "idle"
  BY <1>1 DEF Adding, Pg!Idle
<1> HIDE DEF v
<1>4. /\ adding' \in [Callers -> Adding]
      /\ At(adding', "total") = At(adding, "total") \cup {c} /\ c \notin At(adding, "total")
      /\ At(adding', "part") = At(adding, "part")
      /\ Pg!InFlight' = Pg!InFlight \cup {c} /\ c \notin Pg!InFlight
  BY <1>1, <1>3, CallerMoves DEF CountInv, Counted, At, Pg!InFlight
<1>5. /\ Cardinality(At(adding', "total")) = Cardinality(At(adding, "total")) + 1
      /\ Cardinality(Pg!InFlight') = Cardinality(Pg!InFlight) + 1
      /\ IsFiniteSet(DOMAIN logRows') /\ Cardinality(DOMAIN logRows') = Cardinality(DOMAIN logRows) + 1
  <2>1. Cardinality(At(adding', "total")) = Cardinality(At(adding, "total")) + 1
    BY <1>4, CallersFinite, FS_AddElement
  <2>2. Cardinality(Pg!InFlight') = Cardinality(Pg!InFlight) + 1
    BY <1>4, CallersFinite, FS_AddElement
  <2>3. IsFiniteSet(DOMAIN logRows') /\ Cardinality(DOMAIN logRows') = Cardinality(DOMAIN logRows) + 1
    <3>1. t \notin DOMAIN logRows /\ IsFiniteSet(DOMAIN logRows)
      BY <1>1, CountNumbers
    <3> QED
      BY Zenon, <1>2, <3>1, FS_AddElement
  <2> QED
    BY <2>1, <2>2, <2>3
<1>6. CounterRows'
  BY <1>1 DEF CountInv, CounterRows
<1>9. Counted'
  <2>1. /\ Cardinality(DOMAIN logRows) = PartsOf(counterRows) + cutShort + Cardinality(Pg!InFlight)
        /\ PartsOf(counterRows) + Cardinality(At(adding, "part")) <= TotalOf(counterRows)
        /\ TotalOf(counterRows) + Cardinality(At(adding, "total")) <= Cardinality(DOMAIN logRows)
    BY DEF CountInv, Counted
  <2>2. UNCHANGED <<PartsOf(counterRows), TotalOf(counterRows), cutShort>>
        /\ Cardinality(At(adding', "part")) = Cardinality(At(adding, "part"))
    BY Zenon, <1>1, <1>4
  <2>3. /\ Cardinality(DOMAIN logRows') = PartsOf(counterRows') + cutShort' + Cardinality(Pg!InFlight')
        /\ PartsOf(counterRows') + Cardinality(At(adding', "part")) <= TotalOf(counterRows')
        /\ TotalOf(counterRows') + Cardinality(At(adding', "total")) <= Cardinality(DOMAIN logRows')
    <3>1. ASSUME NEW rows \in Nat, NEW parts \in Nat, NEW short \in Nat, NEW flying \in Nat, rows = parts + short + flying
          PROVE  rows + 1 = parts + short + (flying + 1)
      BY <3>1
    <3>2. ASSUME NEW rows \in Nat, NEW total \in Nat, NEW begun \in Nat, total + begun <= rows
          PROVE  total + (begun + 1) <= rows + 1
      BY <3>2
    <3>3. Cardinality(DOMAIN logRows) + 1 = PartsOf(counterRows) + cutShort + (Cardinality(Pg!InFlight) + 1)
      <4> DEFINE rows == Cardinality(DOMAIN logRows)
                 parts == PartsOf(counterRows)
                 flying == Cardinality(Pg!InFlight)
      <4>1. rows \in Nat /\ parts \in Nat /\ cutShort \in Nat /\ flying \in Nat
        BY Zenon, CountNumbers
      <4>2. rows = parts + cutShort + flying
        BY Zenon, <2>1
      <4> HIDE DEF rows, parts, flying
      <4>3. rows + 1 = parts + cutShort + (flying + 1)
        BY <3>1, <4>1, <4>2
      <4> QED
        BY Zenon, <4>3 DEF rows, parts, flying
    <3>4. TotalOf(counterRows) + (Cardinality(At(adding, "total")) + 1) <= Cardinality(DOMAIN logRows) + 1
      BY Zenon, <2>1, <3>2, CountNumbers
    <3> QED
      BY Zenon, <1>5, <2>1, <2>2, <3>3, <3>4
  <2>4. adding' \in [Callers -> Adding] /\ cutShort' \in Nat /\ IsFiniteSet(DOMAIN logRows')
    BY Zenon, <1>1, <1>4, <1>5 DEF CountInv, Counted
  <2> QED
    BY Zenon, <2>3, <2>4 DEF Counted
<1> QED
  BY <1>6, <1>9 DEF CountInv

LEMMA AddTotalStep ==
  ASSUME CallersOK, CountInv, NEW c \in Callers, Pg!AddTotal(c)
  PROVE  CountInv'
<1> DEFINE v == [adding[c] EXCEPT !.at = "part"]
<1>1. adding[c].at = "total" /\ adding' = [adding EXCEPT ![c] = v] /\ counterRows' = Pg!IncrementStat(counterRows, "total_requests")
      /\ UNCHANGED <<logRows, cutShort, pgState, migration>> /\ pgState = "open"
  BY DEF Pg!AddTotal, Pg!Open
<1>2. adding[c] \in [at : {"total", "part"}, status : Statuses]
  BY <1>1 DEF CountInv, Counted, Adding, Pg!Idle
<1>3. v \in Adding /\ v.at = "part"
  BY <1>2 DEF Adding
<1> HIDE DEF v
<1>4. /\ adding' \in [Callers -> Adding]
      /\ At(adding', "total") = At(adding, "total") \ {c} /\ c \in At(adding, "total")
      /\ At(adding', "part") = At(adding, "part") \cup {c} /\ c \notin At(adding, "part")
      /\ Pg!InFlight' = Pg!InFlight
  BY <1>1, <1>3, CallerMoves DEF CountInv, Counted, At, Pg!InFlight
<1>5. /\ Cardinality(At(adding', "total")) = Cardinality(At(adding, "total")) - 1
      /\ Cardinality(At(adding', "part")) = Cardinality(At(adding, "part")) + 1
  BY <1>4, CallersFinite, FS_AddElement, FS_RemoveElement
<1>6. CounterRows' /\ PartsOf(counterRows') = PartsOf(counterRows) /\ TotalOf(counterRows') = TotalOf(counterRows) + 1
  BY <1>1, Incremented DEF CountInv, CounterRows, Pg!Counters
<1>9. Counted'
  <2>1. /\ Cardinality(DOMAIN logRows) = PartsOf(counterRows) + cutShort + Cardinality(Pg!InFlight)
        /\ PartsOf(counterRows) + Cardinality(At(adding, "part")) <= TotalOf(counterRows)
        /\ TotalOf(counterRows) + Cardinality(At(adding, "total")) <= Cardinality(DOMAIN logRows)
    BY DEF CountInv, Counted
  <2> QED
    BY <1>1, <1>4, <1>5, <1>6, <2>1, CountNumbers DEF Counted
<1> QED
  BY <1>6, <1>9 DEF CountInv

\* A call that leaves AddLog: from its last statement, or with an error.
LEMMA CallerLeaves ==
  ASSUME CallersOK, CountInv, NEW c \in Callers, adding[c].at \in {"total", "part"}, adding' = [adding EXCEPT ![c] = Pg!Idle]
  PROVE  /\ adding' \in [Callers -> Adding]
         /\ Cardinality(Pg!InFlight') = Cardinality(Pg!InFlight) - 1
         /\ Cardinality(At(adding', "total")) <= Cardinality(At(adding, "total"))
         /\ Cardinality(At(adding', "part"))
              = IF adding[c].at = "part" THEN Cardinality(At(adding, "part")) - 1 ELSE Cardinality(At(adding, "part"))
<1>1. Pg!Idle \in Adding /\ Pg!Idle.at = "idle"
  BY DEF Adding, Pg!Idle
<1>2. /\ adding' \in [Callers -> Adding]
      /\ At(adding', "total") = At(adding, "total") \ {c}
      /\ At(adding', "part") = At(adding, "part") \ {c} /\ (c \in At(adding, "part") <=> adding[c].at = "part")
      /\ Pg!InFlight' = Pg!InFlight \ {c} /\ c \in Pg!InFlight
  BY <1>1, CallerMoves DEF CountInv, Counted, At, Pg!InFlight
<1>3. Cardinality(Pg!InFlight') = Cardinality(Pg!InFlight) - 1
  BY <1>2, CallersFinite, FS_RemoveElement
<1>4. IsFiniteSet(At(adding, "total")) /\ Cardinality(At(adding, "total")) \in Nat /\ IsFiniteSet(At(adding, "part"))
  BY CallersFinite
<1>5. Cardinality(At(adding', "total")) <= Cardinality(At(adding, "total"))
  <2>1. Cardinality(At(adding, "total") \ {c})
          = IF c \in At(adding, "total") THEN Cardinality(At(adding, "total")) - 1 ELSE Cardinality(At(adding, "total"))
    BY <1>4, FS_RemoveElement
  <2>2. At(adding', "total") = At(adding, "total") \ {c} /\ Cardinality(At(adding, "total")) \in Nat
    BY <1>2, <1>4
  <2>3. Cardinality(At(adding', "total")) \in {Cardinality(At(adding, "total")) - 1, Cardinality(At(adding, "total"))}
    BY <2>1, <2>2
  <2>4. ASSUME NEW m \in Nat, NEW n \in {m - 1, m} PROVE n <= m
    OBVIOUS
  <2> QED
    BY <2>2, <2>3, <2>4
<1>6. Cardinality(At(adding', "part"))
        = IF adding[c].at = "part" THEN Cardinality(At(adding, "part")) - 1 ELSE Cardinality(At(adding, "part"))
  <2>1. Cardinality(At(adding, "part") \ {c})
          = IF c \in At(adding, "part") THEN Cardinality(At(adding, "part")) - 1 ELSE Cardinality(At(adding, "part"))
    BY <1>4, FS_RemoveElement
  <2> QED
    BY <1>2, <2>1
<1> QED
  BY <1>2, <1>3, <1>5, <1>6

LEMMA AddPartStep ==
  ASSUME CallersOK, CountInv, NEW c \in Callers, Pg!AddPart(c)
  PROVE  CountInv'
<1> DEFINE n == Pg!StatName(adding[c].status)
<1>1. adding[c].at = "part" /\ adding' = [adding EXCEPT ![c] = Pg!Idle] /\ counterRows' = Pg!IncrementStat(counterRows, n)
      /\ UNCHANGED <<logRows, cutShort, pgState, migration>> /\ pgState = "open"
  BY DEF Pg!AddPart, Pg!Open
<1>2. n \in Pg!Parts /\ n \in Pg!Counters
  BY DEF Pg!StatName, Pg!Parts, Pg!Counters
<1> HIDE DEF n
<1>3. CounterRows' /\ PartsOf(counterRows') = PartsOf(counterRows) + 1 /\ TotalOf(counterRows') = TotalOf(counterRows)
  BY <1>1, <1>2, Incremented DEF CountInv, CounterRows
<1>4. /\ adding' \in [Callers -> Adding]
      /\ Cardinality(Pg!InFlight') = Cardinality(Pg!InFlight) - 1
      /\ Cardinality(At(adding', "total")) <= Cardinality(At(adding, "total"))
      /\ Cardinality(At(adding', "part")) = Cardinality(At(adding, "part")) - 1
  BY <1>1, CallerLeaves
<1>6. Cardinality(At(adding', "total")) \in Nat
  BY CallersFinite
<1>9. Counted'
  <2>1. /\ Cardinality(DOMAIN logRows) = PartsOf(counterRows) + cutShort + Cardinality(Pg!InFlight)
        /\ PartsOf(counterRows) + Cardinality(At(adding, "part")) <= TotalOf(counterRows)
        /\ TotalOf(counterRows) + Cardinality(At(adding, "total")) <= Cardinality(DOMAIN logRows)
    BY DEF CountInv, Counted
  <2> QED
    BY <1>1, <1>3, <1>4, <1>6, <2>1, CountNumbers DEF Counted
<1> QED
  BY <1>3, <1>9 DEF CountInv

LEMMA AddFailsStep ==
  ASSUME CallersOK, CountInv, NEW c \in Callers, Pg!AddFails(c)
  PROVE  CountInv'
<1>1. adding[c].at \in {"total", "part"} /\ adding' = [adding EXCEPT ![c] = Pg!Idle] /\ cutShort' = cutShort + 1
      /\ UNCHANGED <<logRows, counterRows, pgState, migration>>
  BY DEF Pg!AddFails, Pg!Open
<1>2. /\ adding' \in [Callers -> Adding]
      /\ Cardinality(Pg!InFlight') = Cardinality(Pg!InFlight) - 1
      /\ Cardinality(At(adding', "total")) <= Cardinality(At(adding, "total"))
      /\ Cardinality(At(adding', "part")) <= Cardinality(At(adding, "part"))
  <2>1. Cardinality(At(adding, "part")) \in Nat
    BY CallersFinite
  <2>2. /\ adding' \in [Callers -> Adding]
        /\ Cardinality(Pg!InFlight') = Cardinality(Pg!InFlight) - 1
        /\ Cardinality(At(adding', "total")) <= Cardinality(At(adding, "total"))
        /\ Cardinality(At(adding', "part"))
             = IF adding[c].at = "part" THEN Cardinality(At(adding, "part")) - 1 ELSE Cardinality(At(adding, "part"))
    BY <1>1, CallerLeaves
  <2> QED
    BY <2>1, <2>2
<1>4. Cardinality(At(adding', "total")) \in Nat /\ Cardinality(At(adding', "part")) \in Nat
  BY CallersFinite
<1>5. CounterRows'
  BY <1>1 DEF CountInv, CounterRows
<1>9. Counted'
  <2>1. /\ Cardinality(DOMAIN logRows) = PartsOf(counterRows) + cutShort + Cardinality(Pg!InFlight)
        /\ PartsOf(counterRows) + Cardinality(At(adding, "part")) <= TotalOf(counterRows)
        /\ TotalOf(counterRows) + Cardinality(At(adding, "total")) <= Cardinality(DOMAIN logRows)
    BY DEF CountInv, Counted
  <2> QED
    BY <1>1, <1>2, <1>4, <1>5, <2>1, CountNumbers DEF Counted
<1> QED
  BY <1>5, <1>9 DEF CountInv

LEMMA MigrateStep ==
  ASSUME CountInv, Pg!Migrate
  PROVE  CountInv'
<1>1. pgState = "migrating" /\ migration' = migration + 1 /\ UNCHANGED <<logRows, adding, cutShort>>
      /\ pgState' = (IF migration = 8 THEN "open" ELSE pgState)
      /\ counterRows' = IF migration = 5 THEN Pg!InsertCounters(counterRows) ELSE counterRows
  <2>1. migration \in 1 .. 8
    BY DEF Pg!Migrate, CountInv, CounterRows
  <2>2. Len(Pg!Migrations) = 8
    BY DEF Pg!Migrations
  <2>3. Pg!Migrations[migration] = "counter rows" <=> migration = 5
    <3>1. migration \in {1, 2, 3, 4, 5, 6, 7, 8}
      BY <2>1
    <3>2. /\ Pg!Migrations[1] = "users" /\ Pg!Migrations[2] = "waf_logs" /\ Pg!Migrations[3] = "waf_rules"
          /\ Pg!Migrations[4] = "waf_stats" /\ Pg!Migrations[5] = "counter rows" /\ Pg!Migrations[6] = "audit_logs"
          /\ Pg!Migrations[7] = "rule_audit_log" /\ Pg!Migrations[8] = "sessions"
      BY DEF Pg!Migrations
    <3> QED
      BY <3>1, <3>2
  <2> QED
    BY <2>2, <2>3 DEF Pg!Migrate
<1>2. Pg!InsertCounters(counterRows) \in [Pg!Counters -> Nat]
      /\ \A n \in Pg!Counters : CountOf(Pg!InsertCounters(counterRows), n) = CountOf(counterRows, n)
  BY DEF Pg!InsertCounters, CountOf, CountInv, CounterRows
<1>3. PartsOf(counterRows') = PartsOf(counterRows) /\ TotalOf(counterRows') = TotalOf(counterRows)
  BY <1>1, <1>2 DEF PartsOf, TotalOf, Pg!Counters, Pg!Parts
<1>4. CounterRows'
  BY <1>1, <1>2 DEF CountInv, CounterRows
<1> QED
  BY <1>1, <1>3, <1>4 DEF CountInv, Counted, Pg!InFlight

LEMMA EndsStep ==
  ASSUME CallersOK, CountInv, Pg!Ends
  PROVE  CountInv'
<1>1. pgState' = "closed" /\ adding' = [c \in Callers |-> Pg!Idle] /\ cutShort' = cutShort + Cardinality(Pg!InFlight)
      /\ UNCHANGED <<logRows, counterRows>>
  BY PgCardinality DEF Pg!Ends, Pg!serverVars
<1>2. /\ adding' \in [Callers -> Adding] /\ Cardinality(Pg!InFlight') = 0
      /\ Cardinality(At(adding', "total")) = 0 /\ Cardinality(At(adding', "part")) = 0
  <2>1. Pg!InFlight' = {} /\ At(adding', "total") = {} /\ At(adding', "part") = {}
    BY <1>1 DEF Pg!InFlight, At, Pg!Idle
  <2> QED
    BY <1>1, <2>1, FS_EmptySet DEF Adding
<1>3. CounterRows'
  BY <1>1 DEF CountInv, CounterRows
<1>9. Counted'
  <2>1. /\ Cardinality(DOMAIN logRows) = PartsOf(counterRows) + cutShort + Cardinality(Pg!InFlight)
        /\ PartsOf(counterRows) + Cardinality(At(adding, "part")) <= TotalOf(counterRows)
        /\ TotalOf(counterRows) + Cardinality(At(adding, "total")) <= Cardinality(DOMAIN logRows)
    BY DEF CountInv, Counted
  <2> QED
    BY <1>1, <1>2, <1>3, <2>1, CountNumbers DEF Counted
<1> QED
  BY <1>3, <1>9 DEF CountInv

LEMMA CountStep ==
  ASSUME CallersOK, CountInv, [Pg!Next]_(Pg!vars)
  PROVE  CountInv'
<1>1. CASE UNCHANGED <<pgState, migration, logRows, counterRows, adding, cutShort>>
  BY <1>1 DEF CountInv, CounterRows, Counted, Pg!InFlight
<1>2. CASE Pg!NewPostgresStore
  BY <1>2 DEF Pg!NewPostgresStore, Pg!logVars, CountInv, CounterRows, Counted, Pg!InFlight
<1>3. CASE Pg!Migrate \/ Pg!Ends
  BY <1>3, MigrateStep, EndsStep
<1>4. ASSUME NEW c \in Callers,
             \/ \E t \in Times, status \in Statuses : Pg!AddRow(c, t, status)
             \/ Pg!AddTotal(c) \/ Pg!AddPart(c) \/ Pg!AddFails(c)
      PROVE  CountInv'
  BY <1>4, AddRowStep, AddTotalStep, AddPartStep, AddFailsStep
<1>5. CASE \E n \in Names, e \in Emails : Pg!CreateUser(n, e)
  BY <1>1, <1>5, Zenon DEF Pg!CreateUser, Pg!Open, Pg!logVars
<1>6. ASSUME NEW i \in DOMAIN userRows,
             \/ \E e \in Emails, on \in BOOLEAN : Pg!UpdateUser(i, e, on)
             \/ Pg!DeleteUser(i) \/ Pg!DeleteUserSessions(i) \/ Pg!AddAuditLog(i)
      PROVE  CountInv'
  BY <1>1, <1>6, Zenon DEF Pg!UpdateUser, Pg!DeleteUser, Pg!DeleteUserSessions, Pg!AddAuditLog, Pg!Open, Pg!logVars
<1>7. CASE \/ \E s \in SessionIds, i \in 1 .. MaxUsers : Pg!CreateSession(s, i)
           \/ \E s \in DOMAIN sessionRows : Pg!DeleteSession(s)
  BY <1>1, <1>7, Zenon DEF Pg!CreateSession, Pg!DeleteSession, Pg!Open, Pg!logVars
<1>8. CASE \E r \in RuleIds : Pg!DeleteRule(r) \/ \E on \in BOOLEAN : Pg!CreateRule(r, on) \/ Pg!UpdateRule(r, on)
  BY <1>1, <1>8, Zenon DEF Pg!DeleteRule, Pg!CreateRule, Pg!UpdateRule, Pg!Open, Pg!logVars
<1>9. CASE \E filtered, descending \in BOOLEAN, filter \in {"any", "Blocked"}, n \in PageSizes :
             Pg!StartPaging(filtered, filter, descending, n)
  BY <1>1, <1>9, Zenon DEF Pg!StartPaging, Pg!Open, Pg!logVars
<1>10. CASE Pg!NextPage \/ Pg!EndPaging
  BY <1>1, <1>10, Zenon DEF Pg!NextPage, Pg!EndPaging, Pg!Open, Pg!logVars
<1>11. CASE UNCHANGED Pg!vars
  BY <1>1, <1>11, Zenon DEF Pg!vars, Pg!logVars
<1> QED
  BY <1>2, <1>3, <1>4, <1>5, <1>6, <1>7, <1>8, <1>9, <1>10, <1>11, Zenon DEF Pg!Next

\* AddLog and GetStats, for any number of callers: the parts add up to at most the total,
\* which is at most the number of rows, and the rows that are not counted are those of calls
\* still running or cut short by an error, a crash or a restart.
THEOREM CountersCorrect ==
  ASSUME CallersOK
  PROVE  Pg!Spec => []Pg!LogsCounted
<1>1. ASSUME CountInv PROVE Pg!LogsCounted
  <2> SUFFICES ASSUME counterRows \in [Pg!Counters -> Nat]
               PROVE  Pg!GetStats.parts <= Pg!GetStats.total /\ Pg!GetStats.total <= Pg!GetLogCount
                      /\ Pg!GetLogCount - Pg!GetStats.parts = cutShort + Pg!Cardinality(Pg!InFlight)
    BY <1>1 DEF CountInv, CounterRows, Pg!LogsCounted
  <2>1. Pg!GetStats.parts = PartsOf(counterRows) /\ Pg!GetStats.total = TotalOf(counterRows)
    BY DEF Pg!GetStats, PartsOf, TotalOf, CountOf, Pg!Counters, Pg!Parts
  <2>2. Pg!GetLogCount = Cardinality(DOMAIN logRows) /\ Pg!Cardinality(Pg!InFlight) = Cardinality(Pg!InFlight)
        /\ Cardinality(DOMAIN logRows) \in Nat
    BY <1>1, PgCardinality, FS_CardinalityType DEF Pg!GetLogCount, CountInv, Counted
  <2> QED
    BY <1>1, <2>1, <2>2, CountsType, CallersFinite DEF CountInv, Counted
<1> QED
  BY <1>1, CountInit, CountStep, PTL DEF Pg!Spec

----------------------------------------------------------------------------
(***************************************************************************)
(* PostgresStore: reading the log page by page.  The rank of a row, which  *)
(* LIMIT and OFFSET count, is its number in the table; when rows are added *)
(* it can only grow, so that a row not yet read stays at or behind the     *)
(* offset, and a page that is not the last holds the row at the offset.    *)
(***************************************************************************)
PagesOK == /\ Times \subseteq Int /\ PageSizes \subseteq Nat
           /\ DefaultPage \in Nat \ {0} /\ LargestPage \in Nat \ {0}

\* The rows before a row.
Preceding(ts, d, t) == {u \in ts : Pg!Before(d, u, t)}

LEMMA RankIsCount ==
  ASSUME NEW ts, NEW d, NEW t
  PROVE  Pg!Rank(ts, d, t) = Cardinality(Preceding(ts, d, t))
  BY PgCardinality DEF Pg!Rank, Preceding

\* Rows are numbered from zero, each with a number of its own.
LEMMA RankFacts ==
  ASSUME NEW ts, IsFiniteSet(ts), ts \subseteq Int, NEW d \in BOOLEAN
  PROVE  /\ \A t \in ts : Pg!Rank(ts, d, t) \in 0 .. Cardinality(ts) - 1
         /\ \A t, u \in ts : Pg!Rank(ts, d, t) = Pg!Rank(ts, d, u) => t = u
<1>1. ASSUME NEW t \in ts
      PROVE  IsFiniteSet(Preceding(ts, d, t)) /\ Cardinality(Preceding(ts, d, t)) \in Nat
  <2>1. Preceding(ts, d, t) \in SUBSET ts
    BY DEF Preceding
  <2> QED
    BY <2>1, FS_Subset, FS_CardinalityType
<1>2. ASSUME NEW t \in ts
      PROVE  Cardinality(Preceding(ts, d, t)) <= Cardinality(ts) - 1 /\ Cardinality(ts) \in Nat
  <2>1. Preceding(ts, d, t) \in SUBSET (ts \ {t})
    BY DEF Preceding, Pg!Before
  <2>2. IsFiniteSet(ts \ {t}) /\ Cardinality(ts \ {t}) = Cardinality(ts) - 1
    BY FS_RemoveElement
  <2> QED
    BY <2>1, <2>2, FS_Subset, FS_CardinalityType
<1>3. ASSUME NEW t \in ts, NEW u \in ts, Pg!Before(d, u, t)
      PROVE  Cardinality(Preceding(ts, d, u)) < Cardinality(Preceding(ts, d, t))
  <2>1. Preceding(ts, d, u) \cup {u} \in SUBSET Preceding(ts, d, t) /\ u \notin Preceding(ts, d, u)
    <3>1. u \in Int /\ t \in Int /\ ~Pg!Before(d, u, u) /\ \A x \in ts : Pg!Before(d, x, u) => Pg!Before(d, x, t)
      BY <1>3 DEF Pg!Before
    <3> QED
      BY <1>3, <3>1 DEF Preceding
  <2>2. Cardinality(Preceding(ts, d, u) \cup {u}) = Cardinality(Preceding(ts, d, u)) + 1
    BY <1>1, <2>1, FS_AddElement
  <2>3. Cardinality(Preceding(ts, d, u) \cup {u}) <= Cardinality(Preceding(ts, d, t))
    BY <1>1, <2>1, FS_Subset
  <2>4. Cardinality(Preceding(ts, d, u)) \in Nat /\ Cardinality(Preceding(ts, d, t)) \in Nat
    BY <1>1
  <2> QED
    BY <2>2, <2>3, <2>4
<1>4. \A t, u \in ts : t = u \/ Pg!Before(d, t, u) \/ Pg!Before(d, u, t)
  BY DEF Pg!Before
<1>5. ASSUME NEW t \in ts PROVE Pg!Rank(ts, d, t) \in 0 .. Cardinality(ts) - 1
  BY <1>1, <1>2, RankIsCount
<1>6. ASSUME NEW t \in ts, NEW u \in ts, Pg!Rank(ts, d, t) = Pg!Rank(ts, d, u) PROVE t = u
  <2>1. Cardinality(Preceding(ts, d, t)) = Cardinality(Preceding(ts, d, u)) /\ Cardinality(Preceding(ts, d, u)) \in Nat
    BY <1>1, <1>6, RankIsCount
  <2>2. ~(Cardinality(Preceding(ts, d, t)) < Cardinality(Preceding(ts, d, u)))
        /\ ~(Cardinality(Preceding(ts, d, u)) < Cardinality(Preceding(ts, d, t)))
    BY <2>1
  <2> QED
    BY <1>3, <1>4, <2>2
<1> QED
  BY <1>5, <1>6

\* A page has no more rows than its limit.
LEMMA PageSize ==
  ASSUME NEW ts, IsFiniteSet(ts), ts \subseteq Int, NEW d \in BOOLEAN, NEW limit \in Nat, NEW offset \in Nat
  PROVE  LET page == Pg!Page(ts, d, limit, offset)
         IN Pg!Cardinality(page) \in Nat /\ Pg!Cardinality(page) <= limit
<1> DEFINE page == Pg!Page(ts, d, limit, offset)
           places == offset .. offset + limit - 1
           f == [t \in page |-> Pg!Rank(ts, d, t)]
<1>1. page \subseteq ts /\ \A t \in page : Pg!Rank(ts, d, t) \in places
  BY DEF Pg!Page
<1>2. IsFiniteSet(places) /\ Cardinality(places) = limit
  BY FS_Interval
<1> HIDE DEF page, places
<1>3. f \in Injection(page, places)
  <2>1. \A t, u \in ts : Pg!Rank(ts, d, t) = Pg!Rank(ts, d, u) => t = u
    BY RankFacts
  <2>2. f \in [page -> places] /\ \A t, u \in page : f[t] = f[u] => t = u
    BY <1>1, <2>1
  <2> QED
    BY <2>2 DEF Injection, IsInjective
<1>4. IsFiniteSet(page) /\ Cardinality(page) <= Cardinality(places)
  BY <1>2, <1>3, FS_Injection
<1>5. Cardinality(page) \in Nat
  BY <1>4, FS_CardinalityType
<1> QED
  BY <1>2, <1>4, <1>5, PgCardinality DEF page

\* The page at an offset is empty only if there are no rows from there on.
LEMMA PageEmpty ==
  ASSUME NEW ts, IsFiniteSet(ts), ts \subseteq Int, NEW d \in BOOLEAN, NEW limit \in Nat \ {0}, NEW offset \in Nat,
         Pg!Page(ts, d, limit, offset) = {}, NEW t \in ts
  PROVE  Pg!Rank(ts, d, t) < offset
<1> DEFINE places == 0 .. Cardinality(ts) - 1
           f == [u \in ts |-> Pg!Rank(ts, d, u)]
<1>1. Cardinality(ts) \in Nat
  BY FS_CardinalityType
<1>2. IsFiniteSet(places) /\ Cardinality(places) = Cardinality(ts)
  <2>1. ASSUME NEW n \in Nat PROVE IsFiniteSet(0 .. n - 1) /\ Cardinality(0 .. n - 1) = n
    BY FS_Interval
  <2> QED
    BY <1>1, <2>1
<1>3. \A u \in ts : Pg!Rank(ts, d, u) \in places /\ Pg!Rank(ts, d, u) \in Int /\ Pg!Rank(ts, d, u) <= Cardinality(ts) - 1
  <2>1. \A u \in ts : Pg!Rank(ts, d, u) \in 0 .. Cardinality(ts) - 1
    BY RankFacts
  <2> QED
    BY <1>1, <2>1
<1>4. f \in Injection(ts, places)
  BY <1>3, RankFacts DEF Injection, IsInjective
<1>5. f \in Surjection(ts, places)
  <2> HIDE DEF f, places
  <2> QED
    BY <1>2, <1>4, FS_Injection
<1>6. SUFFICES ASSUME Pg!Rank(ts, d, t) >= offset PROVE FALSE
  BY <1>3
<1>7. offset \in places
  BY <1>1, <1>3, <1>6
<1>8. PICK u \in ts : Pg!Rank(ts, d, u) = offset
  <2>1. \E u \in ts : f[u] = offset
    <3> HIDE DEF f, places
    <3> QED
      BY <1>5, <1>7 DEF Surjection
  <2> QED
    BY <2>1
<1>9. offset \in offset .. offset + limit - 1
  OBVIOUS
<1>10. u \in Pg!Page(ts, d, limit, offset)
  BY <1>8, <1>9 DEF Pg!Page
<1> QED
  BY <1>10

\* Rows that are added do not move a row forward.
LEMMA RankGrows ==
  ASSUME NEW ts, NEW us, IsFiniteSet(us), ts \subseteq us, NEW d, NEW t
  PROVE  Pg!Rank(ts, d, t) \in Nat /\ Pg!Rank(us, d, t) \in Nat /\ Pg!Rank(ts, d, t) <= Pg!Rank(us, d, t)
<1>1. Preceding(ts, d, t) \in SUBSET Preceding(us, d, t) /\ Preceding(us, d, t) \in SUBSET us
  BY DEF Preceding
<1>2. IsFiniteSet(Preceding(us, d, t))
  BY <1>1, FS_Subset
<1>3. IsFiniteSet(Preceding(ts, d, t)) /\ Cardinality(Preceding(ts, d, t)) <= Cardinality(Preceding(us, d, t))
  BY <1>1, <1>2, FS_Subset
<1> QED
  BY <1>2, <1>3, RankIsCount, FS_CardinalityType

----------------------------------------------------------------------------
Reading == [at : {"reading", "done"}, filter : {"any", "Blocked"}, descending : BOOLEAN, limit : Nat \ {0},
            offset : Nat, seen : SUBSET Times, due : SUBSET Times]

Rows == Pg!Matching(pager.filter)

\* What was there at the start and has not been read is at or behind the offset.
Ahead ==
  \A t \in pager.due : t \in pager.seen \/ (t \in Rows /\ Pg!Rank(Rows, pager.descending, t) >= pager.offset)

PageInv ==
  /\ DOMAIN logRows \subseteq Times /\ IsFiniteSet(DOMAIN logRows)
  /\ pager = Pg!Idle \/ pager \in Reading
  /\ pager.at = "reading" => Ahead
  /\ pager.at = "done" => pager.due \subseteq pager.seen

LEMMA RowsFinite ==
  ASSUME PagesOK, PageInv, NEW filter
  PROVE  IsFiniteSet(Pg!Matching(filter)) /\ Pg!Matching(filter) \subseteq Int /\ Pg!Matching(filter) \subseteq Times
<1>1. Pg!Matching(filter) \in SUBSET DOMAIN logRows
  BY DEF Pg!Matching
<1> QED
  BY <1>1, FS_Subset DEF PageInv, PagesOK

LEMMA NextPageStep ==
  ASSUME PagesOK, PageInv, Pg!NextPage
  PROVE  PageInv'
<1> DEFINE page == Pg!Page(Rows, pager.descending, pager.limit, pager.offset)
<1>1. pager.at = "reading" /\ UNCHANGED logRows
      /\ pager' = [pager EXCEPT !.offset = @ + Pg!Cardinality(page), !.seen = @ \cup page,
                                !.at = IF page = {} THEN "done" ELSE @]
  BY DEF Pg!NextPage, Pg!logVars, Rows
<1>2. pager \in Reading /\ Ahead
  BY <1>1 DEF PageInv, Pg!Idle
<1>3. /\ pager.descending \in BOOLEAN /\ pager.limit \in Nat \ {0} /\ pager.offset \in Nat
      /\ pager.seen \subseteq Times /\ pager.due \subseteq Times
  BY <1>2 DEF Reading
<1>4. IsFiniteSet(Rows) /\ Rows \subseteq Int /\ Rows \subseteq Times
  BY RowsFinite DEF Rows
<1>5. Pg!Cardinality(page) \in Nat /\ Pg!Cardinality(page) <= pager.limit
  BY <1>3, <1>4, PageSize
<1>6. page \subseteq Rows
  BY DEF Pg!Page
<1>7. page = {} => \A t \in Rows : Pg!Rank(Rows, pager.descending, t) < pager.offset
  BY <1>3, <1>4, PageEmpty
<1>8. \A t \in Rows : Pg!Rank(Rows, pager.descending, t) \in Nat
                      /\ (t \in page <=> Pg!Rank(Rows, pager.descending, t) \in pager.offset .. pager.offset + pager.limit - 1)
  <2>1. \A t \in Rows : Pg!Rank(Rows, pager.descending, t) \in Nat
    BY <1>4, RankGrows
  <2> QED
    BY <2>1 DEF Pg!Page
<1> HIDE DEF page
<1>9. /\ pager' \in Reading /\ pager'.due = pager.due /\ pager'.seen = pager.seen \cup page /\ pager'.filter = pager.filter
      /\ pager'.descending = pager.descending /\ pager'.offset = pager.offset + Pg!Cardinality(page)
      /\ pager'.at = IF page = {} THEN "done" ELSE "reading"
  <2>0. pager.offset + Pg!Cardinality(page) \in Nat
    BY <1>3, <1>5
  <2>1. pager.seen \cup page \in SUBSET Times
    BY <1>3, <1>4, <1>6
  <2> DEFINE sum == pager.offset + Pg!Cardinality(page)
             read == pager.seen \cup page
             place == IF page = {} THEN "done" ELSE "reading"
  <2>2. sum \in Nat /\ read \in SUBSET Times /\ place \in {"reading", "done"}
    BY <2>0, <2>1
  <2>3. pager' = [pager EXCEPT !.offset = sum, !.seen = read, !.at = place]
    BY <1>1
  <2> HIDE DEF sum, read, place
  <2>4. /\ pager' \in Reading /\ pager'.due = pager.due /\ pager'.seen = read /\ pager'.filter = pager.filter
        /\ pager'.descending = pager.descending /\ pager'.offset = sum /\ pager'.at = place
    BY <1>2, <2>2, <2>3 DEF Reading
  <2> QED
    BY <2>4 DEF sum, read, place
<1>10. Rows' = Rows
  BY <1>1, <1>9 DEF Rows, Pg!Matching
<1>11. ASSUME NEW t \in pager.due, t \notin pager.seen, t \notin page
       PROVE  t \in Rows /\ Pg!Rank(Rows, pager.descending, t) >= pager.offset + Pg!Cardinality(page)
  <2>1. t \in Rows /\ Pg!Rank(Rows, pager.descending, t) \in Nat /\ Pg!Rank(Rows, pager.descending, t) >= pager.offset
    BY <1>2, <1>8, <1>11 DEF Ahead
  <2>2. Pg!Rank(Rows, pager.descending, t) >= pager.offset + pager.limit
    BY <1>3, <1>8, <1>11, <2>1
  <2> QED
    BY <1>3, <1>5, <2>1, <2>2
<1>12. Ahead'
  BY <1>9, <1>10, <1>11 DEF Ahead
<1>13. page = {} => pager.due \subseteq pager.seen
  <2>1. ASSUME page = {}, NEW t \in pager.due, t \notin pager.seen PROVE FALSE
    <3>1. t \in Rows /\ Pg!Rank(Rows, pager.descending, t) >= pager.offset
      BY <1>2, <2>1 DEF Ahead
    <3>2. Pg!Rank(Rows, pager.descending, t) < pager.offset /\ Pg!Rank(Rows, pager.descending, t) \in Nat
      BY <1>7, <1>8, <2>1, <3>1
    <3> QED
      BY <1>3, <3>1, <3>2
  <2> QED
    BY <2>1
<1> QED
  BY <1>1, <1>9, <1>12, <1>13 DEF PageInv

LEMMA StartPagingStep ==
  ASSUME PagesOK, PageInv, NEW filtered \in BOOLEAN, NEW descending \in BOOLEAN, NEW filter \in {"any", "Blocked"},
         NEW n \in PageSizes, Pg!StartPaging(filtered, filter, descending, n)
  PROVE  PageInv'
<1> DEFINE size == IF filtered THEN Pg!FilterLimit(n) ELSE Pg!ClampLimit(n)
<1>1. UNCHANGED logRows
      /\ pager' = [at |-> "reading", filter |-> filter, descending |-> descending, limit |-> size,
                   offset |-> 0, seen |-> {}, due |-> Pg!Matching(filter)]
  BY DEF Pg!StartPaging, Pg!logVars
<1>2. size \in Nat \ {0}
  BY DEF PagesOK, Pg!FilterLimit, Pg!ClampLimit
<1> HIDE DEF size
<1>3. Pg!Matching(filter) \subseteq Times /\ \A t : Pg!Rank(Pg!Matching(filter), descending, t) \in Nat
  BY RowsFinite, RankGrows
<1>4. pager' \in Reading /\ pager'.due = Pg!Matching(filter) /\ pager'.offset = 0 /\ pager'.filter = filter
      /\ pager'.descending = descending /\ pager'.at = "reading"
  BY <1>1, <1>2, <1>3 DEF Reading
<1>5. Rows' = Pg!Matching(filter)
  BY <1>1, <1>4 DEF Rows, Pg!Matching
<1>6. Ahead'
  <2>1. \A k \in Nat : k >= 0
    OBVIOUS
  <2>2. \A t \in Pg!Matching(filter) : Pg!Rank(Pg!Matching(filter), descending, t) >= 0
    BY Zenon, <1>3, <2>1
  <2> QED
    BY <1>4, <1>5, <2>2 DEF Ahead
<1> QED
  BY <1>1, <1>4, <1>6 DEF PageInv

LEMMA NewRowStep ==
  ASSUME PagesOK, PageInv, NEW c \in Callers, NEW t \in Times, NEW status \in Statuses, Pg!AddRow(c, t, status)
  PROVE  PageInv'
<1>1. logRows' = Pg!With(logRows, t, status) /\ t \notin DOMAIN logRows /\ pager' = pager
  BY DEF Pg!AddRow
<1>2. DOMAIN logRows' = DOMAIN logRows \cup {t} /\ \A u \in DOMAIN logRows : logRows'[u] = logRows[u]
  BY <1>1 DEF Pg!With
<1>3. DOMAIN logRows' \subseteq Times /\ IsFiniteSet(DOMAIN logRows')
  BY <1>2, FS_AddElement DEF PageInv
<1>4. Rows \subseteq Rows' /\ Rows' \in SUBSET DOMAIN logRows'
  BY <1>1, <1>2 DEF Rows, Pg!Matching
<1>5. IsFiniteSet(Rows')
  BY <1>3, <1>4, FS_Subset
<1>6. \A u : Pg!Rank(Rows, pager.descending, u) \in Nat /\ Pg!Rank(Rows', pager.descending, u) \in Nat
             /\ Pg!Rank(Rows, pager.descending, u) <= Pg!Rank(Rows', pager.descending, u)
  BY <1>4, <1>5, RankGrows
<1>7. pager.at = "reading" => Ahead'
  <2> SUFFICES ASSUME pager.at = "reading" PROVE Ahead'
    OBVIOUS
  <2>1. Ahead /\ pager.offset \in Nat
    BY DEF PageInv, Pg!Idle, Reading
  <2>2. \A u \in pager.due : u \in pager.seen \/ (u \in Rows' /\ Pg!Rank(Rows', pager.descending, u) >= pager.offset)
    <3>1. \A u \in pager.due : u \in pager.seen \/ (u \in Rows /\ Pg!Rank(Rows, pager.descending, u) >= pager.offset)
      BY Zenon, <2>1 DEF Ahead
    <3>2. ASSUME NEW m \in Nat, NEW n \in Nat, NEW o \in Nat, m <= n, m >= o PROVE n >= o
      BY <3>2
    <3>3. \A u : Pg!Rank(Rows, pager.descending, u) >= pager.offset => Pg!Rank(Rows', pager.descending, u) >= pager.offset
      BY Zenon, <1>6, <2>1, <3>2
    <3> QED
      BY Zenon, <1>4, <3>1, <3>3
  <2> QED
    BY <1>1, <2>2 DEF Ahead
<1> QED
  BY <1>1, <1>3, <1>7 DEF PageInv

LEMMA PageStep ==
  ASSUME PagesOK, PageInv, [Pg!Next]_(Pg!vars)
  PROVE  PageInv'
<1>1. CASE UNCHANGED <<logRows, pager>>
  BY <1>1 DEF PageInv, Ahead, Rows, Pg!Matching
<1>2. CASE Pg!Ends \/ Pg!EndPaging
  <2>1. pager' = Pg!Idle /\ logRows' = logRows
    BY <1>2 DEF Pg!Ends, Pg!EndPaging, Pg!serverVars, Pg!logVars
  <2> QED
    BY <2>1 DEF PageInv, Pg!Idle
<1>3. CASE Pg!NextPage
  BY <1>3, NextPageStep
<1>4. CASE \E filtered, descending \in BOOLEAN, filter \in {"any", "Blocked"}, n \in PageSizes :
             Pg!StartPaging(filtered, filter, descending, n)
  BY <1>4, StartPagingStep
<1>5. ASSUME NEW c \in Callers,
             \/ \E t \in Times, status \in Statuses : Pg!AddRow(c, t, status)
             \/ Pg!AddTotal(c) \/ Pg!AddPart(c) \/ Pg!AddFails(c)
      PROVE  PageInv'
  <2>1. CASE \E t \in Times, status \in Statuses : Pg!AddRow(c, t, status)
    BY <2>1, NewRowStep
  <2>2. CASE Pg!AddTotal(c) \/ Pg!AddPart(c) \/ Pg!AddFails(c)
    BY <1>1, <2>2, Zenon DEF Pg!AddTotal, Pg!AddPart, Pg!AddFails
  <2> QED
    BY <1>5, <2>1, <2>2
<1>6. CASE Pg!NewPostgresStore \/ Pg!Migrate
  BY <1>1, <1>6, Zenon DEF Pg!NewPostgresStore, Pg!Migrate, Pg!logVars
<1>7. CASE \E n \in Names, e \in Emails : Pg!CreateUser(n, e)
  BY <1>1, <1>7, Zenon DEF Pg!CreateUser, Pg!logVars
<1>8. ASSUME NEW i \in DOMAIN userRows,
             \/ \E e \in Emails, on \in BOOLEAN : Pg!UpdateUser(i, e, on)
             \/ Pg!DeleteUser(i) \/ Pg!DeleteUserSessions(i) \/ Pg!AddAuditLog(i)
      PROVE  PageInv'
  BY <1>1, <1>8, Zenon DEF Pg!UpdateUser, Pg!DeleteUser, Pg!DeleteUserSessions, Pg!AddAuditLog, Pg!logVars
<1>9. CASE \/ \E s \in SessionIds, i \in 1 .. MaxUsers : Pg!CreateSession(s, i)
           \/ \E s \in DOMAIN sessionRows : Pg!DeleteSession(s)
  BY <1>1, <1>9, Zenon DEF Pg!CreateSession, Pg!DeleteSession, Pg!logVars
<1>10. CASE \E r \in RuleIds : Pg!DeleteRule(r) \/ \E on \in BOOLEAN : Pg!CreateRule(r, on) \/ Pg!UpdateRule(r, on)
  BY <1>1, <1>10, Zenon DEF Pg!DeleteRule, Pg!CreateRule, Pg!UpdateRule, Pg!logVars
<1>11. CASE UNCHANGED Pg!vars
  BY <1>1, <1>11, Zenon DEF Pg!vars, Pg!logVars
<1> QED
  BY <1>2, <1>3, <1>4, <1>5, <1>6, <1>7, <1>8, <1>9, <1>10, <1>11, Zenon DEF Pg!Next

\* GetLogs and GetLogsFiltered, for any number of rows and any page size: a client that reads
\* page after page until an empty one has seen every matching row that was there when it
\* started, newest or oldest first, whatever is added meanwhile.
THEOREM PagesCorrect ==
  ASSUME PagesOK
  PROVE  Pg!Spec => []Pg!PagesComplete
<1>1. Pg!Init => PageInv
  BY FS_EmptySet DEF Pg!Init, PageInv, Pg!Idle
<1>2. PageInv => Pg!PagesComplete
  BY DEF PageInv, Pg!PagesComplete
<1> QED
  BY <1>1, <1>2, PageStep, PTL DEF Pg!Spec
============================================================================
