---------------------------- MODULE ThreatIntel ----------------------------
(***************************************************************************)
(* The threat intelligence manager (internal/app/threat/threat.go): the    *)
(* blocklist and the address ranges, their refresh from feeds that may     *)
(* fail or break off, blocks by an administrator, and the file they are    *)
(* kept in, which is written by the refresher and by Stop, with a crash    *)
(* and a restart at any point.                                             *)
(*                                                                         *)
(* An entry of a feed is an address or a range; risk levels, categories,   *)
(* hit counts and dates are left out.                                      *)
(***************************************************************************)
EXTENDS Integers, Sequences, FiniteSets

CONSTANTS
  IPs, Ranges,  \* addresses, and ranges in CIDR notation
  Covers,     \* the addresses of each range
  Feeds,        \* the enabled feeds with a URL, each a sequence of entries
  None, Torn    \* no file; a file that does not parse

VARIABLES
  blockedIPs, cidrBlocks,
  refresh,   \* the background goroutine: feeds left to fetch
  done,      \* Stop was called
  saver,     \* the calls of saveToDisk: by the refresher and by Stop
  file, tmp, \* persistPath and persistPath.tmp
  custom,    \* history: addresses blocked by an administrator
  atStop,    \* history: custom when Stop was called
  overlap,   \* history: two saves were in progress at once
  failed     \* history: a fetch of the last refresh failed or broke off

vars == <<blockedIPs, cidrBlocks, refresh, done, saver, file, tmp, custom, atStop, overlap, failed>>
memory == <<blockedIPs, cidrBlocks>>
hist == <<custom, atStop, overlap, failed>>

SaveCallers == {"refresher", "stop"}
NotSaving == [at |-> "idle", data |-> {}, fd |-> "none"]
Start == [at |-> "feeds", left |-> Feeds]

Init ==
  /\ blockedIPs = {} /\ cidrBlocks = <<>>
  /\ refresh = [at |-> "wait", left |-> <<>>] /\ done = FALSE
  /\ saver = [s \in SaveCallers |-> NotSaving] /\ file = None /\ tmp = None
  /\ custom = {} /\ atStop = {} /\ overlap = FALSE /\ failed = TRUE

----------------------------------------------------------------------------
\* saveToDisk copies the blocklist, writes it to the temporary file and renames that.
Saving(s) == saver[s].at # "idle"

BeginSave(s) ==
  /\ saver' = [saver EXCEPT ![s] = [at |-> "open", data |-> blockedIPs, fd |-> "none"]]
  /\ overlap' = (overlap \/ \E t \in SaveCallers \ {s} : Saving(t))

Target == "tmp"

\* os.WriteFile opens the file and truncates it, ...
Open(s) ==
  /\ saver[s].at = "open"
  /\ saver' = [saver EXCEPT ![s].at = "write", ![s].fd = Target]
  /\ IF Target = "tmp" THEN tmp' = Torn /\ UNCHANGED file ELSE file' = Torn /\ UNCHANGED tmp
  /\ UNCHANGED <<memory, refresh, done, hist>>

\* ... and writes it, wherever it has been renamed to by then.
Write(s) ==
  /\ saver[s].at = "write"
  /\ saver' = [saver EXCEPT ![s].at = "rename"]
  /\ tmp' = IF saver[s].fd = "tmp" THEN saver[s].data ELSE tmp
  /\ file' = IF saver[s].fd = "file" THEN saver[s].data ELSE file
  /\ UNCHANGED <<memory, refresh, done, hist>>

FailWrite(s) ==
  /\ saver[s].at \in {"open", "write"}
  /\ saver' = [saver EXCEPT ![s] = NotSaving]
  /\ atStop' = IF s = "stop" THEN {} ELSE atStop
  /\ UNCHANGED <<memory, refresh, done, file, tmp, custom, overlap, failed>>

\* The rename moves the file under the feet of another writer; without a temporary
\* file it fails.
Rename(s) ==
  /\ saver[s].at = "rename"
  /\ IF tmp = None THEN UNCHANGED <<file, tmp>> ELSE file' = tmp /\ tmp' = None
  /\ saver' = [t \in SaveCallers |->
       IF t = s THEN NotSaving
       ELSE IF tmp = None THEN saver[t]
       ELSE [saver[t] EXCEPT !.fd = CASE @ = "tmp" -> "file" [] @ = "file" -> "gone" [] OTHER -> @]]
  /\ UNCHANGED <<memory, refresh, done, hist>>

----------------------------------------------------------------------------
ClearRanges == cidrBlocks' = <<>>

\* RefreshFeeds, at the start of the goroutine and whenever the ticker fires.
BeginRefresh ==
  /\ refresh.at = "wait"
  /\ refresh' = Start
  /\ ClearRanges
  /\ failed' = FALSE
  /\ UNCHANGED <<blockedIPs, done, saver, file, tmp, custom, atStop, overlap>>

Named(entries) == {entries[i] : i \in DOMAIN entries}

\* Mutant: a refresh forgets what the feeds do not name.
MergeReplacing(entries) == Named(entries)
\* What the feed names joins the blocklist, the ranges also the ranges.
Merge(entries) == blockedIPs \cup Named(entries)

\* parseEntry appends the ranges.
RangesIn(entries) == SelectSeq(entries, LAMBDA e : e \in Ranges)

\* fetchFeed and parseFeed: nothing is read, or the feed, or its lines up to an error.
FetchFeed ==
  /\ refresh.at = "feeds" /\ refresh.left # <<>>
  /\ \E n \in 0..Len(Head(refresh.left)) :
       LET entries == SubSeq(Head(refresh.left), 1, n)
       IN /\ blockedIPs' = IF n = 0 THEN blockedIPs ELSE Merge(entries)
          /\ cidrBlocks' = cidrBlocks \o RangesIn(entries)
          /\ failed' = (failed \/ n < Len(Head(refresh.left)))
  /\ refresh' = [refresh EXCEPT !.left = Tail(@)]
  /\ UNCHANGED <<done, saver, file, tmp, custom, atStop, overlap>>

SaveRefresh ==
  /\ refresh.at = "feeds" /\ refresh.left = <<>> /\ ~Saving("refresher")
  /\ refresh' = [refresh EXCEPT !.at = "save"]
  /\ BeginSave("refresher")
  /\ UNCHANGED <<memory, done, file, tmp, custom, atStop, failed>>

EndRefresh ==
  /\ refresh.at = "save" /\ ~Saving("refresher")
  /\ refresh' = [refresh EXCEPT !.at = IF done THEN "end" ELSE "wait"]
  /\ UNCHANGED <<memory, done, saver, file, tmp, hist>>

----------------------------------------------------------------------------
BlockIP(ip) ==
  /\ blockedIPs' = blockedIPs \cup {ip}
  /\ custom' = custom \cup {ip}
  /\ UNCHANGED <<cidrBlocks, refresh, done, saver, file, tmp, atStop, overlap, failed>>

UnblockIP(ip) ==
  /\ ip \in blockedIPs
  /\ blockedIPs' = blockedIPs \ {ip}
  /\ custom' = custom \ {ip} /\ atStop' = atStop \ {ip}
  /\ UNCHANGED <<cidrBlocks, refresh, done, saver, file, tmp, overlap, failed>>

StopSaves == BeginSave("stop")

\* Stop closes the channel; the goroutine may be in the middle of a refresh.
Stop ==
  /\ ~done
  /\ done' = TRUE
  /\ atStop' = custom
  /\ StopSaves
  /\ UNCHANGED <<memory, refresh, file, tmp, custom, failed>>

\* loadFromDisk: a file that is missing or does not parse leaves the list empty.
Loaded == IF file \in {None, Torn} THEN {} ELSE file

\* The program ends, in order or not, and is started again.
Restart ==
  /\ blockedIPs' = Loaded /\ cidrBlocks' = <<>>
  /\ refresh' = [at |-> "wait", left |-> <<>>] /\ done' = FALSE
  /\ saver' = [s \in SaveCallers |-> NotSaving]
  /\ custom' = custom \cap Loaded /\ atStop' = {} /\ failed' = TRUE
  /\ UNCHANGED <<file, tmp, overlap>>

Next ==
  \/ BeginRefresh \/ FetchFeed \/ SaveRefresh \/ EndRefresh \/ Stop \/ Restart
  \/ \E s \in SaveCallers : Open(s) \/ Write(s) \/ FailWrite(s) \/ Rename(s)
  \/ \E ip \in IPs : BlockIP(ip) \/ UnblockIP(ip)

Spec == Init /\ [][Next]_vars

\* CheckIP: the address is listed, or lies in a range.
CheckIP(ip) == ip \in blockedIPs \/ \E i \in DOMAIN cidrBlocks : ip \in Covers[cidrBlocks[i]]

----------------------------------------------------------------------------
Contents == {None, Torn} \cup SUBSET (IPs \cup Ranges)
AllEntries ==
  LET upTo[n \in 0 .. Len(Feeds)] == IF n = 0 THEN <<>> ELSE upTo[n - 1] \o Feeds[n]
  IN upTo[Len(Feeds)]
AllRanges == RangesIn(AllEntries)

\* Type invariant; the ranges never outgrow the feeds.
TypeOK ==
  /\ blockedIPs \subseteq IPs \cup Ranges
  /\ cidrBlocks \in Seq(Ranges) /\ Len(cidrBlocks) <= Len(AllRanges)
  /\ refresh.at \in {"wait", "feeds", "save", "end"} /\ done \in BOOLEAN
  /\ file \in Contents /\ tmp \in Contents

\* Unless two saves overlapped since the start, the file on disk can be parsed, so
\* that a crash at any point of a save leaves the old or the new blocklist.
FileWhole == ~overlap => file # Torn

\* When the save of Stop is over, what administrators had blocked by then is on
\* disk (no save overlapped and none failed).
StopPersists ==
  done /\ ~Saving("stop") /\ ~overlap => atStop \subseteq Loaded

\* An address that an administrator blocked is found by CheckIP whatever the
\* refreshes do.
CustomBlocked == \A ip \in custom : CheckIP(ip)

\* After a refresh in which no feed failed, CheckIP finds every address of every
\* range of the feeds.
RangesComplete ==
  refresh.at \in {"save", "end"} /\ ~failed
    => \A i \in DOMAIN AllRanges : \A ip \in Covers[AllRanges[i]] : CheckIP(ip)
=============================================================================
