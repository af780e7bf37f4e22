------------------------------ MODULE IpAllow ------------------------------
(***************************************************************************)
(* The IP allowlist (internal/app/ipallow/ipallow.go) behind its handlers  *)
(* and middleware in cmd/obsidian/main.go: a map of entries, the list of   *)
(* the ranges among them, and a store that is written after the memory is  *)
(* changed, with the change rolled back when the store fails.              *)
(*                                                                         *)
(* Entries are numbered in the order of their creation.  Addresses and     *)
(* ranges are already in the normal form AddIP and AddCIDR give them.      *)
(***************************************************************************)
EXTENDS Integers, Sequences

CONSTANTS
  IPs, Ranges, Covers, \* addresses, ranges and the addresses of each range
  Loopback,            \* the loopback addresses
  AllowLocalhost,      \* config.AllowLocalhost
  MaxEntries           \* bound: entries ever created

VARIABLES
  enabled,   \* config.Enabled
  entries,   \* from address or range to the number of its entry
  cidrs,     \* the entries of ranges, in the order they were added
  keyOf,     \* the address or range of each entry ever created
  off,       \* entries that are switched off
  store,     \* entries in the store
  saving,    \* entries whose SaveEntry has not returned
  raced,     \* history: an operation met an entry that was being saved
  unsaved,   \* history: the store failed to follow a change of the memory
  missed     \* history: a removal that named a listed address left it there

vars == <<enabled, entries, cidrs, keyOf, off, store, saving, raced, unsaved, missed>>

Keys == IPs \cup Ranges
Enforced == {cidrs[i] : i \in DOMAIN cidrs}
Listed == {entries[k] : k \in DOMAIN entries}
Without(f, k) == [x \in DOMAIN f \ {k} |-> f[x]]
With(f, k, v) == [x \in DOMAIN f \cup {k} |-> IF x = k THEN v ELSE f[x]]

Init ==
  /\ enabled \in BOOLEAN /\ entries = <<>> /\ cidrs = <<>> /\ keyOf = <<>>
  /\ off = {} /\ store = {} /\ saving = {} /\ raced = FALSE /\ unsaved = FALSE /\ missed = FALSE

ListRange(k, id) == IF k \in Ranges THEN Append(cidrs, id) ELSE cidrs

\* AddIP and AddCIDR, first part: check and insert under one lock.
Add(k) ==
  /\ Len(keyOf) < MaxEntries
  /\ k \notin DOMAIN entries
  /\ LET id == Len(keyOf) + 1
     IN /\ keyOf' = Append(keyOf, k)
        /\ entries' = With(entries, k, id)
        /\ cidrs' = ListRange(k, id)
        /\ saving' = saving \cup {id}
  /\ UNCHANGED <<enabled, off, store, raced, unsaved, missed>>

\* The entry is in the store.
SaveEntry(id) ==
  /\ id \in saving
  /\ saving' = saving \ {id}
  /\ store' = store \cup {id}
  /\ raced' = (raced \/ id \notin Listed)
  /\ UNCHANGED <<enabled, entries, cidrs, keyOf, off, unsaved, missed>>

\* The last range is taken off the list, whichever it is.
RollbackRanges(id) ==
  cidrs' = IF keyOf[id] \in Ranges /\ cidrs # <<>> THEN SubSeq(cidrs, 1, Len(cidrs) - 1) ELSE cidrs

\* The store failed: the address is taken out of the map again.
FailSave(id) ==
  /\ id \in saving
  /\ saving' = saving \ {id}
  /\ entries' = Without(entries, keyOf[id])
  /\ RollbackRanges(id)
  /\ raced' = (raced \/ id \notin Listed
                     \/ (keyOf[id] \in Ranges /\ (cidrs = <<>> \/ cidrs[Len(cidrs)] # id)))
  /\ UNCHANGED <<enabled, keyOf, off, store, unsaved, missed>>

DropRange(id) == cidrs' = SelectSeq(cidrs, LAMBDA e : e # id)

DeleteFromStore(id) == store \ {id}

\* RemoveEntry finds an entry by its number; the argument may also be an address.
RemoveEntry(arg) ==
  /\ IF arg \notin Listed
     THEN UNCHANGED <<entries, cidrs, store, raced, unsaved>>
     ELSE /\ entries' = Without(entries, keyOf[arg])
          /\ IF keyOf[arg] \in Ranges THEN DropRange(arg) ELSE UNCHANGED cidrs
          /\ \/ store' = DeleteFromStore(arg) /\ UNCHANGED unsaved
             \/ unsaved' = TRUE /\ UNCHANGED store
          /\ raced' = (raced \/ arg \in saving)
  /\ missed' = (missed \/ (arg \in DOMAIN entries /\ arg \in DOMAIN entries'))
  /\ UNCHANGED <<enabled, keyOf, off, saving>>

\* SetEnabled writes the whole entry to the store.
SetEnabled(id, on) ==
  /\ id \in Listed
  /\ off' = IF on THEN off \ {id} ELSE off \cup {id}
  /\ \/ store' = store \cup {id} /\ UNCHANGED unsaved
     \/ unsaved' = TRUE /\ UNCHANGED store
  /\ raced' = (raced \/ id \in saving)
  /\ UNCHANGED <<enabled, entries, cidrs, keyOf, saving, missed>>

SetConfig ==
  /\ enabled' = ~enabled
  /\ UNCHANGED <<entries, cidrs, keyOf, off, store, saving, raced, unsaved, missed>>

EntryIds == 1..MaxEntries
Absent == 0

\* The handlers: a range goes before an address, a number before an address.
HandleAdd(ip, cidr) == IF cidr # Absent THEN Add(cidr) ELSE ip # Absent /\ Add(ip)
HandleRemove(id, key) == (id # Absent \/ key # Absent) /\ RemoveEntry(IF id # Absent THEN id ELSE key)

Next ==
  \/ \E ip \in IPs \cup {Absent}, cidr \in Ranges \cup {Absent} : HandleAdd(ip, cidr)
  \/ \E id \in saving : SaveEntry(id) \/ FailSave(id)
  \/ \E id \in EntryIds \cup {Absent}, key \in Keys \cup {Absent} : HandleRemove(id, key)
  \/ \E id \in EntryIds, on \in BOOLEAN : SetEnabled(id, on)
  \/ SetConfig

Spec == Init /\ [][Next]_vars

----------------------------------------------------------------------------
SwitchedOn(id) == id \notin off

\* IsAllowed: loopback, the map, then the ranges in order.
IsAllowed(ip) ==
  \/ ~enabled
  \/ AllowLocalhost /\ ip \in Loopback
  \/ ip \in DOMAIN entries /\ SwitchedOn(entries[ip])
  \/ \E i \in DOMAIN cidrs : SwitchedOn(cidrs[i]) /\ ip \in Covers[keyOf[cidrs[i]]]

\* ipAllowlistMiddleware: which requests reach the handler behind it.
Serves(admin, ip, bypass) == enabled /\ admin => IsAllowed(ip) \/ bypass

\* What the allowlist as administrators see it (ListEntries) allows.
ListAllows(ip) ==
  \E k \in DOMAIN entries : entries[k] \notin off /\ (k = ip \/ (k \in Ranges /\ ip \in Covers[k]))

\* Type invariant: every entry in use is known under its own address.
TypeOK ==
  /\ enabled \in BOOLEAN /\ DOMAIN entries \subseteq Keys /\ Len(keyOf) <= MaxEntries
  /\ \A k \in DOMAIN entries : keyOf[entries[k]] = k
  /\ Enforced \cup off \cup store \cup saving \subseteq DOMAIN keyOf
  /\ \A i \in DOMAIN cidrs : keyOf[cidrs[i]] \in Ranges

\* While the list is enforced, a request for an admin endpoint without the bypass
\* secret is served exactly if it comes from a loopback address or an enabled
\* entry of the list as shown to administrators covers its address, unless an
\* operation interfered with one that was still being saved.
AllowedIffListed ==
  enabled /\ ~raced => \A ip \in IPs :
    Serves(TRUE, ip, FALSE) <=> (AllowLocalhost /\ ip \in Loopback) \/ ListAllows(ip)

\* "Persist (rollback memory on failure)" (ipallow.go:194), which the code does not keep: a
\* failed save undoes exactly what its own Add did, so that afterwards the ranges that are
\* enforced are those of the list.
RollbackIsOwn == Enforced = {entries[k] : k \in DOMAIN entries \cap Ranges}

\* When no save is under way and none failed to follow or raced, the store holds
\* the entries of the list.
StoreFollows == saving = {} /\ ~raced /\ ~unsaved => store = Listed

\* Claims of the comments that the code does not keep.

\* A removal that names the address of an entry removes the entry.
RemovesByAddress == ~missed
=============================================================================
