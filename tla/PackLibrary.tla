----------------------------- MODULE PackLibrary -----------------------------
(* The library of installed packs of the API: archives imported into the data *)
(* folder (routes/packs.ts), Steam Workshop items indexed in place            *)
(* (routes/workshop.ts), the index both write (pack-loader/src/db.ts), the    *)
(* scenarios offered from it (routes/scenarios.ts) and the sessions on them.  *)
(*                                                                            *)
(* The index, the Workshop tables and the folders are separate stores: a      *)
(* handler that fails or dies between two writes leaves them apart.           *)
EXTENDS Naturals, FiniteSets

CONSTANTS Packs, Items, Scens,
          Contents,     \* what a directory can hold: [id, ok, scens]
          MaxUpdates    \* bound: archives and item versions that come

Nothing == [none |-> TRUE]
Disk == "disk"

ASSUME LibraryAssumption ==
  /\ MaxUpdates \in Nat /\ Packs \cap Items = {} /\ Disk \notin Items
  /\ Contents \subseteq [id : Packs, ok : BOOLEAN, scens : SUBSET Scens]

VARIABLES disk,    \* the data folder: pack id -> content
          index,   \* installed_packs with indexed_scenarios
          items,   \* workshop_items
          quar,    \* workshop_quarantine
          steam,   \* external: what Steam has downloaded
          live,    \* the session of each scenario
          hist     \* history: updates, items a crash cut short, ids shared
vars == <<disk, index, items, quar, steam, live, hist>>

Init ==
  /\ disk = [p \in Packs |-> Nothing] /\ index = [p \in Packs |-> Nothing]
  /\ items = [i \in Items |-> Nothing] /\ quar = {}
  /\ steam = [i \in Items |-> Nothing]
  /\ live = [s \in Scens |-> "none"]
  /\ hist = [updates |-> 0, cut |-> {}, mixed |-> FALSE]

Entry(root, c) == [root |-> root, scens |-> c.scens]

\* The directory an index entry points at, and whether it loads.
RootOf(p) == IF index[p].root = Disk THEN disk[p] ELSE steam[index[p].root].content
Usable(p) == /\ index[p] # Nothing
             /\ index[p].root = Disk \/ steam[index[p].root] # Nothing
             /\ RootOf(p) # Nothing /\ RootOf(p).ok

\* Mutant: the indexed scenarios are offered without loading the pack.
OfferedByIndex(p) == IF index[p] = Nothing THEN {} ELSE index[p].scens

\* loadScenariosFromPackIndex: a pack that fails to load is skipped.
OfferedBy(p) == IF Usable(p) THEN RootOf(p).scens ELSE {}

Offered == UNION {OfferedBy(p) : p \in Packs}

\* Two directories hold one pack id, or one scenario id.
Mixed(d, s) ==
  \/ \E p \in Packs, i \in Items :
       d[p] # Nothing /\ s[i] # Nothing
         /\ (s[i].content.id = p \/ s[i].content.scens \cap d[p].scens # {})
  \/ \E i, j \in Items :
       /\ i # j /\ s[i] # Nothing /\ s[j] # Nothing
       /\ \/ s[i].content.id = s[j].content.id
          \/ s[i].content.scens \cap s[j].content.scens # {}
  \/ \E p, q \in Packs : p # q /\ d[p] # Nothing /\ d[q] # Nothing /\ d[p].scens \cap d[q].scens # {}

-----------------------------------------------------------------------------
(* Import of an archive *)

\* Mutant: the pack is indexed before its files are in place.
InstalledEarly(c, stage) ==
  /\ disk' = [disk EXCEPT ![c.id] = IF stage = "copy" THEN [c EXCEPT !.ok = FALSE] ELSE c]
  /\ index' = [index EXCEPT ![c.id] = Entry(Disk, c)]

\* The old directory goes, the new one is copied, loaded again and indexed; a
\* failure on the way leaves what had been done.
Installed(c, stage) ==
  /\ disk' = [disk EXCEPT ![c.id] = IF stage = "copy" THEN [c EXCEPT !.ok = FALSE] ELSE c]
  /\ index' = IF stage = "done" THEN [index EXCEPT ![c.id] = Entry(Disk, c)] ELSE index

\* POST import: an archive that does not load leaves nothing.
Import ==
  \E c \in Contents, stage \in {"copy", "index", "done"} :
    /\ hist.updates < MaxUpdates /\ c.ok
    /\ Installed(c, stage)
    /\ hist' = [hist EXCEPT !.updates = @ + 1,
                            !.cut = IF stage = "done" THEN @ \ {c.id}
                                    ELSE IF disk[c.id] = Nothing THEN @ ELSE @ \cup {c.id},
                            !.mixed = @ \/ Mixed(disk', steam)]
    /\ UNCHANGED <<items, quar, steam, live>>

-----------------------------------------------------------------------------
(* Workshop items *)

\* External: Steam downloads an item or an update of it.
SteamUpdate ==
  \E i \in Items, c \in Contents :
    /\ hist.updates < MaxUpdates
    /\ steam' = [steam EXCEPT ![i] = [content |-> c, at |-> hist.updates + 1]]
    /\ hist' = [hist EXCEPT !.updates = @ + 1,
                  !.mixed = @ \/ Mixed(disk, steam')
                              \/ (steam[i] # Nothing /\ steam[i].content.id # c.id)]
    /\ UNCHANGED <<disk, index, items, quar, live>>

\* The player's item is gone from Steam once its pack left the library.
SteamRemove ==
  \E i \in Items :
    /\ steam[i] # Nothing /\ items[i] = Nothing
    /\ \A p \in Packs : index[p] # Nothing => index[p].root # i
    /\ steam' = [steam EXCEPT ![i] = Nothing]
    /\ UNCHANGED <<disk, index, items, quar, live, hist>>

\* An item Steam has not downloaded is skipped, one at the version on record
\* is left alone unless Steam wants to update it.
Pending(i) == steam[i] # Nothing
Unchanged(i) == items[i] # Nothing /\ items[i].at = steam[i].at

\* How far the writes of one item got before the process died.  Only a sync of a
\* valid version mends what such an end left behind: to the quarantine an entry
\* that was indexed but not recorded is unknown.
Cut(i, stage) ==
  [hist EXCEPT !.cut = IF stage # "done" THEN @ \cup {i}
                       ELSE IF steam[i].content.ok THEN @ \ {i} ELSE @]

\* Mutant: the row of the quarantined item stays.
QuarantineKeepingRow(i, stage) ==
  /\ quar' = quar \cup {i}
  /\ index' = IF items[i] # Nothing /\ stage # "first"
              THEN [index EXCEPT ![items[i].pack] = Nothing] ELSE index
  /\ items' = items

\* Mutant: only the row is taken back.
QuarantineKeepingEntry(i, stage) ==
  /\ quar' = quar \cup {i}
  /\ index' = index
  /\ items' = IF stage = "done" THEN [items EXCEPT ![i] = Nothing] ELSE items

\* An invalid item is recorded; what an earlier version of it had registered is
\* taken back.
Quarantine(i, stage) ==
  /\ quar' = quar \cup {i}
  /\ index' = IF items[i] # Nothing /\ stage # "first"
              THEN [index EXCEPT ![items[i].pack] = Nothing] ELSE index
  /\ items' = IF stage = "done" THEN [items EXCEPT ![i] = Nothing] ELSE items

\* Mutant: the item is recorded before the pack is indexed.
RegisterRowFirst(i, stage) ==
  LET c == steam[i].content IN
  /\ items' = [items EXCEPT ![i] = [pack |-> c.id, at |-> steam[i].at]]
  /\ quar' = IF stage = "first" THEN quar ELSE quar \ {i}
  /\ index' = IF stage = "done" THEN [index EXCEPT ![c.id] = Entry(i, c)] ELSE index

\* A valid item is indexed in place, leaves the quarantine and is recorded.
Register(i, stage) ==
  LET c == steam[i].content IN
  /\ index' = [index EXCEPT ![c.id] = Entry(i, c)]
  /\ quar' = IF stage = "first" THEN quar ELSE quar \ {i}
  /\ items' = IF stage = "done"
              THEN [items EXCEPT ![i] = [pack |-> c.id, at |-> steam[i].at]] ELSE items

\* POST sync, one item of the list.
Sync ==
  \E i \in Items, needsUpdate \in BOOLEAN, stage \in {"first", "second", "done"} :
    /\ Pending(i) /\ (~Unchanged(i) \/ needsUpdate)
    /\ needsUpdate => Unchanged(i)     \* the flag makes no other difference
    /\ IF steam[i].content.ok THEN Register(i, stage) ELSE Quarantine(i, stage)
    /\ hist' = Cut(i, stage)
    /\ UNCHANGED <<disk, steam, live>>

\* Mutant: only a session under way counts as active.
ActiveRunning(s) == live[s] = "Running"

\* A session that has not reached Ended.
Active(s) == live[s] \in {"NotStarted", "Running"}

\* DELETE: refused while a session of an indexed scenario of the pack is active.
Unsubscribe ==
  \E p \in Packs, stage \in {"first", "done"} :
    /\ index[p] # Nothing \/ \E i \in Items : items[i] # Nothing /\ items[i].pack = p
    /\ index[p] # Nothing => \A s \in index[p].scens : ~Active(s)
    /\ LET mine == {i \in Items : items[i] # Nothing /\ items[i].pack = p} IN
       /\ items' = [i \in Items |-> IF i \in mine THEN Nothing ELSE items[i]]
       /\ index' = IF stage = "done" THEN [index EXCEPT ![p] = Nothing] ELSE index
       /\ IF mine = {} \/ stage # "done" THEN quar' = quar
          ELSE \E i \in mine : quar' = quar \ {i}
       /\ hist' = [hist EXCEPT !.cut = IF stage = "done" THEN @ ELSE @ \cup mine]
    /\ UNCHANGED <<disk, steam, live>>

-----------------------------------------------------------------------------
(* Sessions *)

\* Bound: one session in a behaviour.
CreateSession ==
  \E s \in Offered : /\ \A t \in Scens : live[t] = "none"
                     /\ live' = [live EXCEPT ![s] = "NotStarted"]
                     /\ UNCHANGED <<disk, index, items, quar, steam, hist>>
StartSession ==
  \E s \in Scens : /\ live[s] = "NotStarted"
                   /\ live' = [live EXCEPT ![s] = "Running"]
                   /\ UNCHANGED <<disk, index, items, quar, steam, hist>>
EndSession ==
  \E s \in Scens : /\ live[s] = "Running"
                   /\ live' = [live EXCEPT ![s] = "Ended"]
                   /\ UNCHANGED <<disk, index, items, quar, steam, hist>>

Next ==
  \/ Import \/ SteamUpdate \/ SteamRemove \/ Sync \/ Unsubscribe
  \/ CreateSession \/ StartSession \/ EndSession

Spec == Init /\ [][Next]_vars

-----------------------------------------------------------------------------
\* An item is never both quarantined and listed as a synced item, unless a crash
\* cut a sync of it short; the next sync of a valid version mends that.
QuarantinedIsOut == \A i \in quar \ hist.cut : items[i] = Nothing

\* What the next sync would skip as unchanged is in the index: a crash between
\* the stores never leaves an item that no sync brings to the library.  Not so
\* when two sources share one pack id, where either takes the other's entry.
ItemsIndexed ==
  ~hist.mixed => \A i \in Items :
    items[i] # Nothing /\ steam[i] # Nothing /\ Unchanged(i) => index[items[i].pack] # Nothing

\* No pack is listed from a Workshop folder whose item is not on record: what
\* was quarantined or unsubscribed has left the index.
WorkshopBacked ==
  ~hist.mixed =>
    \A p \in Packs : index[p] # Nothing /\ index[p].root \in Items \ hist.cut
      => items[index[p].root] # Nothing /\ items[index[p].root].pack = p

\* An imported pack that is indexed has its files whole: a first import that
\* fails lists nothing, only one over an older copy can leave it torn.
ImportedIsWhole ==
  \A p \in Packs \ hist.cut : index[p] # Nothing /\ index[p].root = Disk => Usable(p)

\* The library lists a scenario once, as long as no two sources share an id.
OfferedOnce ==
  ~hist.mixed => \A p, q \in Packs : p # q => OfferedBy(p) \cap OfferedBy(q) = {}

\* Index, records, folders and the list of scenarios agree, however many syncs,
\* imports and deaths came between their separate writes.
StoresAgree ==
  QuarantinedIsOut /\ ItemsIndexed /\ WorkshopBacked /\ ImportedIsWhole /\ OfferedOnce

\* A pack that loads never leaves the library under a session that has not
\* ended, as long as the index is up to date with its folder and no two sources
\* share an id.
UnsubscribeSpares ==
  [][\A p \in Packs :
       (/\ ~hist.mixed /\ index[p] # Nothing /\ index'[p] = Nothing
        /\ Usable(p) /\ index[p].scens = RootOf(p).scens)
       => \A s \in OfferedBy(p) : live[s] \notin {"NotStarted", "Running"}]_vars
=============================================================================
