-------------------------- MODULE PackLibraryProofs --------------------------
(* Proofs about the library of packs: what the four stores hold together      *)
(* after any number of imports, updates and syncs of any packs and items, cut *)
(* short at any write; and about the workbench: what it and the loader say of *)
(* a pack after any number of edits, imports and copies.                      *)
EXTENDS MCPacks, FiniteSetTheorems, TLAPS

Content == [id : Packs, ok : BOOLEAN, scens : SUBSET Scens]
Entries == [root : Items \cup {Disk}, scens : SUBSET Scens]
ItemRows == [pack : Packs, at : Nat]
Versions == [content : Content, at : Nat]

Histories == [updates : Nat, cut : SUBSET (Packs \cup Items), mixed : BOOLEAN]

Types ==
  /\ disk \in [Packs -> Content \cup {Nothing}]
  /\ index \in [Packs -> Entries \cup {Nothing}]
  /\ items \in [Items -> ItemRows \cup {Nothing}]
  /\ quar \subseteq Items
  /\ steam \in [Items -> Versions \cup {Nothing}]
  /\ live \in [Scens -> {"none", "NotStarted", "Running", "Ended"}]
  /\ hist \in Histories

\* What is registered or recorded is there.
Rooted ==
  \A p \in Packs : index[p] # Nothing =>
    IF index[p].root = Disk THEN disk[p] # Nothing ELSE steam[index[p].root] # Nothing
Foldered == \A p \in Packs : disk[p] # Nothing => disk[p].id = p

\* Versions are numbered in order, and an item on record at the version Steam
\* has was valid.
Recorded ==
  \A i \in Items :
    /\ steam[i] # Nothing => steam[i].at <= hist.updates
    /\ items[i] # Nothing => /\ steam[i] # Nothing /\ items[i].at <= steam[i].at
                             /\ items[i].at = steam[i].at => steam[i].content.ok

\* While no two sources share an id, entries and rows name the pack their folder holds.
Named ==
  ~hist.mixed =>
    /\ ~Mixed(disk, steam)
    /\ \A p \in Packs : index[p] # Nothing /\ index[p].root # Disk =>
         steam[index[p].root].content.id = p
    /\ \A i \in Items : items[i] # Nothing => items[i].pack = steam[i].content.id

Inv == Types /\ Rooted /\ Foldered /\ Recorded /\ Named

-----------------------------------------------------------------------------
\* The placeholder is none of the rows it stands in for.
LEMMA NothingElse ==
  /\ Nothing \notin Content /\ Nothing \notin Entries
  /\ Nothing \notin ItemRows /\ Nothing \notin Versions
<1> DEFINE D(r) == DOMAIN r
<1>1. D(Nothing) = {"none"}
  BY DEF Nothing
<1>2. \A r \in Content : "id" \in D(r)
  BY DEF Content
<1>3. \A r \in Entries : "root" \in D(r)
  BY DEF Entries
<1>4. \A r \in ItemRows : "pack" \in D(r)
  BY DEF ItemRows
<1>5. \A r \in Versions : "content" \in D(r)
  BY DEF Versions
<1> HIDE DEF D
<1>6. QED BY <1>1, <1>2, <1>3, <1>4, <1>5

LEMMA HistoryGrows ==
  ASSUME hist \in Histories, NEW c \in SUBSET (Packs \cup Items), NEW b \in BOOLEAN,
         hist' = [hist EXCEPT !.updates = @ + 1, !.cut = c, !.mixed = b]
  PROVE  /\ hist' \in Histories /\ hist'.updates = hist.updates + 1
         /\ hist'.cut = c /\ hist'.mixed = b
<1>1. hist.updates + 1 \in Nat
  BY DEF Histories
<1>2. QED BY <1>1 DEF Histories

LEMMA InvInit == Init => Inv
<1> SUFFICES ASSUME Init PROVE Inv
  OBVIOUS
<1>1. Types
  BY DEF Init, Types, Histories
<1>2. Rooted /\ Foldered /\ Recorded
  BY DEF Init, Rooted, Foldered, Recorded
<1>3. Named
  BY DEF Init, Named, Mixed
<1>4. QED BY <1>1, <1>2, <1>3 DEF Inv

LEMMA ImportKeeps == ASSUME Inv, Import PROVE Inv'
<1>1. PICK c \in Contents, stage \in {"copy", "index", "done"} :
        /\ hist.updates < MaxUpdates /\ c.ok /\ Installed(c, stage)
        /\ hist' = [hist EXCEPT !.updates = @ + 1,
                            !.cut = IF stage = "done" THEN @ \ {c.id}
                                    ELSE IF disk[c.id] = Nothing THEN @ ELSE @ \cup {c.id},
                            !.mixed = @ \/ Mixed(disk', steam)]
        /\ UNCHANGED <<items, quar, steam, live>>
  BY DEF Import
<1>2. c \in Content /\ c.id \in Packs
  BY LibraryAssumption DEF Content
<1>3. PICK d \in Content : d.id = c.id /\ disk' = [disk EXCEPT ![c.id] = d]
  <2>1. [c EXCEPT !.ok = FALSE] \in Content /\ [c EXCEPT !.ok = FALSE].id = c.id
    BY <1>2 DEF Content
  <2>2. QED BY <1>1, <1>2, <2>1 DEF Installed
<1>4. PICK e \in Entries : e.root = Disk /\ (index' = index \/ index' = [index EXCEPT ![c.id] = e])
  <2>1. Entry(Disk, c) \in Entries /\ Entry(Disk, c).root = Disk
    BY <1>2 DEF Entry, Entries, Content
  <2>2. QED BY <1>1, <2>1 DEF Installed
<1>5. /\ hist' \in Histories /\ hist'.updates = hist.updates + 1
      /\ hist'.mixed = (hist.mixed \/ Mixed(disk', steam))
  <2> DEFINE cs == IF stage = "done" THEN hist.cut \ {c.id}
                   ELSE IF disk[c.id] = Nothing THEN hist.cut ELSE hist.cut \cup {c.id}
             b == hist.mixed \/ Mixed(disk', steam)
  <2>1. cs \in SUBSET (Packs \cup Items) /\ b \in BOOLEAN
    BY <1>2 DEF Inv, Types, Histories
  <2>2. hist' = [hist EXCEPT !.updates = @ + 1, !.cut = cs, !.mixed = b]
    BY <1>1 DEF Inv, Types, Histories
  <2> HIDE DEF cs, b
  <2>3. hist' \in Histories /\ hist'.updates = hist.updates + 1 /\ hist'.mixed = b
    BY <2>1, <2>2, HistoryGrows DEF Inv, Types
  <2>4. QED BY <2>3 DEF b
<1>6. Types'
  BY <1>1, <1>2, <1>3, <1>4, <1>5 DEF Inv, Types
<1>7. Rooted' /\ Foldered'
  <2>1. /\ disk'[c.id] = d /\ d # Nothing /\ d.id = c.id
        /\ \A p \in Packs : p # c.id => disk'[p] = disk[p]
    BY <1>2, <1>3, NothingElse DEF Inv, Types
  <2>2. \A p \in Packs : index'[p] = index[p] \/ (p = c.id /\ index'[p] = e)
    BY <1>2, <1>4 DEF Inv, Types
  <2>3. Foldered'
    BY <2>1 DEF Inv, Foldered
  <2>4. Rooted'
    BY <1>1, <1>4, <2>1, <2>2 DEF Inv, Rooted
  <2>5. QED BY <2>3, <2>4
<1>8. Recorded'
  <2>1. \A i \in Items : steam[i] # Nothing => steam[i].at \in Nat
    BY DEF Inv, Types, Versions
  <2>2. hist.updates \in Nat
    BY DEF Inv, Types, Histories
  <2>3. QED BY <1>1, <1>5, <2>1, <2>2 DEF Inv, Recorded
<1>9. Named'
  <2>1. Mixed(disk, steam)' = Mixed(disk', steam)
    BY <1>1 DEF Mixed
  <2>2. ~hist'.mixed => ~hist.mixed /\ ~Mixed(disk, steam)'
    BY <1>5, <2>1
  <2>3. QED BY <1>1, <1>2, <1>4, <2>2, NothingElse DEF Inv, Types, Named, Entries
<1>10. QED BY <1>6, <1>7, <1>8, <1>9 DEF Inv

LEMMA SteamUpdateKeeps == ASSUME Inv, SteamUpdate PROVE Inv'
<1>1. PICK i \in Items, c \in Contents :
        /\ steam' = [steam EXCEPT ![i] = [content |-> c, at |-> hist.updates + 1]]
        /\ hist' = [hist EXCEPT !.updates = @ + 1,
                      !.mixed = @ \/ Mixed(disk, steam')
                                  \/ (steam[i] # Nothing /\ steam[i].content.id # c.id)]
        /\ UNCHANGED <<disk, index, items, quar, live>>
  BY DEF SteamUpdate
<1> DEFINE v == [content |-> c, at |-> hist.updates + 1]
<1>2. v \in Versions /\ v # Nothing /\ v.content = c /\ v.at = hist.updates + 1
  <2>1. hist.updates + 1 \in Nat
    BY DEF Inv, Types, Histories
  <2>2. c \in Content
    BY LibraryAssumption DEF Content
  <2>3. v \in Versions
    BY <2>1, <2>2 DEF Versions
  <2>4. QED BY <2>3, NothingElse
<1>3. /\ steam'[i] = v /\ \A j \in Items : j # i => steam'[j] = steam[j]
      /\ steam' \in [Items -> Versions \cup {Nothing}]
  BY <1>1, <1>2 DEF Inv, Types
<1>4. /\ hist' \in Histories /\ hist'.updates = hist.updates + 1
      /\ ~hist'.mixed => /\ ~hist.mixed /\ ~Mixed(disk, steam')
                         /\ steam[i] = Nothing \/ steam[i].content.id = c.id
  <2> DEFINE b == \/ hist.mixed \/ Mixed(disk, steam')
                  \/ (steam[i] # Nothing /\ steam[i].content.id # c.id)
  <2>1. b \in BOOLEAN /\ hist.cut \in SUBSET (Packs \cup Items)
    BY DEF Inv, Types, Histories
  <2>2. hist' = [hist EXCEPT !.updates = @ + 1, !.cut = hist.cut, !.mixed = b]
    BY <1>1 DEF Inv, Types, Histories
  <2> HIDE DEF b
  <2>3. hist' \in Histories /\ hist'.updates = hist.updates + 1 /\ hist'.mixed = b
    BY <2>1, <2>2, HistoryGrows DEF Inv, Types
  <2>4. QED BY <2>3 DEF b
<1> HIDE DEF v
<1>5. Types'
  BY <1>1, <1>3, <1>4 DEF Inv, Types
<1>6. Rooted' /\ Foldered'
  <2>1. \A p \in Packs : index[p] # Nothing /\ index[p].root # Disk => index[p].root \in Items
    BY DEF Inv, Types, Entries
  <2>2. QED BY <1>1, <1>2, <1>3, <2>1 DEF Inv, Rooted, Foldered
<1>7. Recorded'
  <2>1. \A j \in Items : /\ steam[j] # Nothing => steam[j].at \in Nat
                         /\ items[j] # Nothing => items[j].at \in Nat
    BY DEF Inv, Types, Versions, ItemRows
  <2>2. hist.updates \in Nat
    BY DEF Inv, Types, Histories
  <2>3. ASSUME NEW j \in Items PROVE
          /\ steam'[j] # Nothing => steam'[j].at <= hist'.updates
          /\ items[j] # Nothing => /\ steam'[j] # Nothing /\ items[j].at <= steam'[j].at
                                   /\ items[j].at = steam'[j].at => steam'[j].content.ok
    <3>1. CASE j = i
      BY <1>2, <1>3, <1>4, <2>1, <2>2, <3>1 DEF Inv, Recorded
    <3>2. CASE j # i
      BY <1>3, <1>4, <2>1, <2>2, <3>2 DEF Inv, Recorded
    <3>3. QED BY <3>1, <3>2
  <2>4. QED BY <1>1, <2>3 DEF Recorded
<1>8. Named'
  <2>1. Mixed(disk, steam)' = Mixed(disk, steam')
    BY <1>1 DEF Mixed
  <2>2. \A p \in Packs : index[p] # Nothing /\ index[p].root # Disk =>
          index[p].root \in Items /\ steam[index[p].root] # Nothing
    BY DEF Inv, Types, Entries, Rooted
  <2>3. \A j \in Items : items[j] # Nothing => steam[j] # Nothing
    BY DEF Inv, Recorded
  <2>4. QED BY <1>1, <1>2, <1>3, <1>4, <2>1, <2>2, <2>3 DEF Inv, Named
<1>9. QED BY <1>5, <1>6, <1>7, <1>8 DEF Inv

\* Fewer folders mix no more ids.
LEMMA RemoveUnmixes ==
  ASSUME NEW i \in Items, ~Mixed(disk, steam), Types,
         NEW s, s = [steam EXCEPT ![i] = Nothing]
  PROVE  ~Mixed(disk, s)
<1>1. \A j \in Items : s[j] = Nothing \/ s[j] = steam[j]
  BY DEF Types
<1>2. QED BY <1>1 DEF Mixed

LEMMA SteamRemoveKeeps == ASSUME Inv, SteamRemove PROVE Inv'
<1>1. PICK i \in Items :
        /\ items[i] = Nothing /\ \A p \in Packs : index[p] # Nothing => index[p].root # i
        /\ steam' = [steam EXCEPT ![i] = Nothing]
        /\ UNCHANGED <<disk, index, items, quar, live, hist>>
  BY DEF SteamRemove
<1>2. /\ steam' \in [Items -> Versions \cup {Nothing}] /\ steam'[i] = Nothing
      /\ \A j \in Items : j # i => steam'[j] = steam[j]
  BY <1>1 DEF Inv, Types
<1>3. \A p \in Packs : index[p] # Nothing /\ index[p].root # Disk =>
        index[p].root \in Items /\ index[p].root # i
  BY <1>1 DEF Inv, Types, Entries
<1>4. Types' /\ Rooted' /\ Foldered'
  BY <1>1, <1>2, <1>3 DEF Inv, Types, Rooted, Foldered
<1>5. Recorded'
  BY <1>1, <1>2 DEF Inv, Recorded
<1>6. Named'
  <2>1. Mixed(disk, steam)' = Mixed(disk, steam')
    BY <1>1 DEF Mixed
  <2>2. ~hist.mixed => ~Mixed(disk, steam')
    BY <1>1, RemoveUnmixes DEF Inv, Named
  <2>3. QED BY <1>1, <1>2, <1>3, <2>1, <2>2 DEF Inv, Named
<1>7. QED BY <1>4, <1>5, <1>6 DEF Inv

-----------------------------------------------------------------------------
(* The rest of the steps write no folder: what they do to the other stores *)

Outcome(i, stage) ==
  /\ hist' \in Histories /\ hist'.updates = hist.updates /\ hist'.mixed = hist.mixed
  /\ stage # "done" => hist'.cut = hist.cut \cup {i}
  /\ stage = "done" => hist'.cut = IF steam[i].content.ok THEN hist.cut \ {i} ELSE hist.cut

LEMMA CutOutcome ==
  ASSUME Inv, NEW i \in Items, NEW stage, hist' = Cut(i, stage)
  PROVE  Outcome(i, stage)
<1>1. PICK c \in SUBSET (Packs \cup Items) :
        /\ hist' = [hist EXCEPT !.cut = c]
        /\ c = IF stage # "done" THEN hist.cut \cup {i}
               ELSE IF steam[i].content.ok THEN hist.cut \ {i} ELSE hist.cut
  BY DEF Inv, Types, Histories, Cut
<1>2. QED BY <1>1 DEF Inv, Types, Histories, Outcome

\* The version that is synced, and its entry and row.
LEMMA SyncedVersion ==
  ASSUME Inv, NEW i \in Items, steam[i] # Nothing
  PROVE  LET c == steam[i].content
             row == [pack |-> c.id, at |-> steam[i].at] IN
         /\ c \in Content /\ c.id \in Packs /\ steam[i].at \in Nat
         /\ Entry(i, c) \in Entries /\ Entry(i, c) # Nothing
         /\ Entry(i, c).root = i /\ Entry(i, c).scens = c.scens
         /\ row \in ItemRows /\ row # Nothing /\ row.pack = c.id /\ row.at = steam[i].at
<1> DEFINE c == steam[i].content
           row == [pack |-> c.id, at |-> steam[i].at]
<1>1. c \in Content /\ steam[i].at \in Nat
  BY DEF Inv, Types, Versions
<1>2. c.id \in Packs /\ Entry(i, c) \in Entries /\ Entry(i, c).root = i
      /\ Entry(i, c).scens = c.scens
  BY <1>1 DEF Content, Entry, Entries
<1>3. row \in ItemRows
  BY <1>1, <1>2 DEF ItemRows
<1>4. Entry(i, c) # Nothing /\ row # Nothing
  BY <1>2, <1>3, NothingElse
<1>5. QED BY <1>1, <1>2, <1>3, <1>4

LEMMA RegisterKeeps ==
  ASSUME Inv, NEW i \in Items, NEW stage, steam[i] # Nothing, steam[i].content.ok,
         Register(i, stage), hist' = Cut(i, stage), UNCHANGED <<disk, steam, live>>
  PROVE  Inv'
<1>1. Outcome(i, stage)
  BY CutOutcome
<1>2. PICK p, e, row :
        /\ p = steam[i].content.id /\ e = Entry(i, steam[i].content)
        /\ row = [pack |-> steam[i].content.id, at |-> steam[i].at]
  OBVIOUS
<1>3. /\ p \in Packs /\ e \in Entries /\ row \in ItemRows /\ e.root = i /\ e # Nothing
      /\ row.pack = p /\ row.at = steam[i].at /\ row # Nothing
  BY <1>2, SyncedVersion
<1>4. /\ index' = [index EXCEPT ![p] = e] /\ quar' \subseteq quar
      /\ items' = items \/ items' = [items EXCEPT ![i] = row]
  BY <1>2 DEF Register
<1>5. i # Disk
  BY LibraryAssumption
<1>6. Types'
  BY <1>1, <1>2, <1>3, <1>4 DEF Inv, Types, Outcome
<1>7. Rooted' /\ Foldered'
  BY <1>3, <1>4, <1>5 DEF Inv, Types, Rooted, Foldered
<1>8. Recorded'
  BY <1>1, <1>2, <1>3, <1>4 DEF Inv, Types, Versions, Recorded, Outcome
<1>9. Named'
  <2>1. Mixed(disk, steam)' = Mixed(disk, steam)
    BY DEF Mixed
  <2>2. QED BY <1>1, <1>2, <1>3, <1>4, <1>5, <2>1 DEF Inv, Types, Named, Outcome
<1>10. QED BY <1>6, <1>7, <1>8, <1>9 DEF Inv

LEMMA QuarantineKeeps ==
  ASSUME Inv, NEW i \in Items, NEW stage, Quarantine(i, stage),
         hist' = Cut(i, stage), UNCHANGED <<disk, steam, live>>
  PROVE  Inv'
<1>1. Outcome(i, stage)
  BY CutOutcome
<1>2. items[i] # Nothing => items[i].pack \in Packs
  BY DEF Inv, Types, ItemRows
<1>3. /\ index' \in [Packs -> Entries \cup {Nothing}]
      /\ \A p \in Packs : index'[p] = index[p] \/ index'[p] = Nothing
  BY <1>2 DEF Quarantine, Inv, Types
<1>4. /\ items' \in [Items -> ItemRows \cup {Nothing}]
      /\ \A j \in Items : items'[j] = items[j] \/ items'[j] = Nothing
  BY DEF Quarantine, Inv, Types
<1>5. quar' \subseteq Items
  BY DEF Quarantine, Inv, Types
<1>6. Mixed(disk, steam)' = Mixed(disk, steam)
  BY DEF Mixed
<1>7. Types' /\ Rooted' /\ Foldered' /\ Recorded'
  BY <1>1, <1>3, <1>4, <1>5 DEF Inv, Types, Rooted, Foldered, Recorded, Outcome
<1>8. Named'
  BY <1>1, <1>3, <1>4, <1>6 DEF Inv, Named, Outcome
<1>9. QED BY <1>7, <1>8 DEF Inv

LEMMA SyncKeeps == ASSUME Inv, Sync PROVE Inv'
<1>1. PICK i \in Items, stage \in {"first", "second", "done"} :
        /\ steam[i] # Nothing
        /\ IF steam[i].content.ok THEN Register(i, stage) ELSE Quarantine(i, stage)
        /\ hist' = Cut(i, stage) /\ UNCHANGED <<disk, steam, live>>
  BY DEF Sync, Pending
<1>2. QED BY <1>1, RegisterKeeps, QuarantineKeeps

\* What an unsubscription takes back.
TakesBack(p, stage) ==
  LET mine == {i \in Items : items[i] # Nothing /\ items[i].pack = p} IN
  /\ items' = [i \in Items |-> IF i \in mine THEN Nothing ELSE items[i]]
  /\ index' = IF stage = "done" THEN [index EXCEPT ![p] = Nothing] ELSE index
  /\ quar' \subseteq quar
  /\ hist' \in Histories /\ hist'.updates = hist.updates /\ hist'.mixed = hist.mixed
  /\ hist'.cut = IF stage = "done" THEN hist.cut ELSE hist.cut \cup mine
  /\ UNCHANGED <<disk, steam, live>>

LEMMA Unsubscribed ==
  ASSUME Inv, Unsubscribe
  PROVE  \E p \in Packs, stage \in {"first", "done"} :
           /\ TakesBack(p, stage)
           /\ index[p] # Nothing => \A s \in index[p].scens : ~Active(s)
<1>1. PICK p \in Packs, stage \in {"first", "done"} :
        /\ index[p] # Nothing => \A s \in index[p].scens : ~Active(s)
        /\ LET mine == {i \in Items : items[i] # Nothing /\ items[i].pack = p} IN
           /\ items' = [i \in Items |-> IF i \in mine THEN Nothing ELSE items[i]]
           /\ index' = IF stage = "done" THEN [index EXCEPT ![p] = Nothing] ELSE index
           /\ IF mine = {} \/ stage # "done" THEN quar' = quar
              ELSE \E i \in mine : quar' = quar \ {i}
           /\ hist' = [hist EXCEPT !.cut = IF stage = "done" THEN @ ELSE @ \cup mine]
        /\ UNCHANGED <<disk, steam, live>>
  BY DEF Unsubscribe
<1> DEFINE mine == {i \in Items : items[i] # Nothing /\ items[i].pack = p}
           c == IF stage = "done" THEN hist.cut ELSE hist.cut \cup mine
<1>2. c \in SUBSET (Packs \cup Items) /\ hist' = [hist EXCEPT !.cut = c]
  BY <1>1 DEF Inv, Types, Histories
<1> HIDE DEF c
<1>3. /\ hist' \in Histories /\ hist'.updates = hist.updates /\ hist'.mixed = hist.mixed
      /\ hist'.cut = c
  BY <1>2 DEF Inv, Types, Histories
<1>4. quar' \subseteq quar
  BY <1>1
<1>5. TakesBack(p, stage)
  BY <1>1, <1>3, <1>4 DEF TakesBack, c
<1>6. QED BY <1>1, <1>5

LEMMA UnsubscribeKeeps == ASSUME Inv, Unsubscribe PROVE Inv'
<1>1. PICK p \in Packs, stage \in {"first", "done"} : TakesBack(p, stage)
  BY Unsubscribed
<1>2. /\ index' \in [Packs -> Entries \cup {Nothing}]
      /\ \A q \in Packs : index'[q] = index[q] \/ index'[q] = Nothing
  BY <1>1 DEF TakesBack, Inv, Types
<1>3. /\ items' \in [Items -> ItemRows \cup {Nothing}]
      /\ \A j \in Items : items'[j] = items[j] \/ items'[j] = Nothing
  BY <1>1 DEF TakesBack, Inv, Types
<1>4. /\ quar' \subseteq Items /\ UNCHANGED <<disk, steam, live>>
      /\ hist' \in Histories /\ hist'.updates = hist.updates /\ hist'.mixed = hist.mixed
  BY <1>1 DEF TakesBack, Inv, Types
<1>5. Mixed(disk, steam)' = Mixed(disk, steam)
  BY <1>4 DEF Mixed
<1>6. Types' /\ Rooted' /\ Foldered' /\ Recorded'
  BY <1>2, <1>3, <1>4 DEF Inv, Types, Rooted, Foldered, Recorded
<1>7. Named'
  BY <1>2, <1>3, <1>4, <1>5 DEF Inv, Named
<1>8. QED BY <1>6, <1>7 DEF Inv

LEMMA SessionsKeep == ASSUME Inv, CreateSession \/ StartSession \/ EndSession PROVE Inv'
<1>1. /\ live' \in [Scens -> {"none", "NotStarted", "Running", "Ended"}]
      /\ UNCHANGED <<disk, index, items, quar, steam, hist>>
  BY DEF CreateSession, StartSession, EndSession, Inv, Types
<1>2. Mixed(disk, steam)' = Mixed(disk, steam)
  BY <1>1 DEF Mixed
<1>3. QED BY <1>1, <1>2 DEF Inv, Types, Rooted, Foldered, Recorded, Named

LEMMA InvStep == Inv /\ [Next]_vars => Inv'
<1> SUFFICES ASSUME Inv, [Next]_vars PROVE Inv'
  OBVIOUS
<1>1. CASE Next
  BY <1>1, ImportKeeps, SteamUpdateKeeps, SteamRemoveKeeps, SyncKeeps, UnsubscribeKeeps,
     SessionsKeep DEF Next
<1>2. CASE UNCHANGED vars
  <2>1. Mixed(disk, steam)' = Mixed(disk, steam)
    BY <1>2 DEF vars, Mixed
  <2>2. QED BY <1>2, <2>1 DEF vars, Inv, Types, Rooted, Foldered, Recorded, Named
<1>3. QED BY <1>1, <1>2

THEOREM LibraryInv == Spec => []Inv
  BY InvInit, InvStep, PTL DEF Spec

-----------------------------------------------------------------------------
(* What the steps do to the marks of a write cut short *)

\* An import marks packs only, and no pack is an item.
LEMMA ImportMarks ==
  ASSUME Inv, Import
  PROVE  /\ \A i \in Items : i \in hist.cut => i \in hist'.cut
         /\ UNCHANGED <<items, quar, steam, live>>
         /\ ~hist'.mixed => ~hist.mixed
         /\ \A p \in Packs : index'[p] = Nothing => index[p] = Nothing
         /\ \A p \in Packs : index'[p] # index[p] => index'[p].root = Disk
<1>1. PICK c \in Contents, stage \in {"copy", "index", "done"} :
        /\ Installed(c, stage)
        /\ hist' = [hist EXCEPT !.updates = @ + 1,
                            !.cut = IF stage = "done" THEN @ \ {c.id}
                                    ELSE IF disk[c.id] = Nothing THEN @ ELSE @ \cup {c.id},
                            !.mixed = @ \/ Mixed(disk', steam)]
        /\ UNCHANGED <<items, quar, steam, live>>
  BY DEF Import
<1>2. c \in Content /\ c.id \in Packs /\ c.id \notin Items
  BY LibraryAssumption DEF Content
<1>3. Entry(Disk, c) \in Entries /\ Entry(Disk, c).root = Disk /\ Entry(Disk, c) # Nothing
  BY <1>2, NothingElse DEF Entry, Entries, Content
<1>4. index' = index \/ index' = [index EXCEPT ![c.id] = Entry(Disk, c)]
  BY <1>1 DEF Installed
<1>5. /\ \A p \in Packs : index'[p] = Nothing => index[p] = Nothing
      /\ \A p \in Packs : index'[p] # index[p] => index'[p].root = Disk
  BY <1>2, <1>3, <1>4 DEF Inv, Types
<1>6. \A i \in Items : i \in hist.cut => i \in hist'.cut
  BY <1>1, <1>2 DEF Inv, Types, Histories
<1>7. ~hist'.mixed => ~hist.mixed
  BY <1>1 DEF Inv, Types, Histories
<1>8. QED BY <1>1, <1>5, <1>6, <1>7

\* Steam's own steps touch no store.
LEMMA SteamMarks ==
  ASSUME Inv, SteamUpdate \/ SteamRemove
  PROVE  /\ hist'.cut = hist.cut /\ UNCHANGED <<disk, index, items, quar, live>>
         /\ ~hist'.mixed => ~hist.mixed
<1>1. CASE SteamUpdate
  BY <1>1 DEF SteamUpdate, Inv, Types, Histories
<1>2. CASE SteamRemove
  BY <1>2 DEF SteamRemove
<1>3. QED BY <1>1, <1>2

LEMMA RegisterMarks ==
  ASSUME Inv, NEW i \in Items, NEW stage, steam[i] # Nothing, Register(i, stage)
  PROVE  LET p == steam[i].content.id IN
         /\ p \in Packs
         /\ index'[p] # Nothing /\ index'[p].root = i
         /\ \A q \in Packs : q # p => index'[q] = index[q]
         /\ \A j \in Items : j # i => items'[j] = items[j]
         /\ stage = "done" => items'[i] # Nothing /\ items'[i].pack = p /\ i \notin quar'
         /\ stage # "done" => items' = items
         /\ quar' \subseteq quar
  BY SyncedVersion DEF Register, Inv, Types

LEMMA QuarantineMarks ==
  ASSUME Inv, NEW i \in Items, NEW stage, Quarantine(i, stage)
  PROVE  /\ \A q \in Packs : index'[q] = index[q] \/ index'[q] = Nothing
         /\ items[i] = Nothing => index' = index
         /\ items[i] # Nothing => \A q \in Packs : q # items[i].pack => index'[q] = index[q]
         /\ items[i] # Nothing /\ stage = "done" => index'[items[i].pack] = Nothing
         /\ \A j \in Items : j # i => items'[j] = items[j]
         /\ stage = "done" => items'[i] = Nothing
         /\ stage # "done" => items' = items
         /\ \A j \in Items : j # i => (j \in quar' <=> j \in quar)
<1>1. items[i] # Nothing => items[i].pack \in Packs
  BY DEF Inv, Types, ItemRows
<1>2. QED BY <1>1 DEF Quarantine, Inv, Types

LEMMA Synced ==
  ASSUME Inv, Sync
  PROVE  \E i \in Items, stage \in {"first", "second", "done"} :
           /\ steam[i] # Nothing
           /\ ~Unchanged(i) \/ (items[i] # Nothing /\ items[i].at = steam[i].at)
           /\ IF steam[i].content.ok THEN Register(i, stage) ELSE Quarantine(i, stage)
           /\ Outcome(i, stage) /\ UNCHANGED <<disk, steam, live>>
  BY CutOutcome DEF Sync, Pending, Unchanged

-----------------------------------------------------------------------------
\* A quarantined item is not on record, unless a crash cut its sync short
\* (workshop.ts, the quarantine and the row are written one after the other).
THEOREM QuarantineHolds == Spec => []QuarantinedIsOut
<1>1. Init => QuarantinedIsOut
  BY DEF Init, QuarantinedIsOut
<1>2. Inv /\ QuarantinedIsOut /\ [Next]_vars => QuarantinedIsOut'
  <2> SUFFICES ASSUME Inv, QuarantinedIsOut, [Next]_vars PROVE QuarantinedIsOut'
    OBVIOUS
  <2>1. quar \subseteq Items
    BY DEF Inv, Types
  <2>2. CASE Import
    BY <2>1, <2>2, ImportMarks DEF QuarantinedIsOut
  <2>3. CASE SteamUpdate \/ SteamRemove
    BY <2>3, SteamMarks DEF QuarantinedIsOut
  <2>4. CASE Sync
    <3>1. PICK i \in Items, stage \in {"first", "second", "done"} :
            /\ steam[i] # Nothing /\ Outcome(i, stage)
            /\ IF steam[i].content.ok THEN Register(i, stage) ELSE Quarantine(i, stage)
      BY <2>4, Synced
    <3>2. CASE steam[i].content.ok
      BY <2>1, <3>1, <3>2, RegisterMarks DEF QuarantinedIsOut, Outcome
    <3>3. CASE ~steam[i].content.ok
      <4>1. quar' \subseteq Items
        BY <3>1, <3>3, <2>1 DEF Quarantine
      <4>2. QED BY <4>1, <3>1, <3>3, QuarantineMarks DEF QuarantinedIsOut, Outcome
    <3>4. QED BY <3>2, <3>3
  <2>5. CASE Unsubscribe
    BY <2>1, <2>5, Unsubscribed DEF TakesBack, QuarantinedIsOut
  <2>6. CASE CreateSession \/ StartSession \/ EndSession
    BY <2>6 DEF CreateSession, StartSession, EndSession, QuarantinedIsOut
  <2>7. CASE UNCHANGED vars
    BY <2>7 DEF vars, QuarantinedIsOut
  <2>8. QED BY <2>2, <2>3, <2>4, <2>5, <2>6, <2>7 DEF Next
<1>3. QED BY <1>1, <1>2, LibraryInv, PTL DEF Spec

\* The library lists no scenario twice while no two sources share an id
\* (scenarios.ts lists whatever the index points at).
THEOREM ScenariosOnce == Spec => []OfferedOnce
<1>1. Inv => OfferedOnce
  <2> SUFFICES ASSUME Inv, ~hist.mixed, NEW p \in Packs, NEW q \in Packs, p # q
               PROVE  OfferedBy(p) \cap OfferedBy(q) = {}
    BY DEF OfferedOnce
  <2>1. ~Mixed(disk, steam)
    BY DEF Inv, Named
  <2>2. ASSUME Usable(p), Usable(q) PROVE RootOf(p).scens \cap RootOf(q).scens = {}
    <3>1. \A r \in {p, q} : /\ index[r] # Nothing
                            /\ index[r].root # Disk => /\ index[r].root \in Items
                                                       /\ steam[index[r].root] # Nothing
                                                       /\ steam[index[r].root].content.id = r
                            /\ index[r].root = Disk => disk[r] # Nothing
      BY <2>2 DEF Usable, RootOf, Inv, Types, Entries, Named
    <3>2. CASE index[p].root = Disk /\ index[q].root = Disk
      BY <2>1, <3>1, <3>2 DEF RootOf, Mixed
    <3>3. CASE index[p].root = Disk /\ index[q].root # Disk
      BY <2>1, <3>1, <3>3 DEF RootOf, Mixed
    <3>4. CASE index[p].root # Disk /\ index[q].root = Disk
      BY <2>1, <3>1, <3>4 DEF RootOf, Mixed
    <3>5. CASE index[p].root # Disk /\ index[q].root # Disk
      BY <2>1, <3>1, <3>5 DEF RootOf, Mixed
    <3>6. QED BY <3>2, <3>3, <3>4, <3>5
  <2>3. QED BY <2>2 DEF OfferedBy
<1>2. QED BY <1>1, LibraryInv, PTL

\* While no two sources share an id, a folder's pack belongs to that folder alone.
LEMMA OneFolder ==
  ASSUME Inv, ~hist.mixed
  PROVE  /\ \A i, j \in Items : steam[i] # Nothing /\ steam[j] # Nothing
              /\ steam[i].content.id = steam[j].content.id => i = j
         /\ \A i \in Items : items[i] # Nothing =>
              steam[i] # Nothing /\ items[i].pack = steam[i].content.id
         /\ \A p \in Packs, i \in Items : index[p] # Nothing /\ index[p].root = i =>
              steam[i] # Nothing /\ steam[i].content.id = p
         /\ \A p \in Packs, i \in Items : disk[p] # Nothing /\ steam[i] # Nothing =>
              steam[i].content.id # p
<1>1. ~Mixed(disk, steam)
  BY DEF Inv, Named
<1>2. \A i \in Items : i # Disk
  BY LibraryAssumption
<1>3. QED BY <1>1, <1>2 DEF Inv, Named, Rooted, Recorded, Mixed

\* What the next sync would skip is in the index (workshop.ts indexes a pack before
\* it records the item).
THEOREM SkippedIsIndexed == Spec => []ItemsIndexed
<1>1. Init => ItemsIndexed
  BY DEF Init, ItemsIndexed
<1>2. Inv /\ Inv' /\ ItemsIndexed /\ [Next]_vars => ItemsIndexed'
  <2> SUFFICES ASSUME Inv, Inv', ItemsIndexed, [Next]_vars, ~hist'.mixed,
                      NEW j \in Items, items'[j] # Nothing, Unchanged(j)'
               PROVE  index'[items'[j].pack] # Nothing
    BY DEF ItemsIndexed
  <2>1. items[j] # Nothing => items[j].pack \in Packs
    BY DEF Inv, Types, ItemRows
  <2>2. CASE Import
    <3>1. UNCHANGED <<items, steam>> /\ ~hist.mixed
      BY <2>2, ImportMarks
    <3>2. items[j] # Nothing /\ steam[j] # Nothing /\ Unchanged(j)
      BY <3>1 DEF Unchanged, Inv, Recorded
    <3>3. index[items[j].pack] # Nothing
      BY <3>1, <3>2 DEF ItemsIndexed
    <3>4. \A p \in Packs : index'[p] = Nothing => index[p] = Nothing
      BY <2>2, ImportMarks
    <3>5. QED BY <2>1, <3>1, <3>2, <3>3, <3>4
  <2>3. CASE SteamUpdate
    <3>1. ~hist.mixed /\ UNCHANGED <<index, items>>
      BY <2>3, SteamMarks
    <3>2. PICK i \in Items : \E v : v.at = hist.updates + 1 /\ steam' = [steam EXCEPT ![i] = v]
      <4>1. PICK i \in Items, c \in Contents :
              steam' = [steam EXCEPT ![i] = [content |-> c, at |-> hist.updates + 1]]
        BY <2>3 DEF SteamUpdate
      <4>2. [content |-> c, at |-> hist.updates + 1].at = hist.updates + 1
        OBVIOUS
      <4>3. QED BY <4>1, <4>2
    <3>3. CASE j = i
      <4>1. steam'[j].at = hist.updates + 1
        BY <3>2, <3>3 DEF Inv, Types
      <4>2. /\ items[j].at \in Nat /\ steam[j].at \in Nat /\ hist.updates \in Nat
            /\ items[j].at <= steam[j].at /\ steam[j].at <= hist.updates
        BY <3>1 DEF Inv, Types, Recorded, ItemRows, Versions, Histories
      <4>3. QED BY <3>1, <4>1, <4>2 DEF Unchanged
    <3>4. CASE j # i
      <4>1. steam'[j] = steam[j]
        BY <3>2, <3>4 DEF Inv, Types
      <4>2. QED BY <3>1, <4>1 DEF ItemsIndexed, Unchanged, Inv, Recorded
    <3>5. QED BY <3>3, <3>4
  <2>4. CASE SteamRemove
    BY <2>4, <2>1 DEF SteamRemove, ItemsIndexed, Unchanged, Inv, Types, Recorded
  <2>5. CASE Sync
    <3>1. PICK i \in Items, stage \in {"first", "second", "done"} :
            /\ steam[i] # Nothing /\ Outcome(i, stage) /\ UNCHANGED <<disk, steam, live>>
            /\ IF steam[i].content.ok THEN Register(i, stage) ELSE Quarantine(i, stage)
      BY <2>5, Synced
    <3>2. ~hist.mixed
      BY <3>1 DEF Outcome
    <3>3. CASE steam[i].content.ok
      <4>1. CASE j = i /\ stage = "done"
        BY <3>1, <3>3, <4>1, RegisterMarks
      <4>2. CASE ~(j = i /\ stage = "done")
        <5>1. items'[j] = items[j]
          BY <3>1, <3>3, <4>2, RegisterMarks
        <5>2. index[items[j].pack] # Nothing
          BY <3>1, <3>2, <5>1 DEF ItemsIndexed, Unchanged, Inv, Recorded
        <5>3. QED BY <2>1, <3>1, <3>3, <5>1, <5>2, RegisterMarks
      <4>3. QED BY <4>1, <4>2
    <3>4. CASE ~steam[i].content.ok
      <4>1. j # i
        <5>1. CASE stage = "done"
          BY <3>1, <3>4, <5>1, QuarantineMarks
        <5>2. CASE stage # "done"
          BY <3>1, <3>4, <5>2, QuarantineMarks DEF Unchanged, Inv, Recorded
        <5>3. QED BY <5>1, <5>2
      <4>2. items'[j] = items[j]
        BY <3>1, <3>4, <4>1, QuarantineMarks
      <4>3. index[items[j].pack] # Nothing
        BY <3>1, <3>2, <4>2 DEF ItemsIndexed, Unchanged, Inv, Recorded
      <4>4. items[i] # Nothing => items[i].pack # items[j].pack
        BY <3>2, <4>1, <4>2, OneFolder
      <4>5. QED BY <2>1, <3>1, <3>4, <4>2, <4>3, <4>4, QuarantineMarks
    <3>5. QED BY <3>3, <3>4
  <2>6. CASE Unsubscribe
    <3>1. PICK p \in Packs, stage \in {"first", "done"} : TakesBack(p, stage)
      BY <2>6, Unsubscribed
    <3>2. items'[j] = items[j] /\ items[j].pack # p
      BY <3>1 DEF TakesBack
    <3>3. index[items[j].pack] # Nothing
      BY <3>1, <3>2 DEF TakesBack, ItemsIndexed, Unchanged, Inv, Recorded
    <3>4. index'[items[j].pack] = index[items[j].pack]
      BY <2>1, <3>1, <3>2 DEF TakesBack, Inv, Types
    <3>5. QED BY <3>2, <3>3, <3>4
  <2>7. CASE CreateSession \/ StartSession \/ EndSession \/ UNCHANGED vars
    BY <2>7 DEF CreateSession, StartSession, EndSession, vars, ItemsIndexed, Unchanged, Inv, Recorded
  <2>8. QED BY <2>2, <2>3, <2>4, <2>5, <2>6, <2>7 DEF Next
<1>3. QED BY <1>1, <1>2, LibraryInv, PTL DEF Spec

\* Whatever is listed from a Workshop folder is on record for that item: what was
\* quarantined or unsubscribed has left the index (workshop.ts).
THEOREM WorkshopIsBacked == Spec => []WorkshopBacked
<1>1. Init => WorkshopBacked
  BY DEF Init, WorkshopBacked
<1>2. Inv /\ WorkshopBacked /\ [Next]_vars => WorkshopBacked'
  <2> SUFFICES ASSUME Inv, WorkshopBacked, [Next]_vars, ~hist'.mixed,
                      NEW p \in Packs, index'[p] # Nothing, index'[p].root \in Items \ hist'.cut
               PROVE  items'[index'[p].root] # Nothing /\ items'[index'[p].root].pack = p
    BY DEF WorkshopBacked
  <2>1. \A i \in Items : i # Disk
    BY LibraryAssumption
  <2>2. CASE Import
    <3>1. index'[p] = index[p]
      <4>1. \A q \in Packs : index'[q] # index[q] => index'[q].root = Disk
        BY <2>2, ImportMarks
      <4>2. QED BY <2>1, <4>1
    <3>2. index[p].root \in Items \ hist.cut /\ ~hist.mixed /\ items' = items
      BY <2>2, <3>1, ImportMarks
    <3>3. QED BY <3>1, <3>2 DEF WorkshopBacked
  <2>3. CASE SteamUpdate \/ SteamRemove
    BY <2>3, SteamMarks DEF WorkshopBacked
  <2>4. CASE Sync
    <3>1. PICK i \in Items, stage \in {"first", "second", "done"} :
            /\ steam[i] # Nothing /\ Outcome(i, stage) /\ UNCHANGED <<disk, steam, live>>
            /\ IF steam[i].content.ok THEN Register(i, stage) ELSE Quarantine(i, stage)
      BY <2>4, Synced
    <3>2. ~hist.mixed /\ (stage # "done" => i \in hist'.cut)
      BY <3>1 DEF Outcome
    <3>3. CASE steam[i].content.ok
      <4>1. CASE p = steam[i].content.id
        BY <3>1, <3>2, <3>3, <4>1, RegisterMarks
      <4>2. CASE p # steam[i].content.id
        <5>1. index'[p] = index[p]
          BY <3>1, <3>3, <4>2, RegisterMarks
        <5>2. index[p].root # i
          BY <3>2, <4>2, <5>1, OneFolder
        <5>3. index[p].root \notin hist.cut
          BY <3>1, <3>3, <5>1, <5>2 DEF Outcome
        <5>4. QED BY <3>1, <3>2, <3>3, <5>1, <5>2, <5>3, RegisterMarks DEF WorkshopBacked
      <4>3. QED BY <4>1, <4>2
    <3>4. CASE ~steam[i].content.ok
      <4>1. index'[p] = index[p]
        BY <3>1, <3>4, QuarantineMarks
      <4>2. index[p].root \notin hist.cut
        BY <3>1, <3>4, <4>1 DEF Outcome
      <4>3. items[index[p].root] # Nothing /\ items[index[p].root].pack = p
        BY <3>2, <4>1, <4>2 DEF WorkshopBacked
      <4>4. index[p].root # i
        BY <3>1, <3>2, <3>4, <4>1, <4>3, QuarantineMarks
      <4>5. QED BY <3>1, <3>4, <4>1, <4>3, <4>4, QuarantineMarks
    <3>5. QED BY <3>3, <3>4
  <2>5. CASE Unsubscribe
    <3>1. PICK q \in Packs, stage \in {"first", "done"} : TakesBack(q, stage)
      BY <2>5, Unsubscribed
    <3>2. index'[p] = index[p] /\ (stage = "done" => p # q)
      BY <3>1 DEF TakesBack, Inv, Types
    <3>3. items[index[p].root] # Nothing /\ items[index[p].root].pack = p
      BY <3>1, <3>2 DEF TakesBack, WorkshopBacked
    <3>4. p # q
      BY <3>1, <3>2, <3>3 DEF TakesBack
    <3>5. QED BY <3>1, <3>2, <3>3, <3>4 DEF TakesBack
  <2>6. CASE CreateSession \/ StartSession \/ EndSession \/ UNCHANGED vars
    BY <2>6 DEF CreateSession, StartSession, EndSession, vars, WorkshopBacked
  <2>7. QED BY <2>2, <2>3, <2>4, <2>5, <2>6 DEF Next
<1>3. QED BY <1>1, <1>2, LibraryInv, PTL DEF Spec

\* A first import that fails lists nothing, and what is listed from the data folder
\* is whole unless an import over an older copy was cut short (packs.ts).
THEOREM ImportsAreWhole == Spec => []ImportedIsWhole
<1>1. Init => ImportedIsWhole
  BY DEF Init, ImportedIsWhole
<1>2. Inv /\ ImportedIsWhole /\ [Next]_vars => ImportedIsWhole'
  <2> SUFFICES ASSUME Inv, ImportedIsWhole, [Next]_vars,
                      NEW p \in Packs, p \notin hist'.cut, index'[p] # Nothing, index'[p].root = Disk
               PROVE  disk'[p] # Nothing /\ disk'[p].ok
    BY DEF ImportedIsWhole, Usable, RootOf
  <2>1. p \notin hist.cut /\ index[p] # Nothing /\ index[p].root = Disk
          => disk[p] # Nothing /\ disk[p].ok
    BY DEF ImportedIsWhole, Usable, RootOf
  <2>2. CASE Import
    <3>1. PICK c \in Contents, stage \in {"copy", "index", "done"} :
            /\ hist.updates < MaxUpdates /\ c.ok /\ Installed(c, stage)
            /\ hist' = [hist EXCEPT !.updates = @ + 1,
                                !.cut = IF stage = "done" THEN @ \ {c.id}
                                        ELSE IF disk[c.id] = Nothing THEN @ ELSE @ \cup {c.id},
                                !.mixed = @ \/ Mixed(disk', steam)]
            /\ UNCHANGED <<items, quar, steam, live>>
      BY <2>2 DEF Import
    <3>2. c \in Content
      BY LibraryAssumption DEF Content
    <3>3. CASE p # c.id
      <4>1. disk'[p] = disk[p] /\ index'[p] = index[p]
        BY <3>1, <3>3 DEF Installed, Inv, Types
      <4>2. p \notin hist.cut
        BY <3>1, <3>3 DEF Inv, Types, Histories
      <4>3. QED BY <2>1, <4>1, <4>2
    <3>4. CASE p = c.id /\ stage = "done"
      <4>1. disk'[p] = c
        BY <3>1, <3>4 DEF Installed, Inv, Types
      <4>2. QED BY <3>1, <3>2, <4>1, NothingElse
    <3>5. CASE p = c.id /\ stage # "done"
      <4>1. disk[p] = Nothing
        BY <3>1, <3>5 DEF Inv, Types, Histories
      <4>2. index'[p] = index[p]
        BY <3>1, <3>5 DEF Installed
      <4>3. QED BY <4>1, <4>2 DEF Inv, Rooted
    <3>6. QED BY <3>3, <3>4, <3>5
  <2>3. CASE SteamUpdate \/ SteamRemove
    BY <2>1, <2>3, SteamMarks
  <2>4. CASE Sync
    <3>1. PICK i \in Items, stage \in {"first", "second", "done"} :
            /\ steam[i] # Nothing /\ Outcome(i, stage) /\ UNCHANGED <<disk, steam, live>>
            /\ IF steam[i].content.ok THEN Register(i, stage) ELSE Quarantine(i, stage)
      BY <2>4, Synced
    <3>2. i # Disk /\ i # p
      BY LibraryAssumption
    <3>3. index'[p] = index[p]
      <4>1. CASE steam[i].content.ok
        BY <3>1, <3>2, <4>1, RegisterMarks
      <4>2. CASE ~steam[i].content.ok
        BY <3>1, <4>2, QuarantineMarks
      <4>3. QED BY <4>1, <4>2
    <3>4. p \notin hist.cut
      BY <3>1, <3>2 DEF Outcome
    <3>5. QED BY <2>1, <3>1, <3>3, <3>4
  <2>5. CASE Unsubscribe
    <3>1. PICK q \in Packs, stage \in {"first", "done"} : TakesBack(q, stage)
      BY <2>5, Unsubscribed
    <3>2. index'[p] = index[p] /\ p \notin hist.cut /\ disk' = disk
      BY <3>1 DEF TakesBack, Inv, Types
    <3>3. QED BY <2>1, <3>2
  <2>6. CASE CreateSession \/ StartSession \/ EndSession \/ UNCHANGED vars
    BY <2>1, <2>6 DEF CreateSession, StartSession, EndSession, vars
  <2>7. QED BY <2>2, <2>3, <2>4, <2>5, <2>6 DEF Next
<1>3. QED BY <1>1, <1>2, LibraryInv, PTL DEF Spec

\* No pack that loads leaves the library under a session of it that has not ended:
\* not by an unsubscription, and not by a sync that quarantines its folder
\* (workshop.ts, the guard of DELETE).
THEOREM SessionsAreSpared == Spec => UnsubscribeSpares
<1>1. Inv /\ [Next]_vars =>
        [\A p \in Packs :
           (/\ ~hist.mixed /\ index[p] # Nothing /\ index'[p] = Nothing
            /\ Usable(p) /\ index[p].scens = RootOf(p).scens)
           => \A s \in OfferedBy(p) : live[s] \notin {"NotStarted", "Running"}]_vars
  <2> SUFFICES ASSUME Inv, Next, NEW p \in Packs, ~hist.mixed, index[p] # Nothing,
                      index'[p] = Nothing, Usable(p), index[p].scens = RootOf(p).scens,
                      NEW s \in OfferedBy(p)
               PROVE  live[s] \notin {"NotStarted", "Running"}
    BY DEF vars
  <2>1. s \in index[p].scens
    BY DEF OfferedBy
  <2>2. ASSUME Sync PROVE FALSE
    <3>1. PICK i \in Items, stage \in {"first", "second", "done"} :
            /\ steam[i] # Nothing
            /\ IF steam[i].content.ok THEN Register(i, stage) ELSE Quarantine(i, stage)
      BY <2>2, Synced
    <3>2. ~steam[i].content.ok
      BY <3>1, RegisterMarks
    <3>3. items[i] # Nothing /\ items[i].pack = p
      BY <3>1, <3>2, QuarantineMarks
    <3>4. steam[i].content.id = p /\ disk[p] = Nothing
      BY <3>3, OneFolder
    <3>5. index[p].root # Disk
      BY <3>4 DEF Usable, RootOf
    <3>6. index[p].root \in Items
      BY <3>5 DEF Inv, Types, Entries
    <3>7. index[p].root = i
      BY <3>1, <3>4, <3>6, OneFolder
    <3>8. QED BY <3>2, <3>5, <3>7 DEF Usable, RootOf
  <2>3. CASE Unsubscribe
    <3>1. PICK q \in Packs, stage \in {"first", "done"} :
            /\ TakesBack(q, stage)
            /\ index[q] # Nothing => \A t \in index[q].scens : ~Active(t)
      BY <2>3, Unsubscribed
    <3>2. p = q
      BY <3>1 DEF TakesBack, Inv, Types
    <3>3. QED BY <2>1, <3>1, <3>2 DEF Active
  <2>4. ~Import /\ ~SteamUpdate /\ ~SteamRemove /\ ~CreateSession /\ ~StartSession /\ ~EndSession
    <3>1. ASSUME Import PROVE FALSE
      <4>1. \A q \in Packs : index'[q] = Nothing => index[q] = Nothing
        BY <3>1, ImportMarks
      <4>2. QED BY <4>1
    <3>2. index' # index
      OBVIOUS
    <3>3. ~SteamUpdate /\ ~SteamRemove
      BY <3>2, SteamMarks
    <3>4. ~CreateSession /\ ~StartSession /\ ~EndSession
      BY <3>2 DEF CreateSession, StartSession, EndSession
    <3>5. QED BY <3>1, <3>3, <3>4
  <2>5. QED BY <2>2, <2>3, <2>4 DEF Next
<1>2. QED BY <1>1, LibraryInv, PTL DEF Spec, UnsubscribeSpares

\* What the run checks of the library's four stores, for any set of packs, scenarios
\* and workshop items: they agree through every sync, import, quarantine and death
\* between their separate writes.
THEOREM LibraryAgrees == Spec => []StoresAgree
<1>1. /\ QuarantinedIsOut /\ ItemsIndexed /\ WorkshopBacked /\ ImportedIsWhole /\ OfferedOnce
      => StoresAgree
  BY DEF StoresAgree
<1>2. QED BY <1>1, QuarantineHolds, SkippedIsIndexed, WorkshopIsBacked, ImportsAreWhole,
             ScenariosOnce, PTL

-----------------------------------------------------------------------------
(* The workbench: its shelf is finite, and what lies on it is a folder of     *)
(* documents in which no file lies twice, whatever is edited or imported.     *)

Paths == DOMAIN Official.docs
Kinds == {"pack", "safety", "scenario", "npc", "rubric", "scene", "absent"}
Texts == {"good", "garbled", "list", "old", "misfit", "none"}
Names == {"safety", "s1", "s2", "npc1", "npc2", "rubric", "scene", "art", "gone", "outside"}
Documents ==
  {d \in [kind : Kinds, text : Texts, id : {"x", "y", "none"}, refs : Seq(Names)] :
     d.kind = "scenario" => d.refs # <<>>}
Dropped == [what : {"script", "symlink", "binary"}, file : {"f1", "f2"}]
Folders ==
  {b \in [docs : [Paths -> Documents], stray : Seq(Dropped), scenarios : Seq(Paths),
          entries : Seq(Names), version : Nat \X Nat \X Nat, unsafe : BOOLEAN] :
     \A i, j \in 1..Len(b.stray) : i # j => b.stray[i].file # b.stray[j].file}

\* What is on the shelf is well formed, and no file lies in a folder twice.
BenchInv ==
  /\ IsFiniteSet(DOMAIN local)
  /\ \A s \in DOMAIN local : local[s] \in Folders
  /\ archive # Bench!NoPack => archive \in Folders

LEMMA AbsentDocument == Bench!Absent \in Documents
BY DEF Bench!Absent, Documents, Kinds, Texts

LEMMA OfficialFolder == Official \in Folders
<1> DEFINE D == Official.docs
<1>1. D \in [Paths -> Documents]
  <2>1. D = [manifest |-> Doc("pack", "x", <<"safety">>), safety |-> Doc("safety", "x", <<>>),
             s1 |-> Doc("scenario", "x", <<"npc1", "rubric">>),
             s2 |-> Doc("scenario", "y", <<"npc2", "rubric", "scene">>),
             npc1 |-> Doc("npc", "x", <<>>), npc2 |-> Doc("npc", "y", <<"art">>),
             rubric |-> Doc("rubric", "x", <<>>), scene |-> Doc("scene", "x", <<"art">>),
             gone |-> NoDoc, outside |-> NoDoc]
    BY DEF Official
  <2>2. Paths = {"manifest", "safety", "s1", "s2", "npc1", "npc2", "rubric", "scene", "gone",
                 "outside"}
    BY <2>1 DEF Paths
  <2>3. /\ Doc("pack", "x", <<"safety">>) \in Documents /\ Doc("safety", "x", <<>>) \in Documents
        /\ Doc("scenario", "x", <<"npc1", "rubric">>) \in Documents
        /\ Doc("scenario", "y", <<"npc2", "rubric", "scene">>) \in Documents
        /\ Doc("npc", "x", <<>>) \in Documents /\ Doc("npc", "y", <<"art">>) \in Documents
        /\ Doc("rubric", "x", <<>>) \in Documents /\ Doc("scene", "x", <<"art">>) \in Documents
        /\ NoDoc \in Documents
    BY DEF Doc, NoDoc, Documents, Kinds, Texts, Names
  <2>4. QED BY <2>1, <2>2, <2>3
<1>2. /\ Official.stray = <<>> /\ Official.scenarios = <<"s1", "s2">>
      /\ Official.entries = <<"s1">> /\ Official.version = <<1, 9, 0>>
      /\ Official.unsafe = FALSE
      /\ Official = [docs |-> D, stray |-> <<>>, scenarios |-> <<"s1", "s2">>,
                     entries |-> <<"s1">>, version |-> <<1, 9, 0>>, unsafe |-> FALSE]
  BY DEF Official
<1>3. "s1" \in Paths /\ "s2" \in Paths
  BY DEF Paths, Official
<1> HIDE DEF D
<1>4. QED BY <1>1, <1>2, <1>3 DEF Folders, Names

\* What is edited stays a folder: one document replaced, its stray files, its
\* version and its entries.
LEMMA FolderEdited ==
  ASSUME NEW b \in Folders, NEW path, NEW doc \in Documents
  PROVE  [b EXCEPT !.docs[path] = doc] \in Folders
BY DEF Folders

LEMMA FolderStrewn ==
  ASSUME NEW b \in Folders, NEW q \in Seq(Dropped),
         \A i, j \in 1..Len(q) : i # j => q[i].file # q[j].file
  PROVE  [b EXCEPT !.stray = q] \in Folders
BY DEF Folders

LEMMA FolderRelabelled ==
  ASSUME NEW b \in Folders, NEW v \in Nat \X Nat \X Nat, NEW e \in Seq(Names)
  PROVE  [b EXCEPT !.version = v, !.entries = e] \in Folders
BY DEF Folders

\* A document that names other files.
LEMMA NewRefs ==
  ASSUME NEW doc \in Documents, NEW q \in Seq(Names), q # <<>>
  PROVE  [doc EXCEPT !.refs = q] \in Documents
BY DEF Documents

LEMMA ForeignFolders == Foreign \subseteq Folders
<1>1. [Official EXCEPT !.unsafe = TRUE] \in Folders
  BY OfficialFolder DEF Folders
<1>2. [Official EXCEPT !.stray = <<[what |-> "binary", file |-> "f1"]>>] \in Folders
  <2> DEFINE q == <<[what |-> "binary", file |-> "f1"]>>
  <2>1. q \in Seq(Dropped) /\ \A i, j \in 1..Len(q) : i # j => q[i].file # q[j].file
    BY DEF Dropped
  <2> HIDE DEF q
  <2>2. [Official EXCEPT !.stray = q] \in Folders
    BY <2>1, OfficialFolder, FolderStrewn
  <2>3. QED BY <2>2 DEF q
<1>3. [Official EXCEPT !.version = <<1, 10, 0>>, !.docs["manifest"].id = "y"] \in Folders
  <2> DEFINE v == <<1, 10, 0>>
             b == [Official EXCEPT !.version = v]
             m == [Official.docs["manifest"] EXCEPT !.id = "y"]
  <2>1. v \in Nat \X Nat \X Nat /\ "manifest" \in Paths
    BY DEF Paths, Official
  <2>2. Official.docs["manifest"] \in Documents
    BY <2>1, OfficialFolder DEF Folders
  <2>3. m \in Documents
    BY <2>2 DEF Documents
  <2> HIDE DEF v, m
  <2>4. b \in Folders
    BY <2>1, OfficialFolder DEF Folders
  <2> HIDE DEF b
  <2>5. [b EXCEPT !.docs["manifest"] = m] \in Folders
    BY <2>3, <2>4, FolderEdited
  <2>6. [Official EXCEPT !.version = v, !.docs["manifest"].id = "y"]
          = [b EXCEPT !.docs["manifest"] = m]
    BY OfficialFolder DEF b, m, Folders
  <2>7. QED BY <2>5, <2>6 DEF v
<1>4. QED BY <1>1, <1>2, <1>3 DEF Foreign

\* What a copy leaves: the folder under the new slug and all others as they were.
LEMMA CopiedFolder ==
  ASSUME BenchInv, NEW slug, NEW b \in Folders, Bench!Copied(slug, b)
  PROVE  /\ DOMAIN local' = DOMAIN local \cup {slug}
         /\ \A s \in DOMAIN local \ {slug} : local'[s] = local[s]
         /\ local'[slug] \in Folders
<1>1. [b EXCEPT !.docs["safety"] = Bench!Absent] \in Folders
  BY FolderEdited, AbsentDocument
<1>2. PICK c \in Folders : local' = Bench!Put(slug, c)
  BY <1>1 DEF Bench!Copied
<1>3. QED BY <1>2 DEF Bench!Put, Bench!Slugs

LEMMA CopiedKeeps ==
  ASSUME BenchInv, NEW slug, NEW b \in Folders, Bench!Copied(slug, b), archive' = archive
  PROVE  BenchInv'
<1>1. /\ DOMAIN local' = DOMAIN local \cup {slug}
      /\ \A s \in DOMAIN local' : local'[s] \in Folders
  BY CopiedFolder DEF BenchInv
<1>2. IsFiniteSet(DOMAIN local')
  BY <1>1, FS_AddElement DEF BenchInv
<1>3. QED BY <1>1, <1>2 DEF BenchInv, Bench!NoPack

LEMMA Importables == BenchInv => Bench!Importable \subseteq Folders
BY ForeignFolders DEF BenchInv, Bench!Importable

LEMMA EditedDocuments == \A doc \in Documents : Bench!Edited(doc) \subseteq Documents
<1> SUFFICES ASSUME NEW doc \in Documents, NEW e \in Bench!Edited(doc) PROVE e \in Documents
  OBVIOUS
<1>1. CASE \E t \in {"garbled", "old", "misfit"} : e = [doc EXCEPT !.text = t]
  BY <1>1 DEF Documents, Texts
<1>2. CASE \E i \in {"x", "y"} : e = [doc EXCEPT !.id = i]
  BY <1>2 DEF Documents
<1>3. CASE doc.kind = "npc" /\ e = [doc EXCEPT !.refs = <<Bench!Outside>>]
  <2> DEFINE q == <<Bench!Outside>>
  <2>1. q \in Seq(Names) /\ q # <<>>
    BY DEF Names, Bench!Outside
  <2> HIDE DEF q
  <2>2. [doc EXCEPT !.refs = q] \in Documents
    BY <2>1, NewRefs
  <2>3. QED BY <1>3, <2>2 DEF q
<1>4. CASE /\ doc.kind = "scenario"
           /\ \E r \in {"npc1", "gone", Bench!Outside} : e = [doc EXCEPT !.refs = <<r>> \o Tail(@)]
  <2>1. PICK r \in Names : e = [doc EXCEPT !.refs = <<r>> \o Tail(doc.refs)]
    BY <1>4 DEF Bench!Outside, Names
  <2>2. doc.refs \in Seq(Names) /\ doc.refs # <<>>
    BY <1>4 DEF Documents
  <2> DEFINE q == <<r>> \o Tail(doc.refs)
  <2>3. q \in Seq(Names) /\ q # <<>>
    BY <2>2
  <2>4. e = [doc EXCEPT !.refs = q]
    BY <2>1
  <2> HIDE DEF q
  <2>5. QED BY <2>3, <2>4, NewRefs
<1>5. QED BY <1>1, <1>2, <1>3, <1>4 DEF Bench!Edited

LEMMA BenchStep == BenchInv /\ [MCNext]_<<part, Library, Desk>> => BenchInv'
<1> SUFFICES ASSUME BenchInv, [MCNext]_<<part, Library, Desk>> PROVE BenchInv'
  OBVIOUS
<1>u. ASSUME DOMAIN local' = DOMAIN local, \A s \in DOMAIN local : local'[s] \in Folders,
             archive' = archive
      PROVE  BenchInv'
  BY <1>u DEF BenchInv, Bench!NoPack
<1>1. CASE UNCHANGED Desk
  BY <1>1, <1>u DEF Desk, BenchInv
<1>2. CASE Bench!Write
  <2>1. PICK slug \in DOMAIN local, path \in Paths :
          /\ archive' = archive
          /\ LET old == IF local[slug].docs[path] = Bench!Absent THEN Official.docs[path]
                        ELSE local[slug].docs[path]
             IN \E doc \in Bench!Edited(old) : local' = [local EXCEPT ![slug].docs[path] = doc]
    BY <1>2 DEF Bench!Write, Bench!Slugs, Paths
  <2>2. local[slug] \in Folders
    BY DEF BenchInv
  <2>3. local[slug].docs[path] \in Documents /\ Official.docs[path] \in Documents
    BY <2>2, OfficialFolder DEF Folders
  <2>4. PICK doc \in Documents : local' = [local EXCEPT ![slug].docs[path] = doc]
    BY <2>1, <2>3, EditedDocuments
  <2>5. [local[slug] EXCEPT !.docs[path] = doc] \in Folders
    BY <2>2, FolderEdited
  <2>6. \A s \in DOMAIN local : local'[s] \in Folders
    BY <2>4, <2>5 DEF BenchInv
  <2>7. QED BY <1>u, <2>1, <2>4, <2>6
<1>3. CASE Bench!Stray
  <2>1. PICK slug \in DOMAIN local, what \in {"script", "symlink", "binary"},
             file \in {"f1", "f2"} :
          /\ \A s \in Bench!ToSet(local[slug].stray) : s.file # file
          /\ local' = [local EXCEPT ![slug].stray = Append(@, [what |-> what, file |-> file])]
          /\ archive' = archive
    BY <1>3 DEF Bench!Stray, Bench!Slugs
  <2> DEFINE b == local[slug]
             q == Append(b.stray, [what |-> what, file |-> file])
             c == [b EXCEPT !.stray = q]
  <2>2. b \in Folders /\ b.stray \in Seq(Dropped)
    BY DEF BenchInv, Folders
  <2>3. [what |-> what, file |-> file] \in Dropped
    BY DEF Dropped
  <2>4. \A i \in 1..Len(b.stray) : b.stray[i].file # file
    BY <2>1, <2>2 DEF Bench!ToSet
  <2>5. q \in Seq(Dropped) /\ \A i, j \in 1..Len(q) : i # j => q[i].file # q[j].file
    BY <2>2, <2>3, <2>4 DEF Folders
  <2> HIDE DEF q
  <2>6. c \in Folders
    BY <2>2, <2>5, FolderStrewn
  <2>7. local' = [local EXCEPT ![slug] = c]
    BY <2>1 DEF q
  <2> HIDE DEF c
  <2>8. QED BY <1>u, <2>1, <2>6, <2>7 DEF BenchInv
<1>4. CASE Bench!Relabel
  <2>1. PICK slug \in DOMAIN local, v \in Nat \X Nat \X Nat, e \in Seq(Names) :
          /\ local' = [local EXCEPT ![slug].version = v, ![slug].entries = e]
          /\ archive' = archive
    <3>1. <<1, 10, 0>> \in Nat \X Nat \X Nat /\ <<2, 0, 0>> \in Nat \X Nat \X Nat
      OBVIOUS
    <3>2. /\ <<"s2">> \in Seq(Names) /\ <<"npc1">> \in Seq(Names)
          /\ <<Bench!Outside>> \in Seq(Names)
      BY DEF Names, Bench!Outside
    <3>3. PICK slug \in DOMAIN local, v \in {<<1, 10, 0>>, <<2, 0, 0>>},
               e \in {<<"s2">>, <<"npc1">>, <<Bench!Outside>>} :
            /\ local' = [local EXCEPT ![slug].version = v, ![slug].entries = e]
            /\ archive' = archive
      BY <1>4 DEF Bench!Relabel, Bench!Slugs
    <3>4. QED BY <3>1, <3>2, <3>3
  <2> DEFINE c == [local[slug] EXCEPT !.version = v, !.entries = e]
  <2>2. c \in Folders
    BY FolderRelabelled DEF BenchInv
  <2>3. local' = [local EXCEPT ![slug] = c]
    BY <2>1
  <2> HIDE DEF c
  <2>4. QED BY <1>u, <2>1, <2>2, <2>3 DEF BenchInv
<1>5. CASE Bench!Export
  BY <1>5 DEF Bench!Export, Bench!Slugs, BenchInv
<1>6. CASE Bench!Import \/ Bench!ImportOver
  BY <1>6, Importables, CopiedKeeps DEF Bench!Import, Bench!ImportOver
<1>7. CASE Bench!CopyToLocal
  BY <1>7, OfficialFolder, CopiedKeeps DEF Bench!CopyToLocal
<1>8. QED
  <2>1. UNCHANGED Desk \/ Bench!Next
    BY DEF MCNext, Desk, Library
  <2>2. QED BY <1>1, <1>2, <1>3, <1>4, <1>5, <1>6, <1>7, <2>1 DEF Bench!Next

LEMMA BenchInit == MCInit => BenchInv
<1> SUFFICES ASSUME MCInit PROVE BenchInv
  OBVIOUS
<1>1. DOMAIN local = {} /\ archive = Bench!NoPack
  BY DEF MCInit, Bench!Init
<1>2. QED BY <1>1, FS_EmptySet DEF BenchInv

LEMMA BenchAlways == MCSpec => []BenchInv
BY BenchInit, BenchStep, PTL DEF MCSpec

\* A set of numbers has a least one.
LEMMA LeastNumber ==
  ASSUME NEW T \in SUBSET Nat, T # {}
  PROVE  \E x \in T : \A y \in T : x <= y
<1>1. \E x \in T : \A y \in T : ~(<<y, x>> \in OpToRel(<, Nat))
  BY NatLessThanWellFounded, WFMin
<1>2. \A x, y \in T : ~(<<y, x>> \in OpToRel(<, Nat)) => x <= y
  BY DEF OpToRel
<1>3. QED BY <1>1, <1>2

\* The workbench counts as this module does.
LEMMA SameCount == ASSUME NEW S PROVE Bench!Cardinality(S) = Cardinality(S)
BY DEF Bench!Cardinality, Cardinality

\* There are more suffixes than packs, so one is free.
LEMMA SuffixLeft ==
  ASSUME IsFiniteSet(DOMAIN local), Cardinality(DOMAIN local) < MaxPacks,
         NEW name, NEW mark, NEW first \in {1, 2}
  PROVE  \E k \in first..(MaxPacks + 2) : <<name, mark, k>> \notin DOMAIN local
<1> SUFFICES ASSUME \A k \in first..(MaxPacks + 2) : <<name, mark, k>> \in DOMAIN local
             PROVE  FALSE
  OBVIOUS
<1> DEFINE I == first..(MaxPacks + 2)
           f == [k \in I |-> <<name, mark, k>>]
<1>1. f \in [I -> DOMAIN local] /\ \A k, m \in I : f[k] = f[m] => k = m
  OBVIOUS
<1>2. f \in Injection(I, DOMAIN local)
  BY <1>1 DEF Injection, IsInjective
<1> HIDE DEF f
<1>3. IsFiniteSet(I) /\ Cardinality(I) <= Cardinality(DOMAIN local)
  BY <1>2, FS_Injection
<1>4. Cardinality(I) = MaxPacks + 2 - first + 1
  BY FS_Interval, BoundsAssumption
<1>5. Cardinality(DOMAIN local) \in Nat
  BY FS_CardinalityType
<1>6. QED BY <1>3, <1>4, <1>5, BoundsAssumption

LEMMA FreeSlugIsFree ==
  ASSUME IsFiniteSet(DOMAIN local), Cardinality(DOMAIN local) < MaxPacks, NEW name, NEW mark
  PROVE  Bench!FreeSlug(name, mark) \notin DOMAIN local
<1>1. CASE <<name, "", 1>> \notin DOMAIN local
  BY <1>1 DEF Bench!FreeSlug, Bench!Free, Bench!Slugs
<1>2. CASE <<name, "", 1>> \in DOMAIN local
  <2> DEFINE first == IF mark = "copy" THEN 1 ELSE 2
             Fits(k) == /\ <<name, mark, k>> \notin DOMAIN local
                        /\ \A j \in first..(k - 1) : <<name, mark, j>> \in DOMAIN local
             T == {k \in first..(MaxPacks + 2) : <<name, mark, k>> \notin DOMAIN local}
  <2>1. first \in {1, 2}
    OBVIOUS
  <2> HIDE DEF first
  <2>2. T # {} /\ T \in SUBSET Nat
    <3>1. \E k \in first..(MaxPacks + 2) : <<name, mark, k>> \notin DOMAIN local
      BY <2>1, SuffixLeft
    <3>2. first..(MaxPacks + 2) \subseteq Nat
      BY <2>1, BoundsAssumption
    <3>3. QED BY <3>1, <3>2
  <2>3. PICK x \in T : \A y \in T : x <= y
    BY <2>2, LeastNumber
  <2>4. x \in first..(MaxPacks + 2) /\ Fits(x)
    BY <2>1, <2>3, BoundsAssumption
  <2>5. Bench!FreeSlug(name, mark) = <<name, mark, CHOOSE k \in first..(MaxPacks + 2) : Fits(k)>>
    BY <1>2 DEF Bench!FreeSlug, Bench!Free, Bench!Slugs, first
  <2>6. QED BY <2>4, <2>5
<1>3. QED BY <1>1, <1>2

\* However many names are taken, an import that was not told to overwrite and a
\* copy find a free one: no pack of the creator's is replaced unasked.
THEOREM NothingIsOverwritten == MCSpec => NothingOverwritten
<1>1. BenchInv => (Bench!Import \/ Bench!CopyToLocal =>
                     \A s \in Bench!Slugs : local'[s] = local[s])
  <2> SUFFICES ASSUME BenchInv, Bench!Import \/ Bench!CopyToLocal, NEW s \in DOMAIN local
               PROVE  local'[s] = local[s]
    BY DEF Bench!Slugs
  <2>1. IsFiniteSet(DOMAIN local)
    BY DEF BenchInv
  <2>2. CASE Bench!Import
    <3>1. PICK b \in Folders :
            /\ Cardinality(DOMAIN local) < MaxPacks
            /\ Bench!Copied(Bench!FreeSlug(b.docs["manifest"].id, ""), b)
      BY <2>2, Importables, SameCount DEF Bench!Import, Bench!Slugs
    <3> DEFINE slug == Bench!FreeSlug(b.docs["manifest"].id, "")
    <3>2. slug \notin DOMAIN local
      BY <2>1, <3>1, FreeSlugIsFree
    <3>3. Bench!Copied(slug, b)
      BY <3>1
    <3> HIDE DEF slug
    <3>4. QED BY <3>2, <3>3, CopiedFolder
  <2>3. CASE Bench!CopyToLocal
    <3> DEFINE slug == Bench!FreeSlug("x", "copy")
    <3>1. Cardinality(DOMAIN local) < MaxPacks /\ Bench!Copied(slug, Official)
      BY <2>3, SameCount DEF Bench!CopyToLocal, Bench!Slugs
    <3>2. slug \notin DOMAIN local
      BY <2>1, <3>1, FreeSlugIsFree
    <3> HIDE DEF slug
    <3>3. QED BY <3>1, <3>2, CopiedFolder, OfficialFolder
  <2>4. QED BY <2>2, <2>3
<1>2. QED BY <1>1, BenchAlways, PTL
          DEF MCSpec, NothingOverwritten, Bench!NothingOverwritten

-----------------------------------------------------------------------------
(* What the workbench and the loader say of a folder. *)

\* Code and file of a result are what it was made of.
LEMMA ResultParts ==
  ASSUME NEW code, NEW file
  PROVE  Bench!Found(code, file).code = code /\ Bench!Found(code, file).file = file
BY DEF Bench!Found

\* The loader's scan decides before anything is read.
LEMMA ScanDecides ==
  ASSUME NEW b \in Folders, b.stray # <<>>
  PROVE  LET first == b.stray[1]
         IN /\ Bench!LoadPack(b) = Bench!ScanResult(first)
            /\ Bench!LoadPack(b).file = first.file
            /\ Bench!LoadPack(b).code = IF first.what = "binary" THEN "FORBIDDEN_BINARY"
                                        ELSE "FORBIDDEN_FILE"
<1> DEFINE r == Bench!ScanResult(b.stray[1])
<1>1. Head(b.stray) = b.stray[1]
  BY DEF Folders
<1>2. Bench!Scan(b) = r
  BY <1>1 DEF Bench!Scan
<1>3. /\ r.file = b.stray[1].file
      /\ r.code = IF b.stray[1].what = "binary" THEN "FORBIDDEN_BINARY" ELSE "FORBIDDEN_FILE"
  BY ResultParts DEF Bench!ScanResult
<1>4. Bench!Fine.code = "ok"
  BY ResultParts DEF Bench!Fine
<1> HIDE DEF r
<1>5. r # Bench!Fine
  BY <1>3, <1>4
<1>6. Bench!LoadPack(b) = r
  BY <1>2, <1>5 DEF Bench!LoadPack
<1>7. QED BY <1>3, <1>6 DEF r

\* The place of the loader's report behind those of the scan, if it is made.
Added(b) ==
  IF Bench!LoadPack(b).code = "ok" \/ Bench!Dropped(b, Bench!LoadPack(b)) THEN {}
  ELSE {Len(b.stray) + 1}

LEMMA IssuesOf ==
  ASSUME NEW b \in Folders
  PROVE  LET issues == Bench!Issues(b)
         IN /\ DOMAIN issues = Bench!ScanForbiddenFiles(b) \cup Added(b)
            /\ \A i \in Added(b) : /\ issues[i].rule = Bench!LoadPack(b).code
                                   /\ issues[i].file = Bench!LoadPack(b).file
            /\ \A i \in Bench!ScanForbiddenFiles(b) : issues[i].file = b.stray[i].file
<1>1. Len(b.stray) \in Nat
  BY DEF Folders
<1>2. Bench!ScanForbiddenFiles(b) \cap Added(b) = {}
  BY <1>1 DEF Bench!ScanForbiddenFiles, Added
<1>3. \A r : Bench!Issue(r).rule = r.code /\ Bench!Issue(r).file = r.file
  BY DEF Bench!Issue
<1>4. \A i \in 1..Len(b.stray) : Bench!ScanResult(b.stray[i]).file = b.stray[i].file
  BY ResultParts DEF Bench!ScanResult
<1>5. Bench!Issues(b) = [i \in Bench!ScanForbiddenFiles(b) \cup Added(b) |->
                           IF i \in Added(b) THEN Bench!Issue(Bench!LoadPack(b))
                           ELSE Bench!Issue(Bench!ScanResult(b.stray[i]))]
  BY DEF Bench!Issues, Added
<1>6. QED BY <1>2, <1>3, <1>4, <1>5 DEF Bench!ScanForbiddenFiles

\* The first finding is the loader's own, so the report that is dropped is never
\* the only one.
LEMMA ValidLoads == ASSUME NEW b \in Folders PROVE Bench!Valid(b) <=> Bench!Loads(b)
<1>1. ASSUME Bench!Loads(b) PROVE Bench!Valid(b)
  <2>1. b.stray = <<>>
    BY <1>1, ScanDecides DEF Bench!Loads
  <2>2. Bench!ScanForbiddenFiles(b) = {} /\ Added(b) = {}
    BY <1>1, <2>1 DEF Bench!Loads, Bench!ScanForbiddenFiles, Added
  <2>3. QED BY <2>2, IssuesOf DEF Bench!Valid
<1>2. ASSUME Bench!Valid(b) PROVE Bench!Loads(b)
  <2>1. Bench!ScanForbiddenFiles(b) = {} /\ Added(b) = {}
    BY <1>2, IssuesOf DEF Bench!Valid
  <2>2. ~Bench!Dropped(b, Bench!LoadPack(b))
    BY <2>1 DEF Bench!Dropped, Bench!ToSet, Bench!ScanForbiddenFiles, Folders
  <2>3. QED BY <2>1, <2>2 DEF Added, Bench!Loads
<1>3. QED BY <1>1, <1>2

LEMMA OnceEach ==
  ASSUME NEW b \in Folders
  PROVE  LET issues == Bench!Issues(b)
         IN /\ \A i, j \in DOMAIN issues :
                 i # j /\ issues[i].rule \in Bench!Security => issues[i].file # issues[j].file
            /\ Bench!LoadPack(b).code = "FORBIDDEN_BINARY"
                 => \E i \in DOMAIN issues : issues[i].rule = "FORBIDDEN_BINARY"
<1> DEFINE issues == Bench!Issues(b)
           r == Bench!LoadPack(b)
           F == Bench!ScanForbiddenFiles(b)
<1>0. \A i \in F : i \in 1..Len(b.stray) /\ b.stray[i].what # "binary"
  BY DEF Bench!ScanForbiddenFiles
<1>1. ASSUME NEW i \in F, NEW j \in F, i # j PROVE issues[i].file # issues[j].file
  BY <1>0, <1>1, IssuesOf DEF Folders
<1>2. ASSUME NEW i \in F, NEW j \in Added(b) PROVE issues[i].file # issues[j].file
  <2>1. b.stray # <<>> /\ i \in DOMAIN b.stray
    BY <1>0 DEF Folders
  <2>2. r.code \in Bench!Security
    BY <2>1, ScanDecides DEF Bench!Security
  <2>3. ~Bench!Dropped(b, r)
    BY DEF Added
  <2>4. b.stray[i].file # r.file
    BY <1>0, <2>1, <2>2, <2>3 DEF Bench!Dropped, Bench!ToSet
  <2>5. QED BY <2>4, IssuesOf
<1>3. \A i, j \in Added(b) : i = j
  BY DEF Added
<1>4. ASSUME r.code = "FORBIDDEN_BINARY", Added(b) = {} PROVE FALSE
  <2>1. Bench!Dropped(b, r)
    BY <1>4 DEF Added
  <2>2. PICK i \in DOMAIN b.stray : b.stray[i].what # "binary" /\ b.stray[i].file = r.file
    BY <2>1 DEF Bench!Dropped, Bench!ToSet
  <2>3. i \in 1..Len(b.stray) /\ 1 \in 1..Len(b.stray) /\ b.stray # <<>>
    BY <2>2 DEF Folders
  <2>4. b.stray[1].what = "binary" /\ b.stray[1].file = r.file
    BY <1>4, <2>3, ScanDecides
  <2>5. QED BY <2>2, <2>3, <2>4 DEF Folders
<1>5. DOMAIN issues = F \cup Added(b)
  BY IssuesOf
<1>6. \A i \in Added(b) : issues[i].rule = r.code
  BY IssuesOf
<1> HIDE DEF issues, r, F
<1>7. \A i, j \in DOMAIN issues : i # j => issues[i].file # issues[j].file
  BY <1>1, <1>2, <1>3, <1>5
<1>8. r.code = "FORBIDDEN_BINARY" => \E i \in DOMAIN issues : issues[i].rule = "FORBIDDEN_BINARY"
  BY <1>4, <1>5, <1>6
<1>9. QED BY <1>7, <1>8 DEF issues, r

\* The bundle of a scenario: the first of its id is found, and what it names is
\* among what all scenarios reach.
LEMMA BundleResolves ==
  ASSUME NEW b \in Folders, NEW f \in Bench!ToSet(b.scenarios)
  PROVE  Bench!ResolveBundle(b, b.docs[f].id)
<1>1. b.scenarios \in Seq(Paths) /\ \A p \in Paths : b.docs[p].refs \in Seq(Names)
  BY DEF Folders, Documents
<1> DEFINE n == Len(b.scenarios)
           doc(i) == b.docs[b.scenarios[i]]
           T == {i \in 1..n : doc(i).id = b.docs[f].id}
<1>2. T # {} /\ T \in SUBSET Nat
  BY <1>1 DEF Bench!ToSet
<1>3. PICK i \in T : \A j \in T : i <= j
  BY <1>2, LeastNumber
<1>4. i \in 1..n /\ doc(i).id = b.docs[f].id /\ \A j \in 1..(i - 1) : doc(j).id # b.docs[f].id
  BY <1>1, <1>3
<1>5. ASSUME NEW k \in 1..Len(doc(i).refs) PROVE doc(i).refs[k] \in Bench!Reached(b, k)
  <2>1. b.scenarios[i] \in Bench!ToSet(b.scenarios) /\ b.scenarios[i] \in Paths
    BY <1>1, <1>4 DEF Bench!ToSet
  <2>2. Len(doc(i).refs) >= k
    BY <1>1, <1>5, <2>1
  <2>3. QED BY <2>1, <2>2 DEF Bench!Reached
<1>6. QED BY <1>4, <1>5 DEF Bench!ResolveBundle

-----------------------------------------------------------------------------
(* The choice between packs of one id. *)

Triples == Nat \X Nat \X Nat

LEMMA FolderVersion == \A b \in Folders : b.version \in Triples
BY DEF Folders, Triples

\* Versions are totally ordered.
LEMMA NewerOrders ==
  ASSUME NEW u \in Triples, NEW v \in Triples, NEW w \in Triples
  PROVE  /\ ~Bench!Newer(v, v)
         /\ Bench!Newer(u, v) => ~Bench!Newer(v, u)
         /\ Bench!Newer(u, v) /\ Bench!Newer(v, w) => Bench!Newer(u, w)
         /\ ~Bench!Newer(v, u) /\ Bench!Newer(w, u) => Bench!Newer(w, v)
         /\ ~Bench!Newer(u, v) /\ Bench!Newer(u, w) => Bench!Newer(v, w)
BY DEF Triples, Bench!Newer

\* Induction, for a set instead of a predicate.
LEMMA Induction ==
  ASSUME NEW G, 0 \in G, \A n \in Nat : n \in G => n + 1 \in G
  PROVE  Nat \subseteq G
<1> DEFINE T == Nat \ G
<1> SUFFICES ASSUME T # {} PROVE FALSE
  OBVIOUS
<1>1. PICK x \in T : \A y \in T : x <= y
  BY LeastNumber
<1>2. x - 1 \in Nat /\ x - 1 \notin T
  BY <1>1
<1>3. QED BY <1>1, <1>2

\* The pack at place j goes before the one at place i: newer, or first among equals.
Beats(dirs, j, i) ==
  \/ Bench!Newer(dirs[j].version, dirs[i].version)
  \/ j < i /\ ~Bench!Newer(dirs[i].version, dirs[j].version)

\* Of some places in a sequence of packs one is beaten by no other.
LEMMA OneUnbeaten ==
  ASSUME NEW dirs \in Seq(Folders), NEW I \in SUBSET (1..Len(dirs)), I # {}
  PROVE  \E i \in I : \A j \in I : ~Beats(dirs, j, i)
<1> DEFINE B(k) == {i \in I : i <= k}
           G == {k \in Nat : B(k) # {} => \E i \in B(k) : \A j \in B(k) : ~Beats(dirs, j, i)}
<1>n. Len(dirs) \in Nat /\ \A i \in I : i \in Nat /\ 1 <= i /\ i <= Len(dirs)
  OBVIOUS
<1>t. \A i \in I : dirs[i].version \in Triples
  <2>1. \A i \in I : dirs[i] \in Folders
    OBVIOUS
  <2>2. QED BY <2>1, FolderVersion
<1>b. /\ B(0) = {} /\ B(Len(dirs)) = I
      /\ \A k \in Nat : B(k + 1) = IF k + 1 \in I THEN B(k) \cup {k + 1} ELSE B(k)
  <2>1. \A i \in I : ~(i <= 0)
    BY <1>n
  <2>2. \A k \in Nat, i \in I : i <= k + 1 <=> i <= k \/ i = k + 1
    BY <1>n
  <2>3. B(0) = {}
    BY <2>1
  <2>4. \A k \in Nat : B(k + 1) = IF k + 1 \in I THEN B(k) \cup {k + 1} ELSE B(k)
    BY <2>2
  <2>5. B(Len(dirs)) = I
    BY <1>n
  <2>6. QED BY <2>3, <2>4, <2>5
<1>c. \A k \in Nat : \A i \in B(k) : i \in I /\ i \in Nat /\ ~(k + 1 < i)
  BY <1>n
<1> HIDE DEF B
<1>1. 0 \in G
  BY <1>b
<1>2. ASSUME NEW k \in Nat, k \in G PROVE k + 1 \in G
  <2>1. CASE k + 1 \notin I
    <3>1. B(k + 1) = B(k)
      BY <1>b, <2>1
    <3>2. QED BY <1>2, <3>1
  <2>2. CASE k + 1 \in I /\ B(k) = {}
    <3>1. B(k + 1) = {k + 1}
      BY <1>b, <2>2
    <3>2. ~Beats(dirs, k + 1, k + 1)
      BY <1>t, <2>2, NewerOrders DEF Beats
    <3>3. QED BY <3>1, <3>2
  <2>3. CASE k + 1 \in I /\ B(k) # {}
    <3>1. PICK i \in B(k) : \A j \in B(k) : ~Beats(dirs, j, i)
      BY <1>2, <2>3
    <3>2. B(k + 1) = B(k) \cup {k + 1}
      BY <1>b, <2>3
    <3>3. CASE Bench!Newer(dirs[k + 1].version, dirs[i].version)
      <4>1. ASSUME NEW j \in B(k) PROVE ~Beats(dirs, j, k + 1)
        <5>1. ~Bench!Newer(dirs[j].version, dirs[i].version)
          BY <3>1 DEF Beats
        <5>2. dirs[i].version \in Triples /\ dirs[j].version \in Triples
              /\ dirs[k + 1].version \in Triples
          BY <1>t, <1>c, <2>3
        <5>3. Bench!Newer(dirs[k + 1].version, dirs[j].version)
          BY <3>3, <5>1, <5>2, NewerOrders
        <5>4. ~Bench!Newer(dirs[j].version, dirs[k + 1].version)
          BY <5>2, <5>3, NewerOrders
        <5>5. j \in Nat /\ ~(k + 1 < j)
          BY <1>c
        <5>6. QED BY <5>3, <5>4, <5>5 DEF Beats
      <4>2. ~Beats(dirs, k + 1, k + 1)
        BY <1>t, <2>3, NewerOrders DEF Beats
      <4>3. k + 1 \in B(k + 1) /\ \A j \in B(k + 1) : ~Beats(dirs, j, k + 1)
        BY <3>2, <4>1, <4>2
      <4>4. QED BY <4>3
    <3>4. CASE ~Bench!Newer(dirs[k + 1].version, dirs[i].version)
      <4>1. i \in Nat /\ ~(k + 1 < i)
        BY <1>c
      <4>2. ~Beats(dirs, k + 1, i)
        BY <3>4, <4>1 DEF Beats
      <4>3. i \in B(k + 1) /\ \A j \in B(k + 1) : ~Beats(dirs, j, i)
        BY <3>1, <3>2, <4>2
      <4>4. QED BY <4>3
    <3>5. QED BY <3>3, <3>4
  <2>4. QED BY <2>1, <2>2, <2>3
<1> HIDE DEF G
<1>3. Len(dirs) \in G
  BY <1>1, <1>2, <1>n, Induction
<1>4. QED BY <1>3, <1>b DEF G

\* Of the packs that share the id of one that loads exactly one is selected, which
\* that one does not beat.
LEMMA OneSelected ==
  ASSUME NEW dirs \in Seq(Folders), NEW j \in 1..Len(dirs), Bench!Loads(dirs[j])
  PROVE  \E i \in 1..Len(dirs) :
           /\ {c \in Bench!LoadPacksFromRoots(dirs) :
                 c.docs["manifest"].id = dirs[j].docs["manifest"].id} = {dirs[i]}
           /\ ~Beats(dirs, j, i)
<1> DEFINE id(k) == dirs[k].docs["manifest"].id
           I == {k \in 1..Len(dirs) : Bench!Loads(dirs[k]) /\ id(k) = id(j)}
           loaded == {k \in 1..Len(dirs) : Bench!Loads(dirs[k])}
           best == {k \in loaded : \A m \in loaded : id(m) = id(k) => ~Beats(dirs, m, k)}
<1>1. PICK i \in I : \A k \in I : ~Beats(dirs, k, i)
  BY OneUnbeaten
<1>2. Bench!LoadPacksFromRoots(dirs) = {dirs[k] : k \in best}
  BY DEF Bench!LoadPacksFromRoots, Beats
<1>3. i \in best /\ id(i) = id(j)
  BY <1>1
<1>4. ASSUME NEW k \in best, id(k) = id(j) PROVE k = i
  <2>1. ~Beats(dirs, k, i) /\ ~Beats(dirs, i, k)
    BY <1>1, <1>3, <1>4
  <2>2. dirs[i] \in Folders /\ dirs[k] \in Folders /\ i \in Nat /\ k \in Nat
    OBVIOUS
  <2>3. dirs[i].version \in Triples /\ dirs[k].version \in Triples
    BY <2>2, FolderVersion
  <2>4. QED BY <2>1, <2>2, <2>3, NewerOrders DEF Beats
<1>5. {c \in Bench!LoadPacksFromRoots(dirs) : c.docs["manifest"].id = id(j)} = {dirs[i]}
  BY <1>2, <1>3, <1>4
<1>6. QED BY <1>1, <1>5

\* The packs of a finite shelf, in some order.
LEMMA ShelfInOrder ==
  ASSUME NEW S, IsFiniteSet(S), S \subseteq Folders
  PROVE  Bench!SetToSeq(S) \in Seq(Folders)
<1>1. PICK f \in Bijection(1..Cardinality(S), S) : TRUE
  BY FS_CardinalityType DEF ExistsBijection
<1>2. f \in [1..Cardinality(S) -> S] /\ Bench!IsInjective(f)
  BY DEF Bijection, Injection, IsInjective, Bench!IsInjective
<1>3. Bench!SetToSeq(S) \in [1..Cardinality(S) -> S]
  BY <1>2, SameCount DEF Bench!SetToSeq
<1>4. Cardinality(S) \in Nat
  BY FS_CardinalityType
<1>5. QED BY <1>3, <1>4

LEMMA NewestIsSelected == BenchInv => Bench!NewestSelected
<1> SUFFICES ASSUME BenchInv PROVE Bench!NewestSelected
  OBVIOUS
<1> DEFINE S == {local[s] : s \in DOMAIN local}
           dirs == <<Official>> \o Bench!SetToSeq(S)
           best == Bench!LoadPacksFromRoots(dirs)
<1>1. IsFiniteSet(S) /\ S \subseteq Folders
  <2> DEFINE f == [s \in DOMAIN local |-> local[s]]
  <2>1. f \in Surjection(DOMAIN local, S)
    BY DEF Surjection
  <2>2. QED BY <2>1, FS_Surjection DEF BenchInv
<1>2. Bench!SetToSeq(S) \in Seq(Folders)
  BY <1>1, ShelfInOrder
<1> HIDE DEF S
<1>3. dirs \in Seq(Folders) /\ dirs[1] = Official /\ Len(dirs) >= 1
  BY <1>2, OfficialFolder
<1>4. Bench!NewestSelected =
        \A b \in {d \in Bench!ToSet(dirs) : Bench!Loads(d)} :
          LET same == {c \in best : c.docs["manifest"].id = b.docs["manifest"].id} IN
          /\ Bench!Cardinality(same) = 1
          /\ \A c \in same : /\ ~Bench!Newer(b.version, c.version)
                             /\ b = Official /\ c.version = b.version => c = b
  BY DEF Bench!NewestSelected, Bench!Slugs, S
<1> HIDE DEF dirs, best
<1> SUFFICES ASSUME NEW b \in Bench!ToSet(dirs), Bench!Loads(b)
             PROVE  LET same == {c \in best : c.docs["manifest"].id = b.docs["manifest"].id} IN
                    /\ Bench!Cardinality(same) = 1
                    /\ \A c \in same : /\ ~Bench!Newer(b.version, c.version)
                                       /\ b = Official /\ c.version = b.version => c = b
  BY <1>4
<1>5. PICK j \in 1..Len(dirs) : dirs[j] = b /\ (b = Official => j = 1)
  BY <1>3 DEF Bench!ToSet
<1>6. PICK i \in 1..Len(dirs) :
        /\ {c \in best : c.docs["manifest"].id = b.docs["manifest"].id} = {dirs[i]}
        /\ ~Beats(dirs, j, i)
  BY <1>3, <1>5, OneSelected DEF best
<1>7. Bench!Cardinality({dirs[i]}) = 1
  BY FS_Singleton, SameCount
<1>8. ~Bench!Newer(b.version, dirs[i].version)
  BY <1>5, <1>6 DEF Beats
<1>9. ASSUME b = Official, dirs[i].version = b.version PROVE dirs[i] = b
  <2>1. dirs[i].version \in Triples
    BY <1>3, FolderVersion
  <2>2. ~Bench!Newer(dirs[i].version, dirs[j].version)
    BY <1>5, <1>9, <2>1, NewerOrders
  <2>3. i = 1
    BY <1>3, <1>5, <1>6, <1>9, <2>2 DEF Beats
  <2>4. QED BY <1>3, <1>9, <2>3
<1>10. QED BY <1>6, <1>7, <1>8, <1>9

\* For any number of edits, stray files, imports and copies: a folder the workbench
\* calls valid is one the loader accepts, every finding is reported once, a loaded
\* scenario has all it names, and of one pack id the newest is selected.
THEOREM VerdictsHold == MCSpec => []VerdictsAgree
<1>1. BenchInv => VerdictsAgree
  <2> SUFFICES ASSUME BenchInv PROVE VerdictsAgree
    OBVIOUS
  <2>1. Bench!ValidMeansLoadable
    BY ValidLoads DEF BenchInv, Bench!ValidMeansLoadable, Bench!Slugs
  <2>2. Bench!EachFileOnce
    BY OnceEach DEF BenchInv, Bench!EachFileOnce, Bench!Slugs
  <2>3. Bench!LoadedResolves
    BY BundleResolves DEF BenchInv, Bench!LoadedResolves, Bench!Slugs
  <2>4. QED BY <2>1, <2>2, <2>3, NewestIsSelected DEF VerdictsAgree
<1>2. QED BY <1>1, BenchAlways, PTL
=============================================================================
