---------------------------- MODULE LibraryScreen ----------------------------
(* The scenario library (ScenarioLibrary.tsx): the list of packs and its      *)
(* filters, validating, importing and restoring packs, the sync of Steam      *)
(* Workshop subscriptions and the badge that unsubscribes from one.           *)
(*                                                                            *)
(* A request reaches the server when it is sent; its answer comes later, and  *)
(* the answers of several requests come in any order.                         *)
EXTENDS Naturals, FiniteSets

CONSTANTS Packs,      \* packs, those of the Workshop among them
          Workshop,   \* packs that come from Workshop items
          Traits,     \* what a scenario may be filtered by
          MaxCalls,   \* bound: requests under way
          MaxSends    \* bound: requests sent in all

VARIABLES list,      \* the packs listed, or NotYet
          checks,    \* validations: what is shown under each pack
          sync,      \* workshopSyncState, and whether the launch synced already
          filter,    \* the trait filtered by, or None
          calls,     \* answers under way
          srv,       \* external: packs indexed, subscribed, in use, invalid
          hist       \* history
vars == <<list, checks, sync, filter, calls, srv, hist>>

NotYet == {"not yet"}
None == "none"
TraitsOf(p) == IF p \in Workshop THEN Traits ELSE {CHOOSE t \in Traits : TRUE}

Init ==
  /\ list = NotYet /\ checks = [p \in Packs |-> "idle"] /\ filter = None
  /\ sync = [state |-> "idle", auto |-> FALSE]
  /\ \E i \in {{}, Packs} :
       /\ srv = [indexed |-> i, subscribed |-> Workshop, inUse |-> {}, broken |-> {}]
       /\ calls = {[k |-> "list", n |-> 0, packs |-> i]}
  /\ hist = [sent |-> 0, newest |-> 0, behind |-> FALSE, pulled |-> FALSE, synced |-> 0]

-----------------------------------------------------------------------------
Room(n) == Cardinality(calls) + n <= MaxCalls /\ hist.sent + n <= MaxSends
Sent(n) == hist.sent + n
ListCall(n, s) == [k |-> "list", n |-> n, packs |-> s.indexed]
Done(c) == calls \ {c}

\* The list is asked for anew.
Reload(c, s) ==
  /\ hist.sent < MaxSends
  /\ calls' = Done(c) \cup {ListCall(Sent(1), s)} /\ hist' = [hist EXCEPT !.sent = @ + 1]

ListAnswered ==
  \E c \in calls :
    /\ c.k = "list" /\ calls' = Done(c)
    /\ \/ list' = c.packs /\ hist' = [hist EXCEPT !.behind = @ \/ c.n < hist.newest,
                                                  !.newest = IF c.n > @ THEN c.n ELSE @]
       \/ list' = list /\ hist' = [hist EXCEPT !.behind = TRUE]
    /\ UNCHANGED <<checks, sync, filter, srv>>

-----------------------------------------------------------------------------
(* Filters *)

\* Mutant: a filter is offered for what any pack might have.
OptionsAll(packs) == Traits

Options(packs) == UNION {TraitsOf(p) : p \in packs}

Visible(packs, f) == {p \in packs : f = None \/ f \in TraitsOf(p)}

PickFilter ==
  /\ list # NotYet /\ \E f \in Options(list) \cup {None} : filter' = f
  /\ UNCHANGED <<list, checks, sync, calls, srv, hist>>

Shown == IF list = NotYet THEN {} ELSE Visible(list, filter)

-----------------------------------------------------------------------------
(* Validating, importing, restoring *)

Send(c) == Room(1) /\ calls' = calls \cup {c} /\ hist' = [hist EXCEPT !.sent = @ + 1]

Validate ==
  \E p \in Shown :
    /\ checks[p] # "loading" /\ checks' = [checks EXCEPT ![p] = "loading"]
    /\ Send([k |-> "check", n |-> Sent(1), p |-> p,
             verdict |-> IF p \in srv.broken THEN "broken" ELSE "valid"])
    /\ UNCHANGED <<list, sync, filter, srv>>

\* Mutant: the result goes to every pack that waits for one.
WithVerdictAll(p, v) == [q \in Packs |-> IF checks[q] = "loading" THEN v ELSE checks[q]]

\* The result goes to the pack that was validated.
WithVerdict(p, v) == [checks EXCEPT ![p] = v]

ValidateAnswered ==
  \E c \in calls :
    /\ c.k = "check" /\ calls' = Done(c)
    /\ \E v \in {c.verdict, "error"} : checks' = WithVerdict(c.p, v)
    /\ UNCHANGED <<list, sync, filter, srv, hist>>

Importing == \E c \in calls : c.k = "import"
Import ==
  /\ ~Importing
  /\ \E p \in Packs \ Workshop, ok \in BOOLEAN :
       /\ srv' = IF ok THEN [srv EXCEPT !.indexed = @ \cup {p}] ELSE srv
       /\ Send([k |-> "import", n |-> Sent(1), ok |-> ok])
  /\ UNCHANGED <<list, checks, sync, filter>>

\* Mutant: the list is not asked for after an import.
AfterImportNothing(c) == calls' = Done(c) /\ UNCHANGED hist

AfterImport(c) == Reload(c, srv)

ImportAnswered ==
  \E c \in calls :
    /\ c.k = "import"
    /\ IF c.ok THEN AfterImport(c) ELSE calls' = Done(c) /\ UNCHANGED hist
    /\ UNCHANGED <<list, checks, sync, filter, srv>>

\* Offered while the library is empty.
Restore ==
  /\ list = {} /\ ~\E c \in calls : c.k = "restore"
  /\ \E ok \in BOOLEAN :
       /\ srv' = IF ok THEN [srv EXCEPT !.indexed = @ \cup (Packs \ Workshop)] ELSE srv
       /\ Send([k |-> "restore", n |-> Sent(1), ok |-> ok])
  /\ UNCHANGED <<list, checks, sync, filter>>

RestoreAnswered ==
  \E c \in calls :
    /\ c.k = "restore"
    /\ IF c.ok THEN Reload(c, srv) ELSE calls' = Done(c) /\ UNCHANGED hist
    /\ UNCHANGED <<list, checks, sync, filter, srv>>

-----------------------------------------------------------------------------
(* Syncing the Workshop: Steam says what is subscribed, then the server is told *)

Sync(byHand) ==
  /\ sync.state # "syncing" /\ (byHand \/ ~sync.auto)
  /\ sync' = [state |-> "syncing", auto |-> sync.auto \/ ~byHand]
  /\ Send([k |-> "items", n |-> Sent(1), items |-> srv.subscribed])
  /\ UNCHANGED <<list, checks, filter, srv>>
SyncNow == \E byHand \in BOOLEAN : Sync(byHand)

\* External: what is valid is indexed, what is not is kept out or taken out.
Synced(s, items) ==
  [s EXCEPT !.indexed = (@ \cup (items \ s.broken)) \ (items \cap s.broken)]

ItemsAnswered ==
  \E c \in calls :
    /\ c.k = "items"
    /\ IF c.items = {}
       THEN calls' = Done(c) /\ sync' = [sync EXCEPT !.state = "done"] /\ UNCHANGED <<srv, hist>>
       ELSE /\ hist.sent < MaxSends /\ sync' = sync
            /\ srv' = Synced(srv, c.items)
            /\ calls' = Done(c) \cup
                 {[k |-> "sync", n |-> Sent(1), more |-> ~(c.items \ srv.broken \subseteq srv.indexed),
                   less |-> c.items \cap srv.broken \cap srv.indexed # {}]}
            /\ hist' = [hist EXCEPT !.sent = @ + 1, !.synced = Sent(1)]
    /\ UNCHANGED <<list, checks, filter>>

\* The list is asked for only if something was imported or updated.
SyncAnswered ==
  \E c \in calls :
    /\ c.k = "sync"
    /\ \/ /\ c.more /\ Reload(c, srv) /\ sync' = [sync EXCEPT !.state = "done"]
       \/ /\ ~c.more /\ calls' = Done(c) /\ hist' = [hist EXCEPT !.behind = @ \/ c.less]
          /\ sync' = [sync EXCEPT !.state = "done"]
       \/ /\ calls' = Done(c) /\ hist' = [hist EXCEPT !.behind = TRUE]
          /\ sync' = [sync EXCEPT !.state = "error"]
    /\ UNCHANGED <<list, checks, filter, srv>>

-----------------------------------------------------------------------------
(* Unsubscribing: from the index first, then from Steam *)

\* External: the server refuses while a session of the pack is in progress.
Refuses(p) == p \in srv.inUse

\* The item of the pack is looked up, then the pack is removed from the index.
Unsubscribe ==
  \E p \in Shown \cap Workshop :
    Send([k |-> "lookup", n |-> Sent(1), p |-> p, found |-> p \in srv.indexed])
      /\ UNCHANGED <<list, checks, sync, filter, srv>>

LookupAnswered ==
  \E c \in calls :
    /\ c.k = "lookup"
    /\ \/ calls' = Done(c) /\ UNCHANGED <<srv, hist>>
       \/ /\ c.found /\ hist.sent < MaxSends
          /\ calls' = Done(c) \cup {[k |-> "remove", n |-> Sent(1), p |-> c.p, removed |-> ~Refuses(c.p)]}
          /\ srv' = IF Refuses(c.p) THEN srv ELSE [srv EXCEPT !.indexed = @ \ {c.p}]
          /\ hist' = [hist EXCEPT !.sent = @ + 1]
    /\ UNCHANGED <<list, checks, sync, filter>>

\* Mutant: Steam is told whatever the server said.
LeavesSteamAlways(c) == TRUE

\* Steam, which deletes the files, is told only of a pack that was removed.
LeavesSteam(c) == c.removed

RemoveAnswered ==
  \E c \in calls :
    /\ c.k = "remove"
    /\ \/ ~LeavesSteam(c) /\ calls' = Done(c) /\ UNCHANGED <<srv, hist>>
       \/ calls' = Done(c) /\ srv' = srv /\ hist' = [hist EXCEPT !.behind = TRUE]
       \/ /\ LeavesSteam(c) /\ hist.sent < MaxSends
          /\ srv' = [srv EXCEPT !.subscribed = @ \ {c.p}]
          /\ calls' = Done(c) \cup {ListCall(Sent(1), srv)}
          /\ hist' = [hist EXCEPT !.sent = @ + 1,
                                  !.pulled = @ \/ (c.p \in srv.inUse /\ hist.synced < c.n)]
    /\ UNCHANGED <<list, checks, sync, filter>>

-----------------------------------------------------------------------------
\* External: a session of a Workshop pack begins or ends, one changes on the disk.
Outside ==
  /\ \/ \E p \in (Workshop \cap srv.indexed) \ srv.inUse : srv' = [srv EXCEPT !.inUse = @ \cup {p}]
     \/ \E p \in srv.inUse : srv' = [srv EXCEPT !.inUse = @ \ {p}]
     \/ \E p \in Workshop \ srv.broken : srv' = [srv EXCEPT !.broken = @ \cup {p}]
  /\ UNCHANGED <<list, checks, sync, filter, calls, hist>>

Next ==
  \/ ListAnswered \/ PickFilter
  \/ Validate \/ ValidateAnswered \/ Import \/ ImportAnswered \/ Restore \/ RestoreAnswered
  \/ SyncNow \/ ItemsAnswered \/ SyncAnswered
  \/ Unsubscribe \/ LookupAnswered \/ RemoveAnswered \/ Outside

Spec == Init /\ [][Next]_vars

-----------------------------------------------------------------------------
\* Steam never deletes the files of a pack a session is using: the server is
\* asked first and heeded.  (A sync that runs in between may index the pack again.)
SessionsKeepTheirFiles == ~hist.pulled

\* A pack whose validation is under way has its request under way, and a request
\* its pack: results never go to another pack.
WaitingIsAsked ==
  \A p \in Packs : (checks[p] = "loading") <=> \E c \in calls : c.k = "check" /\ c.p = p

\* The library catches up: with nothing under way, the list is what the server
\* has, unless a request failed, answers overtook each other, or a sync took a
\* pack out without putting one in.
ListCatchesUp ==
  calls = {} /\ ~hist.behind => list = srv.indexed

\* A filter that is offered finds something, alone.
OptionsFind ==
  list # NotYet => \A f \in Options(list) : Visible(list, f) # {}

-----------------------------------------------------------------------------
(* The inductive invariant behind them *)

Histories == [sent : Nat, newest : Nat, synced : Nat, behind : BOOLEAN, pulled : BOOLEAN]
Servers == [indexed : SUBSET Packs, subscribed : SUBSET Packs, inUse : SUBSET Packs,
            broken : SUBSET Packs]

\* Requests are numbered as they are sent, no two alike.
Numbered ==
  /\ hist \in Histories
  /\ hist.newest <= hist.sent
  /\ \A c \in calls : c.n \in 0..hist.sent
  /\ \A c, d \in calls : c.n = d.n => c = d

Typed ==
  /\ list = NotYet \/ list \subseteq Packs
  /\ checks \in [Packs -> {"idle", "loading", "valid", "broken", "error"}]
  /\ srv \in Servers
  /\ \A c \in calls :
       /\ c.k = "list" => c.packs \subseteq Packs
       /\ c.k = "check" => c.p \in Packs /\ c.verdict \in {"valid", "broken"}
       /\ c.k = "items" => c.items \subseteq Packs
       /\ c.k = "lookup" => c.p \in Workshop

\* A pack is validated once at a time.
OneCheck ==
  \A c, d \in calls : c.k = "check" /\ d.k = "check" /\ c.p = d.p => c = d

\* An answer after which the list is asked for, or known to be behind.
Changer(c) ==
  \/ c.k \in {"import", "restore"} /\ c.ok
  \/ c.k = "sync" /\ (c.more \/ c.less)
  \/ c.k = "remove" /\ c.removed

\* The last list that was asked for is the one of the server.
LastCall(c) ==
  /\ c.k = "list" /\ c.packs = srv.indexed /\ hist.newest <= c.n
  /\ \A d \in calls : d.k = "list" => d.n <= c.n

Listed ==
  /\ list = srv.indexed
  /\ \A d \in calls : d.k = "list" => d.n < hist.newest

CatchesUp == hist.behind \/ Listed \/ \E c \in calls : Changer(c) \/ LastCall(c)

\* Between its removal from the index and the next sync no session can begin
\* with a pack.
Removed ==
  \A c \in calls : c.k = "remove" /\ c.removed /\ hist.synced < c.n
    => c.p \in Workshop /\ c.p \notin srv.indexed \cup srv.inUse

Inv ==
  /\ Numbered /\ Typed /\ OneCheck /\ WaitingIsAsked /\ CatchesUp /\ Removed
  /\ SessionsKeepTheirFiles
=============================================================================
