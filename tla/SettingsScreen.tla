---------------------------- MODULE SettingsScreen ----------------------------
(* The lists of the settings page (Settings.tsx): the sessions on this        *)
(* device, what characters remember of the player, and the installed packs;   *)
(* deleting entries, clearing everything, importing a pack.                   *)
(*                                                                            *)
(* A request takes effect when it is sent; its answer, which may be lost,     *)
(* comes later, and answers come in any order.                                *)
EXTENDS Naturals, FiniteSets

CONSTANTS Content,   \* what each list holds at first, by list
          NewPack,   \* the pack that may be imported
          MaxCalls,  \* bound: requests of the player under way
          MaxSends   \* bound: requests of the player in all

VARIABLES rows,     \* by list: what the page shows, or Unread
          ui,       \* the rest of the page's state
          calls,    \* requests under way
          srv,      \* external: by list, what the server holds
          samples,  \* the turn timings kept in the browser
          hist      \* history
vars == <<rows, ui, calls, srv, samples, hist>>

None == "none"
Unread == {None}
Lists == {"sessions", "recaps", "packs"}
Larger(a, b) == IF a > b THEN a ELSE b

Room == hist.sent < MaxSends /\ Cardinality({c \in calls : c.k # "list"}) < MaxCalls
Call(kind, l, x, ok) ==
  [k |-> kind, l |-> l, x |-> x, n |-> hist.sent + 1, ok |-> ok, seen |-> srv'[l]]
\* A list asked for again by an answer, not by the player.
Reload(l) == [k |-> "list", l |-> l, x |-> None, n |-> hist.sent, ok |-> TRUE, seen |-> srv[l]]
Send(c) == calls' = calls \cup {c} /\ hist' = [hist EXCEPT !.sent = @ + 1]

\* The page asks for each list when it opens; the demo edition shows no packs,
\* and asks for none.
Init ==
  /\ srv = Content /\ samples \in BOOLEAN /\ rows = [l \in Lists |-> Unread]
  /\ \E demo \in BOOLEAN :
       /\ ui = [demo |-> demo, failed |-> {}, confirm |-> None, deleting |-> None,
                forgetting |-> None, clearing |-> "idle", emptying |-> FALSE,
                importing |-> FALSE, deleteErr |-> FALSE]
       /\ calls = {[k |-> "list", l |-> l, x |-> None, n |-> 0, ok |-> TRUE, seen |-> srv[l]] :
                     l \in IF demo THEN Lists \ {"packs"} ELSE Lists}
  /\ hist = [sent |-> 0, base |-> [l \in Lists |-> 0], wrote |-> [l \in Lists |-> 0],
             dirty |-> {}]

-----------------------------------------------------------------------------
(* What an answer tells of a list (history): the list shown last was asked as *)
(* request "base", and is dirty when a later request changed what it shows    *)
(* without the page being told.                                               *)

Listed(c) ==
  hist' = [hist EXCEPT !.base[c.l] = c.n,
             !.dirty = IF hist.wrote[c.l] > c.n THEN @ \cup {c.l} ELSE @ \ {c.l}]
Untold(c, changed) ==
  [hist EXCEPT !.wrote[c.l] = Larger(@, c.n),
     !.dirty = IF changed /\ c.n > hist.base[c.l] THEN @ \cup {c.l} ELSE @]
Told(c) == [hist EXCEPT !.wrote[c.l] = Larger(@, c.n)]

-----------------------------------------------------------------------------
(* Lists *)

ListAnswered ==
  \E c \in calls :
    /\ c.k = "list" /\ calls' = calls \ {c}
    /\ \/ /\ rows' = [rows EXCEPT ![c.l] = c.seen]
          /\ ui' = [ui EXCEPT !.failed = @ \ {c.l}] /\ Listed(c)
       \/ /\ ui' = [ui EXCEPT !.failed = @ \cup {c.l}]
          /\ hist' = Untold(c, TRUE) /\ UNCHANGED rows
    /\ UNCHANGED <<srv, samples>>

Retry ==
  \E l \in ui.failed :
    /\ Room /\ UNCHANGED srv /\ Send(Call("list", l, None, TRUE))
    /\ UNCHANGED <<rows, ui, samples>>

\* A list is on the page while its last request did not fail.
Shown(l) == rows[l] # Unread /\ l \notin ui.failed

-----------------------------------------------------------------------------
(* Sessions *)

AskDelete ==
  /\ Shown("sessions") /\ \E s \in rows["sessions"] : ui' = [ui EXCEPT !.confirm = s]
  /\ UNCHANGED <<rows, calls, srv, samples, hist>>
CancelDelete ==
  /\ ui.confirm # None /\ ui' = [ui EXCEPT !.confirm = None]
  /\ UNCHANGED <<rows, calls, srv, samples, hist>>

\* A session that is not there any more is an error.
DeleteSession ==
  /\ Shown("sessions") /\ ui.confirm \in rows["sessions"] /\ ui.deleting # ui.confirm /\ Room
  /\ ui' = [ui EXCEPT !.deleting = ui.confirm, !.deleteErr = FALSE]
  /\ srv' = [srv EXCEPT !["sessions"] = @ \ {ui.confirm}]
  /\ Send(Call("delete", "sessions", ui.confirm, ui.confirm \in srv["sessions"]))
  /\ UNCHANGED <<rows, samples>>

Dropped(l, x) == IF rows[l] = Unread THEN rows ELSE [rows EXCEPT ![l] = @ \ {x}]

\* Mutant: a failed delete stays busy.
DeleteDoneOnSuccess(ok) ==
  IF ok THEN [ui EXCEPT !.deleting = None, !.confirm = None] ELSE [ui EXCEPT !.deleteErr = TRUE]

DeleteDone(ok) ==
  [ui EXCEPT !.deleting = None, !.confirm = None, !.deleteErr = @ \/ ~ok]

DeleteAnswered ==
  \E c \in calls :
    /\ c.k = "delete" /\ calls' = calls \ {c}
    /\ \/ c.ok /\ rows' = Dropped("sessions", c.x) /\ ui' = DeleteDone(TRUE) /\ hist' = Told(c)
       \/ ui' = DeleteDone(FALSE) /\ hist' = Untold(c, c.ok) /\ UNCHANGED rows
    /\ UNCHANGED <<srv, samples>>

-----------------------------------------------------------------------------
(* Clearing everything *)

\* The same press asks for confirmation, from a failure too, or clears.
AskClear ==
  /\ ui.clearing \in {"idle", "done", "error"} /\ ui' = [ui EXCEPT !.clearing = "confirming"]
  /\ UNCHANGED <<rows, calls, srv, samples, hist>>
CancelClear ==
  /\ ui.clearing = "confirming" /\ ui' = [ui EXCEPT !.clearing = "idle"]
  /\ UNCHANGED <<rows, calls, srv, samples, hist>>

\* The server forgets the sessions and what characters remember of them.
Clear ==
  /\ ui.clearing = "confirming" /\ Room
  /\ ui' = [ui EXCEPT !.clearing = "clearing"]
  /\ srv' = [srv EXCEPT !["sessions"] = {}, !["recaps"] = {}]
  /\ calls' = calls \cup {Call("clear", "sessions", None, TRUE)}
  /\ hist' = [hist EXCEPT !.sent = @ + 1, !.dirty = @ \cup {"recaps"}, !.wrote["recaps"] = hist.sent + 1]
  /\ UNCHANGED <<rows, samples>>

\* Mutant: only what the server holds is cleared.
BrowserKept == samples

BrowserCleared == FALSE

ClearFailed == [ui EXCEPT !.clearing = "error"]

ClearAnswered ==
  \E c \in calls :
    /\ c.k = "clear"
    /\ \/ /\ rows' = [rows EXCEPT !["sessions"] = {}]
          /\ ui' = [ui EXCEPT !.clearing = "done", !.deleteErr = FALSE, !.confirm = None]
          /\ samples' = BrowserCleared /\ hist' = Told(c)
          /\ calls' = (calls \ {c}) \cup {Reload("sessions")}
       \/ /\ ui' = ClearFailed /\ calls' = calls \ {c}
          /\ hist' = Untold(c, TRUE) /\ UNCHANGED <<rows, samples>>
    /\ UNCHANGED srv

-----------------------------------------------------------------------------
(* What characters remember *)

ForgetOne ==
  /\ Shown("recaps") /\ ~ui.demo /\ Room
  /\ \E x \in rows["recaps"] :
       /\ ui.forgetting # x /\ ui' = [ui EXCEPT !.forgetting = x]
       /\ srv' = [srv EXCEPT !["recaps"] = @ \ {x}] /\ Send(Call("forget", "recaps", x, TRUE))
  /\ UNCHANGED <<rows, samples>>

\* Mutant: the entry stays on the page.
ForgottenShown(x) == rows

Forgotten(x) == Dropped("recaps", x)

ForgetAnswered ==
  \E c \in calls :
    /\ c.k = "forget" /\ calls' = calls \ {c} /\ ui' = [ui EXCEPT !.forgetting = None]
    /\ \/ rows' = Forgotten(c.x) /\ hist' = Told(c)
       \/ UNCHANGED rows /\ hist' = Untold(c, TRUE)
    /\ UNCHANGED <<srv, samples>>

ForgetAll ==
  /\ Shown("recaps") /\ rows["recaps"] # {} /\ ~ui.demo /\ ~ui.emptying /\ Room
  /\ ui' = [ui EXCEPT !.emptying = TRUE] /\ srv' = [srv EXCEPT !["recaps"] = {}]
  /\ Send(Call("empty", "recaps", None, TRUE)) /\ UNCHANGED <<rows, samples>>
ForgetAllAnswered ==
  \E c \in calls :
    /\ c.k = "empty" /\ calls' = calls \ {c} /\ ui' = [ui EXCEPT !.emptying = FALSE]
    /\ \/ rows' = [rows EXCEPT !["recaps"] = {}] /\ hist' = Told(c)
       \/ UNCHANGED rows /\ hist' = Untold(c, TRUE)
    /\ UNCHANGED <<srv, samples>>

-----------------------------------------------------------------------------
(* Packs *)

ImportPack ==
  /\ ~ui.demo /\ ~ui.importing /\ Room /\ ui' = [ui EXCEPT !.importing = TRUE]
  /\ \E ok \in BOOLEAN :
       /\ srv' = IF ok THEN [srv EXCEPT !["packs"] = @ \cup {NewPack}] ELSE srv
       /\ Send(Call("import", "packs", NewPack, ok))
  /\ UNCHANGED <<rows, samples>>
ImportAnswered ==
  \E c \in calls :
    /\ c.k = "import" /\ ui' = [ui EXCEPT !.importing = FALSE]
    /\ \/ /\ c.ok /\ hist' = Told(c)
          /\ calls' = (calls \ {c}) \cup {Reload("packs")}
       \/ calls' = calls \ {c} /\ hist' = Untold(c, c.ok)
    /\ UNCHANGED <<rows, srv, samples>>

Next ==
  \/ ListAnswered \/ Retry
  \/ AskDelete \/ CancelDelete \/ DeleteSession \/ DeleteAnswered
  \/ AskClear \/ CancelClear \/ Clear \/ ClearAnswered
  \/ ForgetOne \/ ForgetAnswered \/ ForgetAll \/ ForgetAllAnswered
  \/ ImportPack \/ ImportAnswered

Spec == Init /\ [][Next]_vars

-----------------------------------------------------------------------------
\* With nothing under way the page shows what the server holds, unless an answer
\* was lost or an older list came after what changed it.
ListsCatchUp ==
  calls = {} => \A l \in Lists \ hist.dirty : Shown(l) => rows[l] = srv[l]

\* Once the page says so, nothing is left on the server or in the browser.
DoneMeansGone == ui.clearing = "done" => ~samples /\ srv["sessions"] = {} /\ srv["recaps"] = {}

\* A control that is busy waits for an answer that will come.
BusyIsAnswered ==
  LET waits(kind, x) == \E c \in calls : c.k = kind /\ c.x = x IN
  /\ ui.deleting # None => waits("delete", ui.deleting)
  /\ ui.clearing = "clearing" => waits("clear", None)
  /\ ui.forgetting # None => waits("forget", ui.forgetting)
  /\ ui.emptying => waits("empty", None)
  /\ ui.importing => waits("import", NewPack)

-----------------------------------------------------------------------------
(* The inductive invariant behind them *)

Histories ==
  [sent : Nat, base : [Lists -> Nat], wrote : [Lists -> Nat], dirty : SUBSET Lists]

\* The list a request is about.
About == [delete |-> "sessions", clear |-> "sessions", forget |-> "recaps",
          empty |-> "recaps", import |-> "packs"]
Typed ==
  /\ hist \in Histories /\ \A l \in Lists : hist.base[l] <= hist.sent
  /\ Lists \subseteq DOMAIN srv /\ Lists \subseteq DOMAIN rows /\ ui.failed \subseteq Lists
  /\ ui = [demo |-> ui.demo, failed |-> ui.failed, confirm |-> ui.confirm,
           deleting |-> ui.deleting, forgetting |-> ui.forgetting, clearing |-> ui.clearing,
           emptying |-> ui.emptying, importing |-> ui.importing, deleteErr |-> ui.deleteErr]
  /\ \A c \in calls :
       /\ c.n \in 0..hist.sent /\ c.l \in Lists
       /\ c.k # "list" => c.k \in DOMAIN About /\ c.l = About[c.k]

\* What was asked to go is gone from the server, and does not come back.
Gone ==
  \A c \in calls :
    /\ c.k = "delete" => c.x \notin srv["sessions"]
    /\ c.k = "forget" => c.x \notin srv["recaps"]
    /\ c.k \in {"empty", "clear"} => srv["recaps"] = {}
    /\ c.k = "clear" => srv["sessions"] = {}

\* What a request changed of its list.
Affects(d, x) ==
  d.k \in {"clear", "empty"} \/ (d.k \in {"delete", "forget", "import"} /\ d.ok /\ d.x = x)
Differ(S, T) == (S \ T) \cup (T \ S)

\* A list that is not dirty lacks, or has too much, only what a request under way
\* changed, or until a newer list comes.
RowsFollow ==
  \A l \in Lists \ hist.dirty : rows[l] # Unread =>
    \A x \in Differ(rows[l], srv[l]) :
      \E d \in calls : d.l = l /\ d.n > hist.base[l] /\ (d.k = "list" \/ Affects(d, x))

\* A list under way differs from what the server holds only by later requests.
ListsFollow ==
  \A c \in calls : c.k = "list" =>
    \A x \in Differ(c.seen, srv[c.l]) :
      \/ hist.wrote[c.l] > c.n
      \/ \E d \in calls : d.l = c.l /\ d.n > c.n /\ Affects(d, x)

Inv == Typed /\ Gone /\ RowsFollow /\ ListsFollow /\ DoneMeansGone /\ BusyIsAnswered
=============================================================================
