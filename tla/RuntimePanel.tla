----------------------------- MODULE RuntimePanel -----------------------------
(* The runtime panel of the settings (RuntimeSettingsPanel.tsx): provider and *)
(* model, and the form of the advanced settings, against the settings the     *)
(* server keeps.  What is typed is in tenths; an integer field keeps the      *)
(* whole part of it, as parseInt does.                                        *)
(*                                                                            *)
(* A request takes effect when it is sent; its answer, which may be lost,     *)
(* comes later, and answers come in any order.                                *)
EXTENDS Integers, FiniteSets

CONSTANTS Keys,      \* the settings under study
          Inputs,    \* what is typed, in tenths
          Null,      \* an empty field
          Offered,   \* the models of each provider
          MaxCalls,  \* bound: requests under way
          MaxSends   \* bound: requests sent in all

VARIABLES panel,     \* the panel's state
          form,      \* the text of each field
          calls,     \* requests under way
          srv,       \* external: [provider, model, set : key -> value, old]
          hist       \* history
vars == <<panel, form, calls, srv, hist>>

None == "none"
Providers == DOMAIN Offered

\* The settings of the gateway, which the core service repeats.
Gate(stored, answer, Values) == INSTANCE GatewaySettings
Accepted(set) ==
  \A k \in Keys : Gate(srv.set, None, Inputs)!Valid(k, set[k])

-----------------------------------------------------------------------------
(* Text and numbers *)

IntKeys == {"context_length", "gpu_layers", "threads"}

\* parseInt2 and parseFloat2.
Number(k, text) ==
  IF text = Null THEN Null
  ELSE IF k \notin IntKeys THEN text
  ELSE IF text >= 0 THEN text \div 10 ELSE -((-text) \div 10)

\* settingsToForm and formToRequest.
Form(set) ==
  [k \in Keys |-> IF set[k] = Null \/ k \notin IntKeys THEN set[k] ELSE 10 * set[k]]
Request(f) == [k \in Keys |-> Number(k, f[k])]

Ranges == [context_length |-> <<512, 131072>>, gpu_layers |-> <<-1, 256>>,
           threads |-> <<1, 64>>, temperature |-> <<0, 20>>,
           top_p |-> <<0, 10>>, repeat_penalty |-> <<10, 20>>]

\* Mutant: every field may be as low as -1.
InRangeLow(k, n) == -1 <= n /\ n <= Ranges[k][2]

InRange(k, n) == Ranges[k][1] <= n /\ n <= Ranges[k][2]

\* validateForm: the fields in error.
Wrong(f) == {k \in Keys : f[k] # Null /\ ~InRange(k, Number(k, f[k]))}

-----------------------------------------------------------------------------
(* Loading *)

Blank == [k \in Keys |-> Null]
Room == Cardinality(calls) < MaxCalls /\ hist.sent < MaxSends
Snapshot(s) == [provider |-> s.provider, model |-> s.model, set |-> s.set]
Call(kind, ok, s) == [k |-> kind, n |-> hist.sent + 1, ok |-> ok, seen |-> Snapshot(s)]
Send(done, c) == calls' = (calls \ done) \cup {c} /\ hist' = [hist EXCEPT !.sent = @ + 1]

Init ==
  /\ \E p \in Providers, old \in BOOLEAN :
       srv = [provider |-> p, model |-> None, set |-> Blank, old |-> old]
  /\ panel = [got |-> FALSE, err |-> FALSE, provider |-> "llama_cpp", model |-> None,
              advanced |-> TRUE, wrong |-> {}, restart |-> FALSE,
              using |-> FALSE, applying |-> FALSE, resetting |-> FALSE]
  /\ form = Blank
  /\ calls = {[k |-> "load", n |-> 0, ok |-> TRUE, seen |-> Snapshot(srv)]}
  /\ hist = [sent |-> 0, newest |-> 0, shown |-> 0, clean |-> TRUE, refused |-> FALSE]

\* The form now shows the settings of the answer; a newer one may have come before.
Shows(c) ==
  hist' = [hist EXCEPT !.shown = c.n, !.newest = IF c.n > @ THEN c.n ELSE @, !.clean = TRUE]
\* Nothing is known of what the server did.
Unknown(c) == hist' = [hist EXCEPT !.newest = IF c.n > @ THEN c.n ELSE @]

\* Models and settings; a server without settings hides the form.
LoadAnswered ==
  \E c \in calls :
    /\ c.k = "load" /\ calls' = calls \ {c}
    /\ \/ /\ panel' = [panel EXCEPT !.got = TRUE, !.err = FALSE, !.provider = c.seen.provider,
                                    !.model = c.seen.model, !.restart = FALSE,
                                    !.advanced = ~srv.old]
          /\ IF srv.old THEN UNCHANGED <<form, hist>> ELSE form' = Form(c.seen.set) /\ Shows(c)
       \/ panel' = [panel EXCEPT !.err = TRUE] /\ Unknown(c) /\ UNCHANGED form
    /\ UNCHANGED srv

\* While the error stands for the panel, only this can be pressed.
Reload ==
  /\ panel.err /\ Room /\ panel' = [panel EXCEPT !.err = FALSE]
  /\ Send({}, Call("load", TRUE, srv)) /\ UNCHANGED <<form, srv>>

-----------------------------------------------------------------------------
(* Provider and model *)

Open == panel.got /\ ~panel.err

OtherProvider(p) == [panel EXCEPT !.provider = p, !.model = None]

PickProvider ==
  /\ Open /\ \E p \in Providers : panel' = OtherProvider(p)
  /\ UNCHANGED <<form, calls, srv, hist>>
PickModel ==
  /\ Open /\ \E m \in Offered[panel.provider] \cup {None} : panel' = [panel EXCEPT !.model = m]
  /\ UNCHANGED <<form, calls, srv, hist>>

ApplyBasic ==
  /\ Open /\ ~panel.using /\ Room /\ panel' = [panel EXCEPT !.using = TRUE]
  /\ \E ok \in BOOLEAN :
       /\ srv' = IF ok THEN [srv EXCEPT !.provider = panel.provider, !.model = panel.model] ELSE srv
       /\ Send({}, Call("use", ok, srv'))
  /\ UNCHANGED form

\* What was applied is read back, with the settings.
BasicAnswered ==
  \E c \in calls :
    /\ c.k = "use" /\ panel' = [panel EXCEPT !.using = FALSE]
    /\ \/ c.ok /\ hist.sent < MaxSends /\ Send({c}, Call("load", TRUE, srv))
       \/ calls' = calls \ {c} /\ UNCHANGED hist
    /\ UNCHANGED <<form, srv>>

-----------------------------------------------------------------------------
(* The advanced settings *)

Type ==
  /\ Open /\ panel.advanced
  /\ \E k \in Keys, t \in Inputs \cup {Null} :
       /\ form' = [form EXCEPT ![k] = t]
       /\ panel' = [panel EXCEPT !.wrong = @ \ {k}, !.restart = FALSE]
  /\ hist' = [hist EXCEPT !.clean = FALSE] /\ UNCHANGED <<calls, srv>>

Restarts(set) == \E k \in Keys \cap {"context_length", "gpu_layers"} : set[k] # srv.set[k]

ApplyAdvanced ==
  /\ Open /\ panel.advanced /\ ~panel.applying
  /\ IF Wrong(form) # {}
     THEN panel' = [panel EXCEPT !.wrong = Wrong(form)] /\ UNCHANGED <<calls, srv, hist>>
     ELSE LET set == Request(form) IN
          /\ Room /\ panel' = [panel EXCEPT !.applying = TRUE]
          /\ srv' = IF Accepted(set) THEN [srv EXCEPT !.set = set] ELSE srv
          /\ calls' = calls \cup {[Call("apply", Accepted(set), srv') EXCEPT !.seen =
                                     [set |-> srv'.set, restart |-> Restarts(set)]]}
          /\ hist' = [hist EXCEPT !.sent = @ + 1, !.refused = @ \/ ~Accepted(set)]
  /\ UNCHANGED form

\* Mutant: the text that was sent stays.
StoredKept(set) == form

\* The fields show what was stored.
Stored(set) == Form(set)

AdvancedAnswered ==
  \E c \in calls :
    /\ c.k = "apply" /\ calls' = calls \ {c}
    /\ \/ /\ c.ok /\ form' = Stored(c.seen.set) /\ Shows(c)
          /\ panel' = [panel EXCEPT !.applying = FALSE, !.restart = c.seen.restart]
       \/ panel' = [panel EXCEPT !.applying = FALSE] /\ Unknown(c) /\ UNCHANGED form
    /\ UNCHANGED srv

Reset ==
  /\ Open /\ panel.advanced /\ ~panel.resetting /\ Room
  /\ panel' = [panel EXCEPT !.resetting = TRUE]
  /\ srv' = [srv EXCEPT !.set = Blank] /\ Send({}, Call("reset", TRUE, srv'))
  /\ UNCHANGED form

AfterResetFailed == [panel EXCEPT !.resetting = FALSE]

ResetAnswered ==
  \E c \in calls :
    /\ c.k = "reset" /\ calls' = calls \ {c}
    /\ \/ /\ form' = Form(c.seen.set) /\ Shows(c)
          /\ panel' = [panel EXCEPT !.resetting = FALSE, !.wrong = {}, !.restart = TRUE]
       \/ panel' = AfterResetFailed /\ Unknown(c) /\ UNCHANGED form
    /\ UNCHANGED srv

Next ==
  \/ LoadAnswered \/ Reload
  \/ PickProvider \/ PickModel \/ ApplyBasic \/ BasicAnswered
  \/ Type \/ ApplyAdvanced \/ AdvancedAnswered \/ Reset \/ ResetAnswered

Spec == Init /\ [][Next]_vars

-----------------------------------------------------------------------------
\* What the panel lets through, the server takes: the two ranges agree, also on
\* fractions typed into whole numbers.
ServerTakesIt == ~hist.refused

\* The form shows what is stored, once nothing is under way and nothing was typed
\* since the newest answer, unless that answer was lost.
ShownIsStored ==
  Open /\ panel.advanced /\ calls = {} /\ hist.clean /\ hist.shown = hist.newest
    => form = Form(srv.set)

-----------------------------------------------------------------------------
(* The inductive invariant behind them *)

Histories == [sent : Nat, newest : Nat, shown : Nat, clean : BOOLEAN, refused : BOOLEAN]
Sane ==
  /\ hist \in Histories /\ hist.shown <= hist.sent /\ ~hist.refused
  /\ \A c \in calls : c.n \in 0..hist.sent
  /\ srv = [provider |-> srv.provider, model |-> srv.model, set |-> srv.set, old |-> srv.old]

\* The settings were last sent as request w: what was asked since shows them.
LastSent(w) ==
  /\ \A c \in calls : c.n >= w => c.seen.set = srv.set
  /\ w <= hist.newest \/ \E c \in calls : c.n = w /\ c.k \in {"apply", "reset"}
  /\ hist.clean /\ hist.shown >= w => form = Form(srv.set)

Inv == Sane /\ \E w \in 0..hist.sent : LastSent(w)
=============================================================================
