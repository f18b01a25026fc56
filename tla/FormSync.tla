------------------------------- MODULE FormSync -------------------------------
(* The two panes of the pack file editor (FormEditor.tsx, useFormSync.ts,     *)
(* yaml-sync.ts): a form and the text of the file, each of which follows the  *)
(* other, inside a page that holds the text as well.                          *)
(*                                                                            *)
(* An edit is rendered and its effects are run (Settle) before the next one.  *)
EXTENDS Naturals

CONSTANTS Fields,   \* fields of a file, in the form or not
          InForm,   \* those the form edits
          Values    \* values of a field; "bad" fails the schema

VARIABLES content,  \* the text as the page holds it: the initialYaml of the editor
          ed,       \* the editor: text, form values, errors, tab
          seen,     \* dependencies of the effects when they last ran
          mute,     \* suppressNextOnChange
          hist      \* history
vars == <<content, ed, seen, mute, hist>>

Absent == "absent"
Docs == [Fields -> Values \cup {Absent}]
Empty == [f \in Fields |-> Absent]

-----------------------------------------------------------------------------
(* Texts: a document, or text that is no YAML *)

Text(d) == [parses |-> TRUE, doc |-> d]
Broken == [parses |-> FALSE, doc |-> Empty]
Texts == {Text(d) : d \in Docs} \cup {Broken}

\* extractFormValues: what the text holds, valid or not.
Extract(t) == t.doc
\* parseByType: the fields in error, or the whole text.
Errors(t) == IF t.parses THEN {f \in Fields : t.doc[f] = "bad"} ELSE {"(root)"}

\* Mutant: the text becomes what the form shows.
MergeOnlyForm(values, t) ==
  Text([f \in Fields |-> IF f \in InForm THEN values[f] ELSE Absent])

\* mergeToYaml: the values over what the text holds.
Merge(values, t) ==
  Text([f \in Fields |-> IF values[f] # Absent THEN values[f] ELSE t.doc[f]])

-----------------------------------------------------------------------------
Shown(t, tab) == [yaml |-> t, values |-> Extract(t), errors |-> Errors(t), tab |-> tab]

Init ==
  /\ content \in {Text(d) : d \in Docs} /\ ed = Shown(content, "form")
  /\ seen = [initial |-> content, yaml |-> content] /\ mute = FALSE
  /\ hist = [lost |-> FALSE]

Settled == seen = [initial |-> content, yaml |-> ed.yaml]

\* updateField: one field of the form; history: was another one changed with it?
EditField ==
  /\ Settled /\ ed.tab = "form"
  /\ \E f \in InForm, v \in Values :
       LET values == [ed.values EXCEPT ![f] = v]
           text   == Merge(values, ed.yaml)
       IN
       /\ ed' = [ed EXCEPT !.values = values, !.yaml = text, !.errors = Errors(text)]
       /\ hist' = [lost |-> hist.lost \/
              (ed.yaml.parses /\ \E g \in Fields \ {f} : text.doc[g] # ed.yaml.doc[g])]
  /\ UNCHANGED <<content, seen, mute>>

\* setYaml: the form keeps its values while the text is no YAML.
EditText ==
  /\ Settled /\ ed.tab = "yaml"
  /\ \E t \in Texts :
       ed' = [ed EXCEPT !.yaml = t, !.errors = Errors(t),
                        !.values = IF t.parses THEN t.doc ELSE @]
  /\ UNCHANGED <<content, seen, mute, hist>>

SetActiveTab ==
  /\ Settled /\ \E tab \in {"form", "yaml"} \ {ed.tab} : ed' = [ed EXCEPT !.tab = tab]
  /\ UNCHANGED <<content, seen, mute, hist>>

\* The page shows another text: the file was read again.
NewContent ==
  /\ Settled /\ \E d \in Docs : content' = Text(d) /\ UNCHANGED <<ed, seen, mute, hist>>

\* Mutant: every new text of the page is expected to come back.
MutesAlways == mute \/ content # seen.initial

\* While rendering: a new text of the page that the editor does not hold yet
\* will change the editor's, which is then not news to the page.
Mutes == mute \/ (content # seen.initial /\ ed.yaml # content)

\* The editor takes over a new text of the page, and shows the form.
Reset == Shown(content, "form")

\* One rendering and its effects, in the order they are declared.
Settle ==
  /\ ~Settled
  /\ seen' = [initial |-> content, yaml |-> ed.yaml]
  /\ ed' = IF content # seen.initial THEN Reset ELSE ed
  /\ IF ed.yaml # seen.yaml
     THEN mute' = FALSE /\ content' = IF Mutes THEN content ELSE ed.yaml
     ELSE mute' = Mutes /\ UNCHANGED content
  /\ UNCHANGED hist

Next == EditField \/ EditText \/ SetActiveTab \/ NewContent \/ Settle

Spec == Init /\ [][Next]_vars

-----------------------------------------------------------------------------
\* Once the effects have run, the page holds the text of the editor (what it will
\* save), and the form and its errors are those of that text.
InSync == Settled => content = ed.yaml /\ [ed EXCEPT !.tab = "form"] = Shown(ed.yaml, "form")

\* A form edit changes no other field of the text, in the form or not.
FormEditKeepsRest == ~hist.lost

-----------------------------------------------------------------------------
(* The inductive invariant behind them *)

Shape ==
  /\ content \in Texts /\ ed.yaml \in Texts
  /\ ed = [yaml |-> ed.yaml, values |-> ed.values, errors |-> ed.errors, tab |-> ed.tab]
  /\ seen = [initial |-> seen.initial, yaml |-> seen.yaml]

\* The form and its errors are those of the text.
Follows == ed = Shown(ed.yaml, ed.tab)

\* The ways from one text to the next: at rest; the editor's text was changed, and
\* came back from the page; the page's text was changed, and was taken over.
AtRest == Settled /\ content = ed.yaml /\ ~mute /\ Follows
Edited == content = seen.initial /\ content = seen.yaml /\ ed.yaml # content /\ ~mute
CameBack == content = ed.yaml /\ ed.yaml = seen.yaml /\ content # seen.initial /\ ~mute
Renewed == ed.yaml = seen.yaml /\ ed.yaml = seen.initial /\ content # ed.yaml /\ ~mute
TakenOver ==
  content = ed.yaml /\ content = seen.initial /\ ed.yaml # seen.yaml /\ mute /\ Follows

Inv == Shape /\ FormEditKeepsRest /\ (AtRest \/ Edited \/ CameBack \/ Renewed \/ TakenOver)
=============================================================================
