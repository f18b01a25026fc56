--------------------------- MODULE WorkbenchEditor ----------------------------
(* The creator workbench's page (CreatorWorkbench.tsx): picking a pack and a  *)
(* file of it, editing and saving, the verdict of the validator, copying an   *)
(* official pack, importing one, publishing.                                  *)
(*                                                                            *)
(* A request takes effect when it is sent; its answer, which may be lost,     *)
(* comes later, and answers come in any order.  No handler looks whether the  *)
(* pack or the file it was asked for is still the one on the page.            *)
EXTENDS Naturals, FiniteSets

CONSTANTS Official,  \* packs that are read only
          Local,     \* packs that may be edited
          Copy,      \* the local copy of an official pack
          Imported,  \* the pack that may be imported
          Files,     \* the files of every pack
          MaxCalls,  \* bound: requests under way
          MaxSends   \* bound: requests in all

VARIABLES ui,     \* the page's state
          srv,    \* external: the packs on disk and the text of their files
          calls,  \* requests under way
          edits,  \* history of the edits the page shows
          hist    \* other history
vars == <<ui, srv, calls, edits, hist>>

None == "none"
AllPacks == Official \cup Local \cup {Copy, Imported}

\* A text: the file it was read from, and whether the validator minds.
Blank == [of |-> None, v |-> None]
Versions == {"good", "better", "bad"}
Shipped == [f \in Files |-> [of |-> f, v |-> "good"]]

Verdict(s, p) == IF \E f \in Files : s.text[p][f].v = "bad" THEN "fail" ELSE "pass"

Room == Cardinality(calls) < MaxCalls /\ hist.sent < MaxSends

Init ==
  /\ srv = [packs |-> Official \cup Local, text |-> [p \in AllPacks |-> Shipped]]
  /\ ui = [packs |-> {}, pack |-> None, file |-> None, text |-> Blank, saved |-> Blank,
           editable |-> FALSE, loading |-> FALSE, fileErr |-> FALSE, busy |-> {},
           verdict |-> None, validating |-> FALSE]
  /\ calls = {[k |-> "list", n |-> 0, packs |-> srv.packs]}
  /\ hist = [sent |-> 0, wrote |-> 0, own |-> TRUE, right |-> TRUE, torn |-> FALSE]
  /\ edits = [begun |-> 0, dropped |-> FALSE]

Dirty == ui.file # None /\ ui.text # ui.saved
\* The edits shown now were there when the request was sent (history).
Standing(c) == Dirty /\ ui.editable /\ edits.begun <= c.n

\* Such edits, or at a press any, are left behind, asked or not (history).
LeaveBehind(standing, asked) == edits' = [edits EXCEPT !.dropped = @ \/ (standing /\ ~asked)]

\* Edits are shown from now on, if none were (history).
Begin == edits' = [edits EXCEPT !.begun = IF Dirty THEN @ ELSE hist.sent + 1]

-----------------------------------------------------------------------------
(* Packs *)

ListAnswered ==
  \E c \in calls :
    /\ c.k = "list" /\ calls' = calls \ {c}
    /\ ui' \in {ui, [ui EXCEPT !.packs = c.packs]} /\ UNCHANGED <<srv, edits, hist>>

\* The validator is asked; "ends" names what is busy until it answers.
Validate(p, ends) ==
  [k |-> "validate", n |-> hist.sent + 1, pack |-> p, ends |-> ends, verdict |-> Verdict(srv', p)]

Picked(p) ==
  [ui EXCEPT !.pack = p, !.file = None, !.text = Blank, !.saved = Blank, !.verdict = None,
             !.validating = TRUE]

\* Mutant: another pack or file is opened without a question.
MayOpenAny == TRUE

\* Edits are left behind only on the player's word.
MayOpen == ~Dirty

HandleSelectPack ==
  /\ Room /\ UNCHANGED srv
  /\ \E p \in ui.packs, asked \in BOOLEAN :
       /\ asked \/ MayOpen
       /\ ui' = Picked(p) /\ calls' = calls \cup {Validate(p, None)} /\ LeaveBehind(Dirty, asked)
  /\ hist' = [hist EXCEPT !.sent = @ + 1]

RefreshValidation ==
  /\ ui.pack # None /\ ~ui.validating /\ Room /\ UNCHANGED <<srv, edits>>
  /\ ui' = [ui EXCEPT !.validating = TRUE] /\ calls' = calls \cup {Validate(ui.pack, None)}
  /\ hist' = [hist EXCEPT !.sent = @ + 1]

\* The verdict shown is of the pack shown, and asked for after the last change (history).
Own(c) == c.pack = ui.pack /\ c.n >= hist.wrote

ValidateAnswered ==
  \E c \in calls :
    /\ c.k = "validate" /\ calls' = calls \ {c}
    /\ \E v \in {c.verdict, None} :
         ui' = [ui EXCEPT !.verdict = v, !.validating = FALSE, !.busy = @ \ {c.ends}]
    /\ hist' = [hist EXCEPT !.own = Own(c)] /\ UNCHANGED <<srv, edits>>

-----------------------------------------------------------------------------
(* Files *)

HandleSelectFile ==
  /\ ui.pack # None /\ Room
  /\ \E f \in Files, asked \in BOOLEAN :
       /\ asked \/ MayOpen
       /\ ui' = [ui EXCEPT !.file = f, !.text = Blank, !.saved = Blank, !.fileErr = FALSE,
                           !.loading = TRUE]
       /\ calls' = calls \cup {[k |-> "read", n |-> hist.sent + 1, pack |-> ui.pack, file |-> f,
                               text |-> srv.text[ui.pack][f]]}
       /\ LeaveBehind(Dirty, asked)
  /\ hist' = [hist EXCEPT !.sent = @ + 1] /\ UNCHANGED srv

\* The answer is about the file on the page (history).
Here(c) == c.pack = ui.pack /\ c.file = ui.file

ReadAnswered ==
  \E c \in calls :
    /\ c.k = "read" /\ calls' = calls \ {c}
    /\ \/ /\ ui' = [ui EXCEPT !.text = c.text, !.saved = c.text, !.loading = FALSE,
                              !.editable = c.pack \notin Official]
          /\ hist' = [hist EXCEPT !.torn = FALSE, !.right = Here(c) /\ c.n >= hist.wrote]
          /\ LeaveBehind(Standing(c), FALSE)
       \/ /\ ui' = [ui EXCEPT !.fileErr = TRUE, !.loading = FALSE]
          /\ hist' = [hist EXCEPT !.right = FALSE] /\ UNCHANGED edits
    /\ UNCHANGED srv

Open == ui.file # None /\ ~ui.loading /\ ~ui.fileErr

Type ==
  /\ Open /\ ui.editable /\ \E v \in Versions : ui' = [ui EXCEPT !.text.v = v]
  /\ Begin /\ UNCHANGED <<srv, calls, hist>>

\* The server writes to local packs only.
HandleSave ==
  /\ Open /\ ui.editable /\ Dirty /\ "save" \notin ui.busy /\ Room
  /\ ui' = [ui EXCEPT !.busy = @ \cup {"save"}] /\ UNCHANGED edits
  /\ LET ok == ui.pack \notin Official IN
     /\ srv' = IF ok THEN [srv EXCEPT !.text[ui.pack][ui.file] = ui.text] ELSE srv
     /\ calls' = calls \cup {[k |-> "save", n |-> hist.sent + 1, pack |-> ui.pack, file |-> ui.file,
                             ok |-> ok, text |-> ui.text, verdict |-> Verdict(srv', ui.pack)]}
     /\ hist' = [hist EXCEPT !.sent = @ + 1, !.wrote = IF ok THEN hist.sent + 1 ELSE @]

\* Mutant: what is in the editor now counts as saved.
SavedNow(text) == ui.text

\* What was sent is saved; the player may have typed on.
Saved(text) == text

\* Mutant: the verdict of the save is not shown.
JudgedBefore(v) == ui.verdict

Judged(v) == v

\* The answer brings the verdict; when it does not, the validator is asked.
SaveAnswered ==
  \E c \in calls :
    /\ c.k = "save"
    /\ \/ /\ c.ok /\ calls' = calls \ {c}
          /\ ui' = [ui EXCEPT !.saved = Saved(c.text), !.verdict = Judged(c.verdict),
                              !.busy = @ \ {"save"}]
          /\ hist' = [hist EXCEPT !.own = Own(c), !.right = @ /\ Here(c)] /\ Begin
       \/ /\ c.ok /\ hist.sent < MaxSends
          /\ ui' = [ui EXCEPT !.saved = Saved(c.text), !.validating = TRUE]
          /\ hist' = [hist EXCEPT !.sent = @ + 1, !.right = @ /\ Here(c)] /\ Begin
          /\ calls' = (calls \ {c}) \cup
               {[k |-> "validate", n |-> hist.sent + 1, pack |-> c.pack, ends |-> "save",
                 verdict |-> Verdict(srv, c.pack)]}
       \/ /\ calls' = calls \ {c} /\ ui' = [ui EXCEPT !.busy = @ \ {"save"}]
          /\ hist' = [hist EXCEPT !.torn = @ \/ c.ok, !.own = @ /\ ~c.ok] /\ UNCHANGED edits
    /\ UNCHANGED srv

-----------------------------------------------------------------------------
(* Copies and imports: the new pack is listed and picked *)

\* Mutant: the button is there for every file.
MayCopyAny == TRUE

\* The button is only there for a file that cannot be edited.
MayCopy == ~ui.editable

HandleCopyToLocal ==
  /\ Open /\ MayCopy /\ "copy" \notin ui.busy /\ Room /\ Copy \notin srv.packs
  /\ ui' = [ui EXCEPT !.busy = @ \cup {"copy"}]
  /\ srv' = [srv EXCEPT !.packs = @ \cup {Copy}, !.text[Copy] = srv.text[ui.pack]]
  /\ calls' = calls \cup {[k |-> "copy", n |-> hist.sent + 1]}
  /\ hist' = [hist EXCEPT !.sent = @ + 1] /\ UNCHANGED edits

\* Edits begun meanwhile are gone, unasked.
CopyAnswered ==
  \E c \in calls :
    /\ c.k = "copy" /\ UNCHANGED srv
    /\ \/ /\ hist.sent < MaxSends
          /\ ui' = [Picked(Copy) EXCEPT !.packs = @ \cup {Copy}]
          /\ calls' = (calls \ {c}) \cup {Validate(Copy, "copy")}
          /\ hist' = [hist EXCEPT !.sent = @ + 1] /\ LeaveBehind(Standing(c), FALSE)
       \/ /\ calls' = calls \ {c} /\ ui' = [ui EXCEPT !.busy = @ \ {"copy"}]
          /\ UNCHANGED <<edits, hist>>

\* The file may be refused; whether there are edits is seen now, not later.
HandleImport ==
  /\ "import" \notin ui.busy /\ Room /\ Imported \notin srv.packs
  /\ ui' = [ui EXCEPT !.busy = @ \cup {"import"}]
  /\ \E ok \in BOOLEAN :
       /\ srv' = IF ok THEN [srv EXCEPT !.packs = @ \cup {Imported}] ELSE srv
       /\ calls' = calls \cup {[k |-> "import", n |-> hist.sent + 1, ok |-> ok, dirty |-> Dirty]}
  /\ hist' = [hist EXCEPT !.sent = @ + 1] /\ UNCHANGED edits

\* Mutant: the imported pack is picked without a question.
AskedNever(c) == FALSE

\* Before the imported pack is picked the player is asked about the edits seen then;
\* edits begun later are gone, unasked.
Asked(c) == c.dirty

ImportAnswered ==
  \E c \in calls :
    /\ c.k = "import" /\ UNCHANGED srv
    /\ \/ /\ c.ok /\ hist.sent < MaxSends
          /\ ui' = [Picked(Imported) EXCEPT !.packs = @ \cup {Imported}]
          /\ calls' = (calls \ {c}) \cup {Validate(Imported, "import")}
          /\ hist' = [hist EXCEPT !.sent = @ + 1] /\ LeaveBehind(Standing(c), Asked(c))
       \/ /\ c.ok /\ Asked(c) /\ calls' = calls \ {c} /\ UNCHANGED <<edits, hist>>
          /\ ui' = [ui EXCEPT !.packs = @ \cup {Imported}, !.busy = @ \ {"import"}]
       \/ /\ calls' = calls \ {c} /\ ui' = [ui EXCEPT !.busy = @ \ {"import"}]
          /\ UNCHANGED <<edits, hist>>

-----------------------------------------------------------------------------
(* Publishing *)

HandlePublishToWorkshop ==
  /\ ui.pack # None /\ ui.pack \notin Official /\ ui.verdict = "pass" /\ "publish" \notin ui.busy
  /\ ui' = [ui EXCEPT !.busy = @ \cup {"publish"}]
  /\ UNCHANGED <<srv, calls, edits, hist>>
Published ==
  /\ "publish" \in ui.busy /\ ui' = [ui EXCEPT !.busy = @ \ {"publish"}]
  /\ UNCHANGED <<srv, calls, edits, hist>>

Next ==
  \/ ListAnswered \/ HandleSelectPack \/ RefreshValidation \/ ValidateAnswered
  \/ HandleSelectFile \/ ReadAnswered \/ Type \/ HandleSave \/ SaveAnswered
  \/ HandleCopyToLocal \/ CopyAnswered \/ HandleImport \/ ImportAnswered
  \/ HandlePublishToWorkshop \/ Published

Spec == Init /\ [][Next]_vars

-----------------------------------------------------------------------------
\* With nothing under way a file that shows no edits is the file on disk, unless
\* an answer was lost or one about another file came late.
CleanMeansSaved ==
  calls = {} /\ Open /\ hist.right /\ ~hist.torn /\ ~Dirty
    => srv.text[ui.pack][ui.file] = ui.text

\* With nothing under way the verdict shown is the pack's, unless an older one, or
\* another pack's, came later.
VerdictIsOwn ==
  calls = {} /\ hist.own /\ ui.pack # None
    => ui.verdict \in {None, Verdict(srv, ui.pack)}

\* Opening a pack or a file drops edits only on the player's word, and the answer of
\* a read, a copy or an import drops edits that were there when it was asked for only
\* on the player's word.  Edits begun while such an answer is under way it does drop
\* unasked, and of those nothing is claimed.
StandingEditsAreAsked == ~edits.dropped

-----------------------------------------------------------------------------
(* The inductive invariant behind them *)

Texts == [of : Files \cup {None}, v : Versions \cup {None}]
UiShape(u) ==
  u = [packs |-> u.packs, pack |-> u.pack, file |-> u.file, text |-> u.text, saved |-> u.saved,
       editable |-> u.editable, loading |-> u.loading, fileErr |-> u.fileErr, busy |-> u.busy,
       verdict |-> u.verdict, validating |-> u.validating]
Shape ==
  /\ UiShape(ui) /\ srv = [packs |-> srv.packs, text |-> srv.text]
  /\ hist = [sent |-> hist.sent, wrote |-> hist.wrote, own |-> hist.own, right |-> hist.right,
             torn |-> hist.torn]
  /\ hist.sent \in Nat /\ hist.wrote \in 0..hist.sent
  /\ srv.packs \subseteq AllPacks /\ srv.text \in [AllPacks -> [Files -> Texts]]
  /\ ui.packs \subseteq srv.packs /\ ui.pack \in srv.packs \cup {None}
  /\ ui.file \in Files \cup {None} /\ ui.text \in Texts
  /\ ui.file # None => ui.pack # None

\* What an answer on its way brings is so, as long as nothing was written since.
Kept(c) ==
  \/ c.k = "list" /\ c.packs \subseteq srv.packs
  \/ /\ c.k = "validate" /\ c.pack \in srv.packs /\ c.n \in 0..hist.sent
     /\ c.n >= hist.wrote => c.verdict = Verdict(srv, c.pack)
  \/ /\ c.k = "read" /\ c.pack \in srv.packs /\ c.file \in Files /\ c.text \in Texts
     /\ c.n \in 0..hist.sent
     /\ c.n >= hist.wrote => c.text = srv.text[c.pack][c.file]
  \/ /\ c.k = "save" /\ c.pack \in srv.packs /\ c.file \in Files
     /\ c.ok => c.text = srv.text[c.pack][c.file] /\ c.verdict = Verdict(srv, c.pack)
  \/ c.k = "copy" /\ Copy \in srv.packs
  \/ c.k = "import" /\ (c.ok => Imported \in srv.packs)
CallsKept == \A c \in calls : Kept(c)

\* One save at a time: its answer, or the verdict asked for when it came, is awaited.
Saving(c) == c.k = "save" \/ (c.k = "validate" /\ c.ends = "save")
OneSave ==
  \A c \in calls : Saving(c) => "save" \in ui.busy /\ \A d \in calls \ {c} : ~Saving(d)

\* The text counted as saved, and the verdict, are behind by a save under way.
Writing(c) == Saving(c) /\ (c.k = "save" => c.ok)
TextKept ==
  ui.file # None /\ ~ui.loading /\ hist.right /\ ~hist.torn =>
    ui.saved = srv.text[ui.pack][ui.file] \/ \E c \in calls : c.k = "save" /\ c.ok
VerdictKept ==
  hist.own /\ ui.pack # None =>
    ui.verdict \in {None, Verdict(srv, ui.pack)} \/ \E c \in calls : Writing(c)

\* No edits were there when an answer that will not ask about them was asked for.
WillNotAsk(c) == c.k \in {"read", "copy"} \/ (c.k = "import" /\ ~c.dirty)
EditsKept ==
  /\ edits \in [begun : Nat, dropped : BOOLEAN]
  /\ \A c \in calls : WillNotAsk(c) => c.n \in 0..hist.sent /\ ~Standing(c)

Inv == Shape /\ CallsKept /\ OneSave /\ TextKept /\ VerdictKept
EditsInv == EditsKept /\ StandingEditsAreAsked
=============================================================================
