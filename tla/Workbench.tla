------------------------------ MODULE Workbench ------------------------------
(* The creator workbench of the API (routes/workbench.ts): packs of the       *)
(* official root are read-only, packs of the local-dev root are edited file   *)
(* by file, validated, exported, imported from an archive and copied.         *)
(* Handlers are synchronous, so calls do not interleave; what can go wrong is *)
(* a handler that fails or a process that dies half-way through its writes.   *)
EXTENDS PackLoader

CONSTANTS Official,   \* the pack shipped with the program
          Foreign,    \* archives that come from elsewhere
          MaxEdits,   \* bound: edits and failed copies
          MaxPacks    \* bound: packs in the local-dev root

VARIABLES local,      \* slug -> pack, a slug being <<name, suffix>>
          archive,    \* the last archive exported, if any
          left        \* edits left
vars == <<local, archive, left>>

NoPack == [docs |-> <<>>]
Slugs == DOMAIN local
Free(s) == s \notin Slugs

Init == local = <<>> /\ archive = NoPack /\ left = MaxEdits

Put(slug, b) == [s \in Slugs \cup {slug} |-> IF s = slug THEN b ELSE local[s]]

-----------------------------------------------------------------------------
(* Validation *)

Issue(r) == [rule |-> r.code, file |-> r.file]
Security == {"FORBIDDEN_FILE", "FORBIDDEN_BINARY"}

\* scanForbiddenFiles: every symlink and every forbidden extension; it does not
\* look into files.  What it reports, by place in the folder.
ScanForbiddenFiles(b) == {i \in 1..Len(b.stray) : b.stray[i].what # "binary"}

\* Mutants: every security finding of the loader is dropped; none is.
DroppedAll(b, r) == r.code \in Security

DroppedNone(b, r) == FALSE

\* The loader's report of a file the first phase reported already.
Dropped(b, r) ==
  r.code \in Security /\ \E s \in ToSet(b.stray) : s.what # "binary" /\ s.file = r.file

\* The two phases of the validate, export and import handlers: the findings of
\* the scan, each by the place of its file, and after them that of the loader.
Issues(b) ==
  LET r     == LoadPack(b)
      added == IF r.code = "ok" \/ Dropped(b, r) THEN {} ELSE {Len(b.stray) + 1}
  IN [i \in ScanForbiddenFiles(b) \cup added |->
        IF i \in added THEN Issue(r) ELSE Issue(ScanResult(b.stray[i]))]

Valid(b) == DOMAIN Issues(b) = {}

-----------------------------------------------------------------------------
(* The handlers *)

\* What one save changes of a file: its form, its id, or the first path it names.
Edited(doc) ==
  {[doc EXCEPT !.text = t] : t \in {"garbled", "old", "misfit"}}
    \cup {[doc EXCEPT !.id = i] : i \in {"x", "y"}}
    \cup (IF doc.kind = "scenario"
          THEN {[doc EXCEPT !.refs = <<r>> \o Tail(@)] : r \in {"npc1", "gone", Outside}}
          ELSE IF doc.kind = "npc" THEN {[doc EXCEPT !.refs = <<Outside>>]} ELSE {})

\* PUT file: an editable path of a local pack gets new text, at once or not at
\* all (a temporary file is renamed over the old one).
Write ==
  \E slug \in Slugs, path \in DOMAIN Official.docs :
    /\ left > 0 /\ Official.docs[path] # Absent
    /\ LET old == IF local[slug].docs[path] = Absent THEN Official.docs[path]
                  ELSE local[slug].docs[path]
       IN \E doc \in Edited(old) : local' = [local EXCEPT ![slug].docs[path] = doc]
    /\ left' = left - 1
    /\ UNCHANGED archive

\* A creator drops files into the folder, past the workbench.
Stray ==
  \E slug \in Slugs, what \in {"script", "symlink", "binary"}, file \in {"f1", "f2"} :
    /\ left > 0 /\ \A s \in ToSet(local[slug].stray) : s.file # file
    /\ local' = [local EXCEPT ![slug].stray = Append(@, [what |-> what, file |-> file])]
    /\ left' = left - 1
    /\ UNCHANGED archive

\* Or gives the pack another version or entry list.
Relabel ==
  \E slug \in Slugs, v \in {<<1, 10, 0>>, <<2, 0, 0>>},
     e \in {<<"s2">>, <<"npc1">>, <<Outside>>} :
    /\ left > 0
    /\ local' = [local EXCEPT ![slug].version = v, ![slug].entries = e]
    /\ left' = left - 1
    /\ UNCHANGED archive

\* GET export: an invalid pack is refused with its issues.
Export ==
  \E slug \in Slugs :
    /\ Valid(local[slug])
    /\ archive' = local[slug]
    /\ UNCHANGED <<local, left>>

\* copyDirRecursive: the whole tree, or what was copied when it failed.
Copied(slug, b) ==
  \/ local' = Put(slug, b) /\ left' = left
  \/ left > 0 /\ local' = Put(slug, [b EXCEPT !.docs["safety"] = Absent]) /\ left' = left - 1

\* Mutant: the folder is not looked up.
FreeSlugUnchecked(name, mark) == <<name, "", 1>>

\* The first free slug: the name itself, then with a counted suffix.
FreeSlug(name, mark) ==
  IF Free(<<name, "", 1>>) THEN <<name, "", 1>>
  ELSE LET first == IF mark = "copy" THEN 1 ELSE 2
           n == CHOOSE k \in first..(MaxPacks + 2) :
                  Free(<<name, mark, k>>) /\ \A j \in first..(k - 1) : ~Free(<<name, mark, j>>)
       IN <<name, mark, n>>

\* POST import: an unsafe or invalid archive leaves nothing behind.
Importable ==
  {b \in Foreign \cup ({archive} \ {NoPack}) : ~b.unsafe /\ Valid(b)}

Import ==
  \E b \in Importable :
    /\ Cardinality(Slugs) < MaxPacks
    /\ Copied(FreeSlug(b.docs["manifest"].id, ""), b)
    /\ UNCHANGED archive

\* The same with conflict=overwrite: the old pack goes before the new one comes.
ImportOver ==
  \E b \in Importable :
    /\ ~Free(<<b.docs["manifest"].id, "", 1>>)
    /\ Copied(<<b.docs["manifest"].id, "", 1>>, b)
    /\ UNCHANGED archive

\* POST copy-to-local, of an official pack.
CopyToLocal ==
  /\ Cardinality(Slugs) < MaxPacks
  /\ Copied(FreeSlug("x", "copy"), Official)
  /\ UNCHANGED archive

Next == Write \/ Stray \/ Relabel \/ Export \/ Import \/ ImportOver \/ CopyToLocal
Spec == Init /\ [][Next]_vars

-----------------------------------------------------------------------------
\* A pack the workbench calls valid is exactly one the loader accepts: the
\* filter that drops doubled reports never drops the only one.
ValidMeansLoadable == \A s \in Slugs : Valid(local[s]) <=> Loads(local[s])

\* No file is reported twice, and a disguised binary is reported even next to
\* an unrelated script.
EachFileOnce ==
  \A s \in Slugs :
    LET issues == Issues(local[s]) IN
    /\ \A i, j \in DOMAIN issues :
         i # j /\ issues[i].rule \in Security => issues[i].file # issues[j].file
    /\ LoadPack(local[s]).code = "FORBIDDEN_BINARY"
         => \E i \in DOMAIN issues : issues[i].rule = "FORBIDDEN_BINARY"

\* Every scenario of a pack that loads can be handed to a session: none of its
\* documents is missing from what was kept.
LoadedResolves ==
  \A s \in Slugs : LET b == local[s] IN
    Loads(b) => \A f \in ToSet(b.scenarios) : ResolveBundle(b, b.docs[f].id)

\* Of the packs of one id under the two roots, one is selected, none that loads
\* is newer, and the official one wins a tie.
NewestSelected ==
  LET dirs == <<Official>> \o SetToSeq({local[s] : s \in Slugs})
      best == LoadPacksFromRoots(dirs)
      id(b) == b.docs["manifest"].id
  IN \A b \in {d \in ToSet(dirs) : Loads(d)} :
       LET same == {c \in best : id(c) = id(b)} IN
       /\ Cardinality(same) = 1
       /\ \A c \in same : /\ ~Newer(b.version, c.version)
                          /\ b = Official /\ c.version = b.version => c = b

\* An import that was not told to overwrite, or a copy, leaves every pack that
\* was there as it was.
NothingOverwritten ==
  [][Import \/ CopyToLocal => \A s \in Slugs : local'[s] = local[s]]_vars
=============================================================================
