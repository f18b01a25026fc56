----------------------------- MODULE PackLoader -----------------------------
(* What the pack loader makes of a directory (packages/pack-loader): the      *)
(* order of its checks, the first of which decides, the references it         *)
(* resolves, the bundle it hands to a session, and the choice between packs   *)
(* of one id found under several roots.                                       *)
(*                                                                            *)
(* A directory is a record: stray is what the scan for executable content     *)
(* meets, in reading order; docs maps the other paths to what their file      *)
(* says, Absent for no file; scenarios lists the files of scenarios/.         *)
EXTENDS Naturals, FiniteSets, Sequences, SequencesExt

Absent == [kind |-> "absent", text |-> "none", id |-> "none", refs |-> <<>>]

\* A reference that leaves the pack root.
Outside == "outside"

\* A result: a code and the file the error names.
Found(code, file) == [code |-> code, file |-> file]
Fine == Found("ok", "none")
FirstBad(results) ==
  LET bad == SelectSeq(results, LAMBDA r : r.code # "ok")
  IN IF bad = <<>> THEN Fine ELSE Head(bad)

\* scanPackForForbiddenContent: symlinks and forbidden extensions, then magic
\* bytes, file by file.
ScanResult(s) ==
  Found(IF s.what = "binary" THEN "FORBIDDEN_BINARY" ELSE "FORBIDDEN_FILE", s.file)

Scan(b) == IF b.stray = <<>> THEN Fine ELSE ScanResult(Head(b.stray))

\* parseAndValidate: the text is YAML and an object, of the supported version,
\* and fits the schema of the expected kind.
Parse(doc, kind, file) ==
  CASE doc.text = "garbled" -> Found("INVALID_YAML", file)
    [] doc.text = "list"    -> Found("INVALID_YAML", file)
    [] doc.text = "old"     -> Found("UNSUPPORTED_VERSION", file)
    [] doc.text = "misfit"  -> Found("SCHEMA_VALIDATION", file)
    [] doc.text = "good"    -> IF doc.kind = kind THEN Fine ELSE Found("SCHEMA_VALIDATION", file)

\* resolveRef and readPackFile, then parseAndValidate.
Resolved(ref) == IF ref = Outside THEN Found("PATH_TRAVERSAL", ref) ELSE Fine

Load(b, ref, kind) ==
  IF ref = Outside THEN Resolved(ref)
  ELSE IF b.docs[ref] = Absent THEN Found("MISSING_FILE", ref)
  ELSE Parse(b.docs[ref], kind, ref)

\* A referenced document and the picture it may name in turn.
LoadRef(b, ref, kind) ==
  << Load(b, ref, kind) >> \o
  (IF ref = Outside \/ b.docs[ref] = Absent THEN <<>>
   ELSE [i \in 1..Len(b.docs[ref].refs) |-> Resolved(b.docs[ref].refs[i])])

RefKinds == <<"npc", "rubric", "scene">>

\* One scenario file: parse, duplicate id, then npc, rubric and optional scene.
ScenarioResults(b, i) ==
  LET file == b.scenarios[i]
      doc  == b.docs[file]
      twin == \E j \in 1..(i - 1) : b.docs[b.scenarios[j]].id = doc.id
  IN << Parse(doc, "scenario", file),
        IF twin THEN Found("DUPLICATE_ID", file) ELSE Fine >> \o
     FlattenSeq([k \in 1..Len(doc.refs) |-> LoadRef(b, doc.refs[k], RefKinds[k])])

\* Mutant: only what the first scenario reaches is kept.
ReachedFirst(b, k) ==
  {b.docs[f].refs[k] : f \in {s \in {b.scenarios[1]} : Len(b.docs[s].refs) >= k}}

\* The paths a pack's scenarios reach, by position of the reference: the npcs,
\* rubrics and scenes that loadPack keeps.
Reached(b, k) ==
  {b.docs[f].refs[k] : f \in {s \in ToSet(b.scenarios) : Len(b.docs[s].refs) >= k}}

EntryResult(b, e) ==
  IF e = Outside THEN Resolved(e)
  ELSE IF e \in ToSet(b.scenarios) THEN Fine ELSE Found("MISSING_FILE", e)

NpcTwins(b) ==
  \E p, q \in Reached(b, 1) : p # q /\ b.docs[p].id = b.docs[q].id

\* loadPack: the first check that fails decides.
LoadPack(b) ==
  LET manifest == b.docs["manifest"] IN
  IF Scan(b) # Fine THEN Scan(b)
  ELSE FirstBad(
    << Load(b, "manifest", "pack") >> \o
    (IF manifest.refs = <<>> THEN <<>> ELSE << Load(b, manifest.refs[1], "safety") >>) \o
    FlattenSeq([i \in 1..Len(b.scenarios) |-> ScenarioResults(b, i)]) \o
    [e \in 1..Len(b.entries) |-> EntryResult(b, b.entries[e])] \o
    << IF NpcTwins(b) THEN Found("DUPLICATE_ID", "none") ELSE Fine >>)

Loads(b) == LoadPack(b).code = "ok"

\* resolveBundle on a loaded pack: the first scenario of that id is found, and
\* every document it names was kept.
ResolveBundle(b, id) ==
  LET named(i) == b.docs[b.scenarios[i]].id = id
  IN \E i \in 1..Len(b.scenarios) :
       /\ named(i) /\ \A j \in 1..(i - 1) : ~named(j)
       /\ LET refs == b.docs[b.scenarios[i]].refs
          IN \A k \in 1..Len(refs) : refs[k] \in Reached(b, k)

-----------------------------------------------------------------------------
(* Several roots *)

\* Mutant: the components are compared one by one.
NewerLoose(v, w) == v[1] > w[1] \/ v[2] > w[2] \/ v[3] > w[3]

\* compareSemver(v, w) > 0.
Newer(v, w) ==
  \/ v[1] > w[1]
  \/ v[1] = w[1] /\ v[2] > w[2]
  \/ v[1] = w[1] /\ v[2] = w[2] /\ v[3] > w[3]

\* loadPacksFromRoots, for the directories of the roots in reading order: what
\* loads is kept, and of one pack id the newest, the first among equals.
LoadPacksFromRoots(dirs) ==
  LET loaded == {i \in 1..Len(dirs) : Loads(dirs[i])}
      id(b)  == b.docs["manifest"].id
      beaten(i) == \E j \in loaded :
                     /\ id(dirs[j]) = id(dirs[i])
                     /\ \/ Newer(dirs[j].version, dirs[i].version)
                        \/ j < i /\ ~Newer(dirs[i].version, dirs[j].version)
  IN {dirs[i] : i \in {n \in loaded : ~beaten(n)}}
=============================================================================
