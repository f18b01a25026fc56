------------------------------- MODULE MCPacks -------------------------------
(* The library of packs and the creator workbench with the pack loader,       *)
(* explored side by side: each behaviour exercises one of them (part).        *)
EXTENDS PackLibrary, Sequences, TLC

CONSTANTS MaxEdits, MaxPacks

ASSUME BoundsAssumption == MaxEdits \in Nat /\ MaxPacks \in Nat

VARIABLES part, local, archive, left

\* A pack of two scenarios that share a rubric; "gone" is a path with no file.
Doc(kind, id, refs) == [kind |-> kind, text |-> "good", id |-> id, refs |-> refs]
NoDoc == [kind |-> "absent", text |-> "none", id |-> "none", refs |-> <<>>]
Official ==
  [docs |-> [manifest |-> Doc("pack", "x", <<"safety">>), safety |-> Doc("safety", "x", <<>>),
             s1 |-> Doc("scenario", "x", <<"npc1", "rubric">>),
             s2 |-> Doc("scenario", "y", <<"npc2", "rubric", "scene">>),
             npc1 |-> Doc("npc", "x", <<>>), npc2 |-> Doc("npc", "y", <<"art">>),
             rubric |-> Doc("rubric", "x", <<>>), scene |-> Doc("scene", "x", <<"art">>),
             gone |-> NoDoc, outside |-> NoDoc],
   stray |-> <<>>, scenarios |-> <<"s1", "s2">>, entries |-> <<"s1">>,
   version |-> <<1, 9, 0>>, unsafe |-> FALSE]
Foreign ==
  {[Official EXCEPT !.version = <<1, 10, 0>>, !.docs["manifest"].id = "y"],
   [Official EXCEPT !.unsafe = TRUE],
   [Official EXCEPT !.stray = <<[what |-> "binary", file |-> "f1"]>>]}

Bench == INSTANCE Workbench

Library == <<disk, index, items, quar, steam, live, hist>>
Desk    == <<local, archive, left>>

MCInit == part \in {"library", "bench"} /\ Init /\ Bench!Init
MCNext ==
  \/ part = "library" /\ Next /\ UNCHANGED <<part, Desk>>
  \/ part = "bench" /\ Bench!Next /\ UNCHANGED <<part, Library>>
MCSpec == MCInit /\ [][MCNext]_<<part, Library, Desk>>

ItemSymmetry == Permutations(Items)

\* Two packs of one scenario each, good and bad, and one that shares an id.
MCContents ==
  {[id |-> "p1", ok |-> TRUE, scens |-> {"s1"}], [id |-> "p1", ok |-> FALSE, scens |-> {}],
   [id |-> "p1", ok |-> TRUE, scens |-> {"s1", "s2"}], [id |-> "p2", ok |-> TRUE, scens |-> {"s2"}]}

\* The workbench and the loader judge alike: what is called valid loads and
\* resolves, an offending file is reported once and a disguised binary always,
\* and of one pack id the newest that loads is selected.
VerdictsAgree ==
  part = "bench" => /\ Bench!ValidMeansLoadable /\ Bench!EachFileOnce
                    /\ Bench!LoadedResolves /\ Bench!NewestSelected

\* Imports and copies leave the packs that were there alone.
NothingOverwritten == Bench!NothingOverwritten
=============================================================================
