------------------------------ MODULE Inlining ------------------------------
(***************************************************************************)
(* The tree a file with !include directives stands for, defined without    *)
(* the walk of Include: on the nodes of the trees and the files that       *)
(* include one another.                                                    *)
(***************************************************************************)
EXTENDS Config

CONSTANT Depth   (* bound: no tree is deeper                               *)

(* The nodes of a tree of one file, by how deep they are.                  *)
Nodes(tree) ==
  LET level[n \in 0 .. Depth] ==
        IF n = 0 THEN {tree}
        ELSE UNION {{i \in ToSet(node.items) : i.kind # "include"} : node \in level[n - 1]}
  IN  UNION {level[n] : n \in 0 .. Depth}

(* Trees end, nodes have the fields the walk looks at, and no file has the *)
(* empty path, as filepath.Clean yields none.                              *)
ASSUME TreesAssumption ==
  /\ Depth \in Nat
  /\ \A s \in Setups :
       /\ "main" \in DOMAIN s.files /\ "" \notin DOMAIN s.files
       /\ \A f \in DOMAIN s.files : \A node \in Nodes(s.files[f]) :
            /\ {"kind", "items"} \subseteq DOMAIN node
            /\ node.items \in Seq(ToSet(node.items))
            /\ {i \in ToSet(node.items) : i.kind # "include"} \subseteq Nodes(s.files[f])

(* The files that the tree of a file names.                                *)
Includes(f) ==
  LET items == UNION {ToSet(node.items) : node \in Nodes(files[f])}
  IN  {i.of : i \in {i \in items : i.kind = "include"}}

(* The files that main comes to: the least set that is closed.             *)
Names == {"main"} \cup UNION {Includes(f) : f \in DOMAIN files}

Closed(fs) == \A f \in fs \cap DOMAIN files : Includes(f) \subseteq fs

Reached == {f \in Names : \A fs \in SUBSET Names : "main" \in fs /\ Closed(fs) => f \in fs}

(* All of them exist and none includes itself in the end: wherever one     *)
(* looks, some file includes none of the others.                           *)
WellFounded ==
  /\ Reached \subseteq DOMAIN files
  /\ \A fs \in SUBSET Reached : fs # {} => \E f \in fs : Includes(f) \cap fs = {}

Inlined ==
  LET inlined[node \in UNION {Nodes(files[f]) : f \in Reached}] ==
        LET Part(i) == IF i.kind # "include" THEN <<inlined[i]>>
                       ELSE IF node.kind = "seq" /\ files[i.of].kind = "seq" THEN inlined[files[i.of]].items
                       ELSE <<inlined[files[i.of]]>>
        IN  [node EXCEPT !.items = FlattenSeq([j \in DOMAIN node.items |-> Part(node.items[j])])]
  IN  inlined

(* Includes are resolved unless a file is missing or includes itself in    *)
(* the end, and then each is replaced by the file it names, once for each  *)
(* time it is named.                                                       *)
IncludesExact ==
  /\ walk = "failed" => ~WellFounded
  /\ walk = "done" => WellFounded /\ Resolved = Inlined[files["main"]]
=============================================================================
