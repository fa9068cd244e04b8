------------------------------- MODULE Include -------------------------------
(***************************************************************************)
(* The !include directives of a configuration (pkg/config/include.go): the *)
(* YAML tree of a file is walked, depth first, and a node that names a     *)
(* file is replaced by that file's tree, which is walked first.            *)
(*                                                                         *)
(* A node is [kind, items, of]: a "map" of values or a "seq" of items, a   *)
(* "scalar" of some text, or an "include" of a file.                       *)
(***************************************************************************)
EXTENDS Integers, Sequences, FiniteSets, SequencesExt

VARIABLES
  files,     (* the files that can be read and parsed, and their trees      *)
  visited,   (* the files whose trees are being walked                      *)
  frames,    (* the calls of resolveIncludes, the innermost last            *)
  walk       (* "walking", "done" or "failed"                               *)

includes == <<files, visited, frames, walk>>

(* A call at an item of a node, with the items it has put in place; root   *)
(* is the file whose tree the node is, "" for a node within one.           *)
Frame(root, node) == [root |-> root, node |-> node, at |-> 1, expanded |-> <<>>]

InitIncludes ==
  /\ visited = {"main"} /\ frames = <<Frame("main", files["main"])>> /\ walk = "walking"

Top  == Last(frames)
Child == Top.node.items[Top.at]

Within == walk = "walking" /\ Top.at <= Len(Top.node.items)

LoadInclude ==
  /\ Within /\ Child.kind = "include" /\ Child.of \in DOMAIN files \ visited
  /\ visited' = visited \cup {Child.of}
  /\ frames' = Append(frames, Frame(Child.of, files[Child.of]))
  /\ UNCHANGED <<files, walk>>

(* A circular include, or a file that cannot be read or parsed. *)
IncludeFails ==
  /\ Within /\ Child.kind = "include" /\ Child.of \notin DOMAIN files \ visited
  /\ walk' = "failed"
  /\ UNCHANGED <<files, visited, frames>>

Descend ==
  /\ Within /\ Child.kind # "include"
  /\ frames' = Append(frames, Frame("", Child))
  /\ UNCHANGED <<files, visited, walk>>

(* The sequence of an included file is spliced into a sequence. *)
Put(expanded, kind, root, node) ==
  IF root # "" /\ kind = "seq" /\ node.kind = "seq" THEN expanded \o node.items ELSE Append(expanded, node)

Resolved == [Top.node EXCEPT !.items = Top.expanded]

ReturnVisited == (* mutant: without the deferred delete *)
  /\ walk = "walking" /\ Top.at > Len(Top.node.items) /\ Len(frames) > 1
  /\ LET rest == Front(frames)
     IN  frames' = [rest EXCEPT ![Len(rest)].at = @ + 1,
                                ![Len(rest)].expanded = Put(@, Last(rest).node.kind, Top.root, Resolved)]
  /\ UNCHANGED <<files, visited, walk>>

Return ==
  /\ walk = "walking" /\ Top.at > Len(Top.node.items) /\ Len(frames) > 1
  /\ LET rest == Front(frames)
     IN  frames' = [rest EXCEPT ![Len(rest)].at = @ + 1,
                                ![Len(rest)].expanded = Put(@, Last(rest).node.kind, Top.root, Resolved)]
  /\ visited' = visited \ {Top.root}
  /\ UNCHANGED <<files, walk>>

IncludesResolved ==
  /\ walk = "walking" /\ Top.at > Len(Top.node.items) /\ Len(frames) = 1
  /\ walk' = "done"
  /\ UNCHANGED <<files, visited, frames>>

ResolveIncludes == LoadInclude \/ IncludeFails \/ Descend \/ Return \/ IncludesResolved
=============================================================================
