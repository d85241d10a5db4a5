----------------------------- MODULE IgnoredTree -----------------------------
(***************************************************************************)
(* The picker of Project settings > Hydration: the backend turns what git  *)
(* ignores into a tree, the page shows it, loads ignored directories as    *)
(* they are opened, and writes what the user tags into the manifest that   *)
(* Hydration follows.                                                      *)
(*                                                                         *)
(* A path is the sequence of its names from the project's root.            *)
(***************************************************************************)
EXTENDS Naturals, Sequences, SequencesExt

CONSTANTS Names,
          Noise,       \* the names of the files the system litters
          MaxDepth

VARIABLES ignored,     \* what git ls-files prints: path -> is it a directory
          todo,        \* its lines still to insert
          tree,        \* the nodes: where one is shown, the path it carries
          copy, symlink

vars == <<ignored, todo, tree, copy, symlink>>

Paths == UNION {[1..n -> Names] : n \in 1..MaxDepth}

\* Inside an ignored directory there is one file of every name.
OnDisk(p) == \E q \in DOMAIN ignored : q = p \/ (ignored[q] /\ Front(p) = q)

\* --directory: a directory stands for all that is below it.
Init == /\ \E listed \in {{p, q} : p, q \in Paths} :
            /\ \A p, q \in listed : IsStrictPrefix(p, q) = FALSE
            /\ ignored \in [listed -> BOOLEAN]
        /\ todo = DOMAIN ignored
        /\ tree = {}
        /\ copy = {}
        /\ symlink = {}

-----------------------------------------------------------------------------
(* The tree.                                                               *)

\* is_noise_filename, of any name on the way.
IsNoise(path) == Range(path) \cap Noise # {}

Node(at, path, dir) == [at |-> at, path |-> path, dir |-> dir]

\* insert_node: a directory on the way is found by its name or made, and the
\* rest of the path goes to its children.
RECURSIVE InsertNode(_, _, _, _, _)
InsertNode(nodes, above, components, dir, path) ==
    LET here == Append(above, Head(components))
        made == IF \E n \in nodes : n.at = here THEN {} ELSE {Node(here, <<Head(path)>>, TRUE)}
    IN  IF Len(components) = 1
        THEN nodes \cup {Node(here, path, dir)}
        ELSE InsertNode(nodes \cup made, here, Tail(components), dir, Tail(path))

\* build_tree_from_git_lines, a line at a time.
InsertLine(line) ==
    /\ line \in todo
    /\ todo' = todo \ {line}
    /\ tree' = IF IsNoise(line) THEN tree
               ELSE InsertNode(tree, <<>>, line, ignored[line], line)
    /\ UNCHANGED <<ignored, copy, symlink>>

-----------------------------------------------------------------------------
(* The page.                                                               *)

\* project_list_dir, when a directory without children is opened.
Expand(node) ==
    /\ todo = {}
    /\ node.dir /\ ~\E n \in tree : IsStrictPrefix(node.at, n.at)
    /\ tree' = tree \cup
           {Node(Append(node.at, name), Append(node.path, name), FALSE) :
               name \in {x \in Names \ Noise : OnDisk(Append(node.path, x))}}
    /\ tree' # tree
    /\ UNCHANGED <<ignored, todo, copy, symlink>>

\* handleHydrationToggle: the choice a node has already is taken back.
Toggle(node, choice) ==
    /\ todo = {}
    /\ LET had == IF node.path \in copy THEN "copy"
                  ELSE IF node.path \in symlink THEN "symlink" ELSE "none"
           set == IF choice = had THEN "none" ELSE choice
       IN /\ copy' = IF set = "copy" THEN copy \cup {node.path} ELSE copy \ {node.path}
          /\ symlink' = IF set = "symlink" THEN symlink \cup {node.path} ELSE symlink \ {node.path}
    /\ UNCHANGED <<ignored, todo, tree>>

Next == \/ \E line \in todo : InsertLine(line)
        \/ \E node \in tree : Expand(node)
        \/ \E node \in tree, choice \in {"copy", "symlink"} : Toggle(node, choice)

Spec == Init /\ [][Next]_vars

-----------------------------------------------------------------------------
(* Properties.                                                             *)

\* GitignoreNode's comment: a node's path is relative to the project's root,
\* so what the user tags is the file shown there.
TagsNameTheirFile == \A p \in copy \cup symlink : \E n \in tree : n.at = p
=============================================================================
