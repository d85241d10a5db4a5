------------------------------ MODULE Hydration ------------------------------
(***************************************************************************)
(* apply_hydration: the copy rules of a manifest, then its symlink rules,  *)
(* one at a time, from the main checkout into a new worktree.  Both are a  *)
(* small tree of paths.  A symlink in the worktree leads back into the     *)
(* main checkout, so a later rule below it must not be followed.           *)
(*                                                                         *)
(* Named assumption: the main checkout's own directories and files hold no  *)
(* symlinks.  copy_dir_walk would make such a link again in the worktree,   *)
(* and a copy rule that names one would follow it.                         *)
(***************************************************************************)
EXTENDS Integers, Sequences, Functions

CONSTANTS
    Paths,   \* the paths rules can name
    Parent,  \* per path: the path above it, Top at the root
    Top

VARIABLES
    source,   \* main checkout, per path: "none", "file", "dir"
    target,   \* worktree, per path: those or "link", a link to source's path
    checkout, \* the worktree as git left it
    copies,   \* rules to do
    links,
    manifest, \* all of them
    result    \* "running", "ok", "failed"

vars == <<source, target, checkout, copies, links, manifest, result>>

Chain[p \in Paths \cup {Top}] == IF p = Top THEN {} ELSE {p} \cup Chain[Parent[p]]
Above(p) == Chain[p] \ {p}
Below(p) == {q \in Paths : p \in Chain[q]}

\* A tree of files and directories.
IsTree(t) == \A p \in Paths : t[p] /= "none" => \A q \in Above(p) : t[q] = "dir"

Rules == {s \in UNION {[1..n -> Paths] : n \in 0..2} : IsInjective(s)}

Init ==
    /\ source \in {t \in [Paths -> {"none", "file", "dir"}] : IsTree(t)}
    /\ checkout \in {t \in [Paths -> {"none", "file", "dir"}] : IsTree(t)}
    /\ target = checkout
    /\ copies \in Rules /\ links \in Rules
    /\ \E c \in Rules :   \* the rules as written, of which symlinks win
         /\ manifest = [copy |-> Range(c), symlink |-> Range(links)]
         /\ Range(copies) = Range(c) \ Range(links)
    /\ result = "running"

\* Mutant: only the text of the rule is looked at.
EscapesByName(p) == FALSE

\* safe_join: the closest ancestor that exists, followed through links, is not
\* inside the worktree.
Escapes(p) == \E q \in Chain[p] : target[q] = "link"

Rejected(p) ==
    /\ Escapes(p)
    /\ result' = "failed"
    /\ UNCHANGED <<source, target, checkout, copies, links, manifest>>

\* create_dir_all of the parents fails on a file in the way.
Blocked(p) == \E q \in Above(p) : target[q] = "file"
MadeDirs(p, t) == [q \in Paths |-> IF q \in Above(p) THEN "dir" ELSE t[q]]

\* What writing kind k at p changes, wherever links lead.
Lands(p, t, k) == IF \E q \in Above(p) : target[q] = "link" THEN target ELSE [t EXCEPT ![p] = k]
Leaks(p, k)    == IF \E q \in Above(p) : target[q] = "link" THEN [source EXCEPT ![p] = k] ELSE source

\* copy_dir_recursive merges into what is there; fs::copy needs a file or nothing.
CopyFits(p) ==
    \A q \in Below(p) : source[q] /= "none" => target[q] \in {"none", source[q]}
Copied(p) == [q \in Paths |->
    IF q \in Below(p) /\ source[q] /= "none" THEN source[q] ELSE MadeDirs(p, target)[q]]

CopyRule ==
    /\ result = "running" /\ copies /= <<>>
    /\ LET p == Head(copies) IN
       \/ Rejected(p)
       \/ /\ ~Escapes(p) /\ source[p] = "none"       \* skipped
          /\ copies' = Tail(copies)
          /\ UNCHANGED <<source, target, checkout, links, manifest, result>>
       \/ /\ ~Escapes(p) /\ source[p] /= "none" /\ ~Blocked(p) /\ CopyFits(p)
          /\ target' = Copied(p)
          /\ copies' = Tail(copies)
          /\ UNCHANGED <<source, checkout, links, manifest, result>>
       \/ /\ ~Escapes(p) /\ source[p] /= "none" /\ (Blocked(p) \/ ~CopyFits(p))
          /\ result' = "failed"
          /\ UNCHANGED <<source, target, checkout, copies, links, manifest>>

\* What is in the way of a link is removed with all below it.
Cleared(p) == [q \in Paths |-> IF q \in Below(p) THEN "none" ELSE MadeDirs(p, target)[q]]

LinkRule ==
    /\ result = "running" /\ copies = <<>> /\ links /= <<>>
    /\ LET p == Head(links) IN
       \/ Rejected(p)
       \/ /\ ~Escapes(p) /\ source[p] = "none"
          /\ links' = Tail(links)
          /\ UNCHANGED <<source, target, checkout, copies, manifest, result>>
       \/ /\ ~Escapes(p) /\ source[p] /= "none" /\ ~Blocked(p)
          /\ target' = Lands(p, Cleared(p), "link")
          /\ source' = Leaks(p, "link")
          /\ links' = Tail(links)
          /\ UNCHANGED <<checkout, copies, manifest, result>>
       \/ /\ ~Escapes(p) /\ source[p] /= "none" /\ Blocked(p)
          /\ result' = "failed"
          /\ UNCHANGED <<source, target, checkout, copies, links, manifest>>

Report ==
    /\ result = "running" /\ copies = <<>> /\ links = <<>>
    /\ result' = "ok"
    /\ UNCHANGED <<source, target, checkout, copies, links, manifest>>

Next == CopyRule \/ LinkRule \/ Report

Spec == Init /\ [][Next]_vars

-----------------------------------------------------------------------------
\* hydrate.rs: "defeat symlink escapes": no rule, in any order, changes the main
\* checkout by writing through a link an earlier rule has made.
LeavesSource == source' = source
SourceUntouched == [][LeavesSource]_vars

\* What a manifest promises, independent of its order: the outermost link
\* asked for, otherwise the copy of whatever is asked for, otherwise what git
\* checked out.
Promised(p) ==
    LET linked(q) == q \in manifest.symlink /\ source[q] /= "none"
        copied(q) == source[q] /= "none" /\ \E r \in Chain[q] : r \in manifest.copy \ manifest.symlink
    IN  IF \E q \in Above(p) : linked(q) THEN "none"
        ELSE IF linked(p) THEN "link"
        ELSE IF copied(p) THEN source[p]
        ELSE IF \E q \in Below(p) \ {p} : linked(q) \/ copied(q) THEN "dir"
        ELSE checkout[p]

MeetsManifest == result = "ok" => \A p \in Paths : target[p] = Promised(p)
=============================================================================
