--------------------------- MODULE Worktrees_proofs ---------------------------
(***************************************************************************)
(* Theorems about Worktrees, for every set of worktrees and of commands    *)
(* and for every bound: no commit leaves the repository unasked, and the   *)
(* watched directories are those on disk.                                  *)
(***************************************************************************)
EXTENDS Worktrees, TLAPS

(* The main worktree is none of the linked ones, None names no branch, and  *)
(* no old worktree has the branch the main one starts on.                   *)
Sites == Root \notin Trees /\ None \notin Branches /\ Old \subseteq Trees \ {Trunk}

Op == {None, "create", "remove", "merge"}
Working == {"pre", "add", "meta", "hydrate", "post", "list", "drop", "tree", "branch",
            "guard", "merge", "abort"}

(* A call's record; what the stashes to drop are is of no concern to most.  *)
Record(D) ==
    [op : Op, pc : Working \cup {"idle", "rescan", "over"}, tree : Places,
     src : Branches \cup {None}, at : Places, onto : Branches \cup {None},
     base : Branches \cup {None}, make : BOOLEAN, force : BOOLEAN, clear : BOOLEAN,
     gone : BOOLEAN, kill : BOOLEAN, drop : D]

Types ==
    /\ head \in [Places -> Branches \cup {None}] /\ refs \subseteq Branches
    /\ log \in [Branches -> SUBSET Nat] /\ commits \in Nat
    /\ \E D : call \in [Calls -> Record(D)]

(* The main worktree has a branch, and the branches checked out exist. *)
Rooted == head[Root] /= None /\ \A w \in Places : head[w] /= None => head[w] \in refs

(* The commands work on linked worktrees. *)
Named == \A c \in Calls : call[c].pc \in Working => call[c].tree \in Trees

(* Whatever differs between the watched directories and those on disk, some *)
(* call has yet to rescan, or the model has set it down as missed.          *)
Owes(c, w) ==
    \/ call[c].pc = "rescan"
    \/ call[c].pc \in {"meta", "hydrate", "post", "branch"} /\ call[c].tree = w

Owed ==
    watcher /= None => \A w \in Places \ missed :
        (w \in watcher <=> w \in Present) \/ \E c \in Calls : Owes(c, w)

IInv == Types /\ Rooted /\ Named /\ Owed

-----------------------------------------------------------------------------
(* A record stays one when the set its stashes are taken from grows. *)
LEMMA Wider ==
    ASSUME NEW D, NEW E, D \subseteq E
    PROVE  Record(D) \subseteq Record(E)
BY DEF Record

(* One call's record changes, to one of the set r's stashes are in. *)
LEMMA OneCall ==
    ASSUME NEW D, call \in [Calls -> Record(D)], NEW c \in Calls, NEW E, NEW r \in Record(E),
           call' = [call EXCEPT ![c] = r]
    PROVE  /\ \E F : call' \in [Calls -> Record(F)]
           /\ call'[c] = r /\ \A d \in Calls \ {c} : call'[d] = call[d]
<1>1. Record(D) \subseteq Record(D \cup E) /\ Record(E) \subseteq Record(D \cup E)
  BY Wider
<1>2. call' \in [Calls -> Record(D \cup E)]
  BY <1>1
<1> QED
  BY <1>2

\* A call's record before it starts, and with its progress set.
LEMMA FreshIs ==
    /\ Fresh \in Record({{}}) /\ Fresh.pc = "idle" /\ Fresh.tree = Root
    /\ \A p \in Working \cup {"idle", "rescan", "over"} :
          [Fresh EXCEPT !.pc = p] \in Record({{}}) /\ [Fresh EXCEPT !.pc = p].pc = p
<1>1. Root \in Places
  BY DEF Places
<1> QED
  BY <1>1 DEF Fresh, Record, Op, Working

(* What a step of a call does to its record: where it was and where it is,  *)
(* and that it works on the same worktree or has just been given one.       *)
Moves(c, from, to) ==
    /\ call[c].pc \in from /\ call'[c].pc \in to
    /\ call'[c].pc \in Working => call'[c].tree \in Trees
    /\ call'[c].tree = call[c].tree \/ call[c].pc = "idle" \/ to \subseteq {"rescan", "over"}
    /\ \A d \in Calls \ {c} : call'[d] = call[d]
    /\ \E F : call' \in [Calls -> Record(F)]

\* A call that goes on keeps its worktree.
LEMMA GoesMoves ==
    ASSUME Types, Named, NEW c \in Calls, NEW p \in Working, Goes(c, p), call[c].pc \in Working
    PROVE  Moves(c, {call[c].pc}, {p})
<1>1. PICK D : call \in [Calls -> Record(D)]
  BY DEF Types
<1>2. PICK r : r = [call[c] EXCEPT !.pc = p]
  OBVIOUS
<1>3. call[c] \in Record(D)
  BY <1>1
<1>4. r \in Record(D) /\ r.pc = p /\ r.tree = call[c].tree
  BY <1>2, <1>3 DEF Record
<1>5. call' = [call EXCEPT ![c] = r]
  BY <1>2 DEF Goes
<1>6. (\E F : call' \in [Calls -> Record(F)]) /\ call'[c] = r /\ \A d \in Calls \ {c} : call'[d] = call[d]
  BY <1>1, <1>4, <1>5, OneCall
<1> QED
  BY <1>4, <1>6 DEF Moves, Named

\* A call that ends, or has the rescan left, is a fresh record.
LEMMA EndsMoves ==
    ASSUME Types, NEW c \in Calls, NEW p \in {"rescan", "over"},
           call' = [call EXCEPT ![c] = [Fresh EXCEPT !.pc = p]]
    PROVE  Moves(c, {call[c].pc}, {p})
<1>1. PICK D : call \in [Calls -> Record(D)]
  BY DEF Types
<1>2. PICK r : r = [Fresh EXCEPT !.pc = p]
  OBVIOUS
<1>3. r \in Record({{}}) /\ r.pc = p
  BY <1>2, FreshIs
<1>4. call' = [call EXCEPT ![c] = r]
  BY <1>2
<1>5. (\E F : call' \in [Calls -> Record(F)]) /\ call'[c] = r /\ \A d \in Calls \ {c} : call'[d] = call[d]
  BY <1>1, <1>3, <1>4, OneCall
<1> QED
  BY <1>3, <1>5 DEF Moves, Working

\* A call that begins has been given a linked worktree.
LEMMA BeginMoves ==
    ASSUME Types, NEW c \in Calls, call[c].pc = "idle", NEW r \in Record({{}}),
           r.tree \in Trees, call' = [call EXCEPT ![c] = r]
    PROVE  Moves(c, {"idle"}, {r.pc})
<1>1. PICK D : call \in [Calls -> Record(D)]
  BY DEF Types
<1>2. (\E F : call' \in [Calls -> Record(F)]) /\ call'[c] = r /\ \A d \in Calls \ {c} : call'[d] = call[d]
  BY <1>1, OneCall
<1> QED
  BY <1>2 DEF Moves

(* The fields of a call beyond its progress may change with it. *)
LEMMA ChangeMoves ==
    ASSUME Types, Named, NEW c \in Calls, call[c].pc \in Working, NEW D, NEW r \in Record(D),
           r.pc \in Working, r.tree = call[c].tree, call' = [call EXCEPT ![c] = r]
    PROVE  Moves(c, {call[c].pc}, {r.pc})
<1>1. PICK E : call \in [Calls -> Record(E)]
  BY DEF Types
<1>2. (\E F : call' \in [Calls -> Record(F)]) /\ call'[c] = r /\ \A d \in Calls \ {c} : call'[d] = call[d]
  BY <1>1, OneCall
<1> QED
  BY <1>2 DEF Moves, Named

(* The creation of a worktree. *)
LEMMA CreateMoves ==
    ASSUME Types, Named, NEW c \in Calls
    PROVE  /\ CreateValidates(c) => Moves(c, {"idle"}, {"pre"})
           /\ CreateRefused(c) => Moves(c, {"pre"}, {"over"})
           /\ CreateReady(c) => Moves(c, {"pre"}, {"add"})
           /\ CreateAdds(c) => Moves(c, {"add"}, {"meta"})
           /\ CreateAddFails(c) => Moves(c, {"add"}, {"over"})
           /\ CreateBase(c) => Moves(c, {"meta"}, {"hydrate"})
           /\ CreateHydrates(c) => Moves(c, {"hydrate"}, {"post"})
           /\ CreateHydrateFails(c) => Moves(c, {"hydrate"}, {"over"})
           /\ CreateEnds(c) => Moves(c, {"post"}, {"over"})
<1>1. ASSUME CreateValidates(c) PROVE Moves(c, {"idle"}, {"pre"})
  <2>1. PICK t \in Trees, make \in BOOLEAN, b \in Branches \cup {None} :
          call' = [call EXCEPT ![c] = [Fresh EXCEPT !.op = "create", !.pc = "pre", !.tree = t,
                                         !.make = make, !.base = b]]
    BY <1>1 DEF CreateValidates
  <2>2. PICK r : r = [Fresh EXCEPT !.op = "create", !.pc = "pre", !.tree = t, !.make = make, !.base = b]
    OBVIOUS
  <2>3. r \in Record({{}}) /\ r.tree = t /\ r.pc = "pre"
    BY <2>2 DEF Fresh, Record, Op, Working, Places
  <2>4. call' = [call EXCEPT ![c] = r] /\ call[c].pc = "idle"
    BY <1>1, <2>1, <2>2 DEF CreateValidates
  <2> QED
    BY <2>3, <2>4, BeginMoves
<1>2. ASSUME Ends(c) PROVE Moves(c, {call[c].pc}, {"over"})
  BY <1>2, EndsMoves DEF Ends
<1>3. CreateRefused(c) => Moves(c, {"pre"}, {"over"})
  BY <1>2 DEF CreateRefused
<1>4. CreateReady(c) => Moves(c, {"pre"}, {"add"})
  BY GoesMoves DEF CreateReady, Working
<1>5. CreateAdds(c) => Moves(c, {"add"}, {"meta"})
  BY GoesMoves DEF CreateAdds, Working
<1>6. CreateAddFails(c) => Moves(c, {"add"}, {"over"})
  BY <1>2 DEF CreateAddFails
<1>7. CreateBase(c) => Moves(c, {"meta"}, {"hydrate"})
  BY GoesMoves DEF CreateBase, Working
<1>8. CreateHydrates(c) => Moves(c, {"hydrate"}, {"post"})
  BY GoesMoves DEF CreateHydrates, Working
<1>9. CreateHydrateFails(c) => Moves(c, {"hydrate"}, {"over"})
  BY <1>2 DEF CreateHydrateFails
<1>10. CreateEnds(c) => Moves(c, {"post"}, {"over"})
  BY <1>2 DEF CreateEnds, Rescan
<1> QED
  BY <1>1, <1>3, <1>4, <1>5, <1>6, <1>7, <1>8, <1>9, <1>10

(* The removal of one, and the steps a merge shares with it. *)
LEMMA RemoveMoves ==
    ASSUME Types, Named, NEW c \in Calls
    PROVE  /\ Unconfigured(c) => Moves(c, {"idle"}, {"over"})
           /\ RemoveBegins(c) => Moves(c, {"idle"}, {"list", "tree"})
           /\ RemoveListsStashes(c) => Moves(c, {"list"}, {"drop"})
           /\ RemoveDropsStash(c) => Moves(c, {"drop"}, {"drop"})
           /\ RemoveStashesDone(c) => Moves(c, {"drop"}, {"tree"})
           /\ RemoveTree(c) => Moves(c, {"tree"}, {"branch"})
           /\ RemoveTreeFails(c) => Moves(c, {"tree"}, {"over"})
           /\ DeleteBranch(c) => Moves(c, {"branch"}, {"rescan"})
           /\ DeleteBranchFails(c) => Moves(c, {"branch"}, {"rescan"})
           /\ KeepBranch(c) => Moves(c, {"branch"}, {"rescan"})
           /\ RescanStep(c) => Moves(c, {"rescan"}, {"over"})
<1>0. PICK D : call \in [Calls -> Record(D)]
  BY DEF Types
<1>1. head \in [Places -> Branches \cup {None}] /\ call[c] \in Record(D)
  BY <1>0 DEF Types
<1>2. ASSUME Ends(c) PROVE Moves(c, {call[c].pc}, {"over"})
  BY <1>2, EndsMoves DEF Ends
<1>3. ASSUME Finishes(c) PROVE Moves(c, {call[c].pc}, {"rescan"})
  BY <1>3, EndsMoves DEF Finishes
<1>4. Unconfigured(c) => Moves(c, {"idle"}, {"over"})
  BY <1>2 DEF Unconfigured
<1>5. ASSUME RemoveBegins(c) PROVE Moves(c, {"idle"}, {"list", "tree"})
  <2>1. PICK t \in Trees, force, clear, gone, kill \in BOOLEAN :
          /\ kill => gone
          /\ call' = [call EXCEPT ![c] = [Fresh EXCEPT !.op = "remove", !.tree = t, !.force = force,
                      !.kill = kill, !.src = IF gone THEN head[t] ELSE None,
                      !.pc = IF clear THEN "list" ELSE "tree"]]
    BY <1>5, Zenon DEF RemoveBegins
  <2>2. PICK r : r = [Fresh EXCEPT !.op = "remove", !.tree = t, !.force = force,
                      !.kill = kill, !.src = IF gone THEN head[t] ELSE None,
                      !.pc = IF clear THEN "list" ELSE "tree"]
    OBVIOUS
  <2>3. head[t] \in Branches \cup {None}
    BY <1>1 DEF Places
  <2>4. r \in Record({{}}) /\ r.tree = t /\ r.pc \in {"list", "tree"}
    BY <2>2, <2>3 DEF Fresh, Record, Op, Working, Places
  <2>5. call' = [call EXCEPT ![c] = r] /\ call[c].pc = "idle"
    BY <1>5, <2>1, <2>2 DEF RemoveBegins
  <2>6. Moves(c, {"idle"}, {r.pc})
    BY <2>4, <2>5, BeginMoves
  <2> QED
    BY <2>4, <2>6 DEF Moves
<1>6. ASSUME RemoveListsStashes(c) PROVE Moves(c, {"list"}, {"drop"})
  <2>1. PICK b, q : call' = [call EXCEPT ![c].pc = "drop", ![c].onto = b, ![c].drop = q]
                    /\ b = head[call[c].tree]
    BY <1>6 DEF RemoveListsStashes
  <2>2. PICK r : r = [call[c] EXCEPT !.pc = "drop", !.onto = b, !.drop = q]
    OBVIOUS
  <2>3. b \in Branches \cup {None}
    BY <1>1, <2>1 DEF Record
  <2>4. r \in Record({q}) /\ r.tree = call[c].tree /\ r.pc = "drop"
    BY <1>1, <2>2, <2>3 DEF Record, Working
  <2>5. call' = [call EXCEPT ![c] = r] /\ call[c].pc = "list"
    BY <1>0, <1>6, <2>1, <2>2 DEF RemoveListsStashes
  <2> QED
    BY <2>4, <2>5, ChangeMoves DEF Working
<1>7. ASSUME RemoveDropsStash(c) PROVE Moves(c, {"drop"}, {"drop"})
  <2>1. PICK q : call' = [call EXCEPT ![c].drop = q]
    BY <1>7 DEF RemoveDropsStash
  <2>2. PICK r : r = [call[c] EXCEPT !.drop = q]
    OBVIOUS
  <2>3. call[c].pc = "drop"
    BY <1>7 DEF RemoveDropsStash
  <2>4. r \in Record({q}) /\ r.tree = call[c].tree /\ r.pc = "drop"
    BY <1>1, <2>2, <2>3 DEF Record, Working
  <2>5. call' = [call EXCEPT ![c] = r]
    BY <2>1, <2>2
  <2> QED
    BY <2>3, <2>4, <2>5, ChangeMoves DEF Working
<1>8. RemoveStashesDone(c) => Moves(c, {"drop"}, {"tree"})
  BY GoesMoves DEF RemoveStashesDone, Working
<1>9. RemoveTree(c) => Moves(c, {"tree"}, {"branch"})
  BY GoesMoves DEF RemoveTree, Working
<1>10. RemoveTreeFails(c) => Moves(c, {"tree"}, {"over"})
  BY <1>2 DEF RemoveTreeFails
<1>11. /\ DeleteBranch(c) => Moves(c, {"branch"}, {"rescan"})
       /\ DeleteBranchFails(c) => Moves(c, {"branch"}, {"rescan"})
       /\ KeepBranch(c) => Moves(c, {"branch"}, {"rescan"})
  BY <1>3 DEF DeleteBranch, DeleteBranchFails, KeepBranch
<1>12. RescanStep(c) => Moves(c, {"rescan"}, {"over"})
  BY <1>2 DEF RescanStep, Rescan
<1> QED
  BY <1>4, <1>5, <1>6, <1>7, <1>8, <1>9, <1>10, <1>11, <1>12

(* A merge. *)
LEMMA MergeMoves ==
    ASSUME Types, Named, NEW c \in Calls
    PROVE  /\ MergeResolves(c) => Moves(c, {"idle"}, {"guard"})
           /\ MergeGuards(c) => Moves(c, {"guard"}, {"merge"})
           /\ MergeGuarded(c) => Moves(c, {"guard"}, {"over"})
           /\ MergeLands(c) => Moves(c, {"merge"}, {"tree", "branch"})
           /\ MergeFails(c) => Moves(c, {"merge"}, {"abort"})
           /\ MergeAborts(c) => Moves(c, {"abort"}, {"over"})
<1>0. PICK D : call \in [Calls -> Record(D)]
  BY DEF Types
<1>1. head \in [Places -> Branches \cup {None}] /\ call[c] \in Record(D)
  BY <1>0 DEF Types
<1>2. ASSUME Ends(c) PROVE Moves(c, {call[c].pc}, {"over"})
  BY <1>2, EndsMoves DEF Ends
<1>3. ASSUME MergeResolves(c) PROVE Moves(c, {"idle"}, {"guard"})
  <2>1. PICK t \in Trees, gone, kill \in BOOLEAN, w \in Places :
          call' = [call EXCEPT ![c] = [Fresh EXCEPT !.op = "merge", !.pc = "guard",
                             !.tree = t, !.src = head[t], !.onto = head[w], !.at = w,
                             !.gone = gone, !.clear = kill]]
    BY <1>3 DEF MergeResolves
  <2>2. PICK r : r = [Fresh EXCEPT !.op = "merge", !.pc = "guard",
                             !.tree = t, !.src = head[t], !.onto = head[w], !.at = w,
                             !.gone = gone, !.clear = kill]
    OBVIOUS
  <2>3. head[t] \in Branches \cup {None} /\ head[w] \in Branches \cup {None}
    BY <1>1 DEF Places
  <2>4. r \in Record({{}}) /\ r.tree = t /\ r.pc = "guard"
    BY <2>2, <2>3 DEF Fresh, Record, Op, Working, Places
  <2>5. call' = [call EXCEPT ![c] = r] /\ call[c].pc = "idle"
    BY <1>3, <2>1, <2>2 DEF MergeResolves
  <2> QED
    BY <2>4, <2>5, BeginMoves
<1>4. MergeGuards(c) => Moves(c, {"guard"}, {"merge"})
  BY GoesMoves DEF MergeGuards, Working
<1>5. MergeGuarded(c) => Moves(c, {"guard"}, {"over"})
  BY <1>2 DEF MergeGuarded
<1>6. ASSUME MergeLands(c) PROVE Moves(c, {"merge"}, {"tree", "branch"})
  <2>1. PICK p, s : /\ call' = [call EXCEPT ![c].pc = p, ![c].src = s]
                    /\ p \in {"tree", "branch"} /\ s \in {call[c].src, None}
    BY <1>6 DEF MergeLands
  <2>2. PICK r : r = [call[c] EXCEPT !.pc = p, !.src = s]
    OBVIOUS
  <2>3. r \in Record(D) /\ r.tree = call[c].tree /\ r.pc = p
    BY <1>1, <2>1, <2>2 DEF Record, Working
  <2>4. call' = [call EXCEPT ![c] = r] /\ call[c].pc = "merge"
    BY <1>0, <1>6, <2>1, <2>2 DEF MergeLands
  <2>5. Moves(c, {"merge"}, {p})
    BY <2>1, <2>3, <2>4, ChangeMoves DEF Working
  <2> QED
    BY <2>1, <2>5 DEF Moves
<1>7. MergeFails(c) => Moves(c, {"merge"}, {"abort"})
  BY GoesMoves DEF MergeFails, Working
<1>8. MergeAborts(c) => Moves(c, {"abort"}, {"over"})
  BY <1>2 DEF MergeAborts
<1> QED
  BY <1>3, <1>4, <1>5, <1>6, <1>7, <1>8

(* Every step of a command is one of its moves. *)
LEMMA CallMoves ==
    ASSUME Types, Named, NEW c \in Calls, CallStep(c)
    PROVE  \E from, to : Moves(c, from, to)
BY CreateMoves, RemoveMoves, MergeMoves DEF CallStep

(* The calls' part of the invariant. *)
LEMMA CallsStep ==
    ASSUME Types, Named, Next
    PROVE  (\E F : call' \in [Calls -> Record(F)]) /\ Named'
<1>1. CASE \E c \in Calls : CallStep(c)
  <2>1. PICK c \in Calls : \E from, to : Moves(c, from, to)
    BY <1>1, CallMoves
  <2> QED
    BY <2>1 DEF Moves, Named
<1>2. CASE call' = call
  BY <1>2 DEF Types, Named
<1> QED
  BY <1>1, <1>2 DEF Next, Edit, Commit, Stash, Switch, UserMerges, Deselect, Select,
                    RebuildFinds, RebuildSwaps

-----------------------------------------------------------------------------
(* A branch that goes without force leaves its commits in the branch of the *)
(* main worktree.                                                           *)
LEMMA DeletionForced ==
    ASSUME Sites, Types, Rooted, Named, NEW c \in Calls, DeleteBranch(c)
    PROVE  Forced(c) \/ Reachable \subseteq Reachable'
<1>1. call[c].pc = "branch" /\ call'[c].pc = "rescan"
  BY RemoveMoves DEF Moves
<1>2. CASE call[c].kill
  BY <1>1, <1>2 DEF Forced
<1>3. CASE ~call[c].kill
  <2>1. PICK b : /\ b = call[c].src /\ b \in refs /\ ~Held(b) /\ log[b] \subseteq log[head[Root]]
                 /\ refs' = refs \ {b} /\ log' = [log EXCEPT ![b] = {}]
    BY <1>3 DEF DeleteBranch, CanDelete
  <2>2. Root \in Places /\ refs \subseteq Branches /\ log \in [Branches -> SUBSET Nat]
    BY DEF Types, Places
  <2>3. head[Root] \in refs /\ head[Root] /= b
    BY <2>1, <2>2 DEF Rooted, Held
  <2>4. ASSUME NEW d \in refs, NEW x \in log[d] PROVE \E e \in refs' : x \in log'[e]
    <3>1. CASE d = b
      BY <2>1, <2>2, <2>3, <2>4, <3>1
    <3>2. CASE d /= b
      BY <2>1, <2>2, <2>4, <3>2
    <3> QED
      BY <3>1, <3>2
  <2> QED
    BY <2>4 DEF Reachable
<1> QED
  BY <1>2, <1>3

(* Whatever a step does to the branches, those that were there keep their   *)
(* commits and lose none, save for a deletion.                              *)
LEMMA LogsGrow ==
    ASSUME Types, Rooted, Next, ~\E c \in Calls : DeleteBranch(c)
    PROVE  /\ refs \subseteq refs' /\ \A b \in refs : log[b] \subseteq log'[b]
           /\ log' \in [Branches -> SUBSET Nat] /\ commits' \in Nat
<1>1. log \in [Branches -> SUBSET Nat] /\ refs \subseteq Branches /\ commits \in Nat
  BY DEF Types
<1>2. ASSUME NEW c \in Calls, CreateAdds(c)
      PROVE  /\ refs \subseteq refs' /\ \A b \in refs : log[b] \subseteq log'[b]
             /\ log' \in [Branches -> SUBSET Nat] /\ commits' \in Nat
  <2>1. PICK t : /\ refs' = refs \cup {t} /\ commits' = commits
                 /\ \/ t \notin refs /\ log' = [log EXCEPT ![t] = log[head[Root]]]
                    \/ log' = log
    BY <1>2 DEF CreateAdds, CanAdd
  <2>2. log[head[Root]] \subseteq Nat
    BY <1>1 DEF Types, Rooted, Places
  <2> QED
    BY <1>1, <2>1, <2>2
<1>3. ASSUME NEW c \in Calls, MergeLands(c)
      PROVE  /\ refs \subseteq refs' /\ \A b \in refs : log[b] \subseteq log'[b]
             /\ log' \in [Branches -> SUBSET Nat] /\ commits' \in Nat
  <2>1. PICK h, s : /\ log' = [log EXCEPT ![h] = @ \cup log[s]] /\ s \in refs
                    /\ UNCHANGED <<refs, commits>>
    BY <1>3 DEF MergeLands, CanMerge
  <2> QED
    BY <1>1, <2>1
<1>4. ASSUME NEW w \in Places, Commit(w)
      PROVE  /\ refs \subseteq refs' /\ \A b \in refs : log[b] \subseteq log'[b]
             /\ log' \in [Branches -> SUBSET Nat] /\ commits' \in Nat
  <2>1. PICK h : /\ log' = [log EXCEPT ![h] = @ \cup {commits'}]
                 /\ refs' = refs /\ commits' = commits + 1
    BY <1>4 DEF Commit
  <2>2. commits' \in Nat
    BY <1>1, <2>1
  <2>3. ASSUME NEW b \in Branches
        PROVE  log[b] \subseteq log'[b] /\ log'[b] \subseteq Nat
    BY <1>1, <2>1, <2>2
  <2>4. log' \in [Branches -> SUBSET Nat]
    BY <1>1, <2>1, <2>3
  <2> QED
    BY <1>1, <2>1, <2>2, <2>3, <2>4
<1>5. ASSUME UNCHANGED <<log, refs, commits>>
      PROVE  /\ refs \subseteq refs' /\ \A b \in refs : log[b] \subseteq log'[b]
             /\ log' \in [Branches -> SUBSET Nat] /\ commits' \in Nat
  BY <1>1, <1>5
<1>6. ASSUME NEW c \in Calls, CallStep(c), ~CreateAdds(c), ~MergeLands(c)
      PROVE  UNCHANGED <<log, refs, commits>>
  BY <1>6 DEF CallStep, Unconfigured, CreateValidates, CreateRefused, CreateReady, CreateAddFails,
              CreateBase, CreateHydrates, CreateHydrateFails, CreateEnds, RemoveBegins,
              RemoveListsStashes, RemoveDropsStash, RemoveStashesDone, RemoveTree, RemoveTreeFails,
              DeleteBranchFails, KeepBranch, RescanStep, MergeResolves, MergeGuards, MergeGuarded,
              MergeFails, MergeAborts, repo
<1>7. ASSUME NEW w \in Places, Edit(w) \/ Stash(w) \/ Switch(w) \/ UserMerges(w)
      PROVE  UNCHANGED <<log, refs, commits>>
  BY <1>7 DEF Edit, Stash, Switch, UserMerges
<1>8. ASSUME Deselect \/ Select \/ RebuildFinds \/ RebuildSwaps
      PROVE  UNCHANGED <<log, refs, commits>>
  BY <1>8 DEF Deselect, Select, RebuildFinds, RebuildSwaps, repo
<1> QED
  BY <1>2, <1>3, <1>4, <1>5, <1>6, <1>7, <1>8 DEF Next

(* The heads and the branches stay what they are. *)
LEMMA HeadsStep ==
    ASSUME Sites, Types, Rooted, Named, Next
    PROVE  head' \in [Places -> Branches \cup {None}] /\ refs' \subseteq Branches /\ Rooted'
<1>0. /\ head \in [Places -> Branches \cup {None}] /\ refs \subseteq Branches
      /\ Root \in Places /\ Trees \subseteq Places \cap Branches /\ None \notin Branches
  BY DEF Types, Places, Branches, Sites
<1>1. ASSUME UNCHANGED <<head, refs>>
      PROVE  head' \in [Places -> Branches \cup {None}] /\ refs' \subseteq Branches /\ Rooted'
  BY <1>0, <1>1 DEF Rooted
<1>2. ASSUME NEW c \in Calls, CreateAdds(c)
      PROVE  head' \in [Places -> Branches \cup {None}] /\ refs' \subseteq Branches /\ Rooted'
  <2>1. PICK t : t = call[c].tree /\ head' = [head EXCEPT ![t] = t] /\ refs' = refs \cup {t}
    BY <1>2 DEF CreateAdds
  <2>2. t \in Trees
    BY <1>2, <2>1 DEF CreateAdds, Named, Working
  <2> QED
    BY <1>0, <2>1, <2>2 DEF Rooted
<1>3. ASSUME NEW c \in Calls, RemoveTree(c)
      PROVE  head' \in [Places -> Branches \cup {None}] /\ refs' \subseteq Branches /\ Rooted'
  <2>1. PICK t : t = call[c].tree /\ head' = [head EXCEPT ![t] = None] /\ refs' = refs
    BY <1>3 DEF RemoveTree
  <2>2. t \in Trees /\ t /= Root
    BY <1>3, <2>1 DEF RemoveTree, Named, Working, Sites
  <2> QED
    BY <1>0, <2>1, <2>2 DEF Rooted
<1>4. ASSUME NEW c \in Calls, DeleteBranch(c)
      PROVE  head' \in [Places -> Branches \cup {None}] /\ refs' \subseteq Branches /\ Rooted'
  <2>1. PICK b : ~Held(b) /\ refs' = refs \ {b} /\ head' = head
    BY <1>4 DEF DeleteBranch, CanDelete
  <2> QED
    BY <1>0, <2>1 DEF Rooted, Held
<1>5. ASSUME NEW w \in Places, Switch(w)
      PROVE  head' \in [Places -> Branches \cup {None}] /\ refs' \subseteq Branches /\ Rooted'
  <2>1. PICK b \in refs : head' = [head EXCEPT ![w] = b] /\ refs' = refs
    BY <1>5 DEF Switch
  <2> QED
    BY <1>0, <2>1 DEF Rooted
<1>6. ASSUME NEW c \in Calls, CallStep(c), ~CreateAdds(c), ~RemoveTree(c), ~DeleteBranch(c)
      PROVE  UNCHANGED <<head, refs>>
  BY <1>6 DEF CallStep, Unconfigured, CreateValidates, CreateRefused, CreateReady, CreateAddFails,
              CreateBase, CreateHydrates, CreateHydrateFails, CreateEnds, RemoveBegins,
              RemoveListsStashes, RemoveDropsStash, RemoveStashesDone, RemoveTreeFails,
              DeleteBranchFails, KeepBranch, RescanStep, MergeResolves, MergeGuards, MergeGuarded,
              MergeLands, MergeFails, MergeAborts, repo
<1>7. ASSUME NEW w \in Places, Edit(w) \/ Commit(w) \/ Stash(w) \/ UserMerges(w)
      PROVE  UNCHANGED <<head, refs>>
  BY <1>7 DEF Edit, Commit, Stash, UserMerges
<1>8. ASSUME Deselect \/ Select \/ RebuildFinds \/ RebuildSwaps
      PROVE  UNCHANGED <<head, refs>>
  BY <1>8 DEF Deselect, Select, RebuildFinds, RebuildSwaps, repo
<1> QED
  BY <1>1, <1>2, <1>3, <1>4, <1>5, <1>6, <1>7, <1>8 DEF Next

(* What is owed stays owed, and a step that makes or removes a worktree     *)
(* owes for it.                                                             *)
LEMMA DebtKept ==
    ASSUME Owed, watcher' = watcher, missed \subseteq missed',
           \A w \in Places \ missed' :
              (w \in Present <=> w \in Present') \/ \E c \in Calls : Owes(c, w)',
           \A c \in Calls, w \in Places \ missed' : Owes(c, w) => Owes(c, w)'
    PROVE  Owed'
<1> SUFFICES ASSUME watcher' /= None, NEW w \in Places \ missed'
             PROVE  (w \in watcher' <=> w \in Present') \/ \E c \in Calls : Owes(c, w)'
  BY DEF Owed
<1>1. (w \in watcher <=> w \in Present) \/ \E c \in Calls : Owes(c, w)
  BY DEF Owed
<1> QED
  BY <1>1

(* A move keeps a call's debts unless it ends the call or rescans. *)
LEMMA MovesOwe ==
    ASSUME NEW c \in Calls, NEW from, NEW to, Moves(c, from, to),
           \/ from \cap {"meta", "hydrate", "post", "branch", "rescan"} = {}
           \/ to \subseteq {"rescan"}
           \/ /\ from \subseteq {"meta", "hydrate", "post", "branch"}
              /\ to \subseteq {"meta", "hydrate", "post", "branch"}
    PROVE  \A d \in Calls, w \in Places : Owes(d, w) => Owes(d, w)'
BY DEF Moves, Owes

(* The commands: of those that change what is on disk, each owes for it.    *)
LEMMA OwedCall ==
    ASSUME Sites, Types, Rooted, Named, Owed, NEW c \in Calls, CallStep(c)
    PROVE  Owed'
<1>0. /\ head \in [Places -> Branches \cup {None}] /\ Trees \subseteq Places \cap Branches
      /\ None \notin Branches
  BY DEF Types, Places, Branches, Sites
<1>1. ASSUME watcher' = watcher, missed' = missed, head' = head,
             \A d \in Calls, w \in Places : Owes(d, w) => Owes(d, w)'
      PROVE  Owed'
  BY <1>1, DebtKept DEF Present
<1>2. ASSUME NEW from, NEW to, Moves(c, from, to),
             from \cap {"meta", "hydrate", "post", "branch", "rescan"} = {} \/ to \subseteq {"rescan"},
             watcher' = watcher, missed' = missed, head' = head
      PROVE  Owed'
  BY <1>1, <1>2, MovesOwe
<1>3. CASE \/ Unconfigured(c) \/ CreateValidates(c) \/ CreateRefused(c) \/ CreateReady(c)
           \/ CreateAddFails(c)
  <2>1. UNCHANGED <<repo, watches, missed>>
    BY <1>3 DEF Unconfigured, CreateValidates, CreateRefused, CreateReady, CreateAddFails
  <2>2. watcher' = watcher /\ missed' = missed /\ head' = head
    BY <2>1 DEF repo, watches
  <2>3. \E from \in {{"idle"}, {"pre"}, {"add"}} : \E to : Moves(c, from, to)
    BY <1>3, CreateMoves, RemoveMoves
  <2> QED
    BY <1>2, <2>2, <2>3
<1>4. CASE CreateAdds(c)
  <2>1. PICK t : /\ t = call[c].tree /\ head' = [head EXCEPT ![t] = t]
                 /\ watcher' = watcher /\ missed' = missed
    BY <1>4 DEF CreateAdds, watches
  <2>2. Moves(c, {"add"}, {"meta"})
    BY <1>4, CreateMoves
  <2>3. Owes(c, t)'
    BY <2>1, <2>2 DEF Owes, Moves
  <2>4. \A w \in Places : w = t \/ (w \in Present <=> w \in Present')
    BY <1>0, <2>1 DEF Present
  <2>5. \A d \in Calls, w \in Places : Owes(d, w) => Owes(d, w)'
    BY <2>2, MovesOwe
  <2> QED
    BY <2>1, <2>3, <2>4, <2>5, DebtKept
<1>5. CASE CreateBase(c) \/ CreateHydrates(c)
  <2>1. watcher' = watcher /\ missed' = missed /\ head' = head
    BY <1>5 DEF CreateBase, CreateHydrates, repo, watches
  <2>2. Moves(c, {"meta"}, {"hydrate"}) \/ Moves(c, {"hydrate"}, {"post"})
    BY <1>5, CreateMoves
  <2>3. \A d \in Calls, w \in Places : Owes(d, w) => Owes(d, w)'
    BY <2>2, MovesOwe
  <2> QED
    BY <1>1, <2>1, <2>3
<1>6. CASE CreateHydrateFails(c)
  <2>1. PICK t : t = call[c].tree /\ missed' = missed \cup {t} /\ watcher' = watcher /\ head' = head
    BY <1>6 DEF CreateHydrateFails, repo, watches
  <2>2. Moves(c, {"hydrate"}, {"over"})
    BY <1>6, CreateMoves
  <2>3. \A d \in Calls, w \in Places \ missed' : Owes(d, w) => Owes(d, w)'
    BY <2>1, <2>2 DEF Owes, Moves
  <2> QED
    BY <2>1, <2>3, DebtKept DEF Present
<1>7. CASE CreateEnds(c) \/ RescanStep(c)
  <2>1. Rescan(c) /\ head' = head
    BY <1>7 DEF CreateEnds, RescanStep, repo
  <2> QED
    BY <2>1 DEF Rescan, Owed, Present
<1>8. CASE RemoveBegins(c) \/ RemoveListsStashes(c) \/ RemoveDropsStash(c) \/ RemoveStashesDone(c)
           \/ RemoveTreeFails(c)
  <2>1. watcher' = watcher /\ missed' = missed /\ head' = head
    BY <1>8 DEF RemoveBegins, RemoveListsStashes, RemoveDropsStash, RemoveStashesDone, RemoveTreeFails,
                repo, watches
  <2>2. \E from \in {{"idle"}, {"list"}, {"drop"}, {"tree"}} : \E to : Moves(c, from, to)
    BY <1>8, RemoveMoves
  <2> QED
    BY <1>2, <2>1, <2>2
<1>9. CASE RemoveTree(c)
  <2>1. PICK t : /\ t = call[c].tree /\ head' = [head EXCEPT ![t] = None]
                 /\ watcher' = watcher /\ missed' = missed
    BY <1>9 DEF RemoveTree, watches
  <2>2. Moves(c, {"tree"}, {"branch"})
    BY <1>9, RemoveMoves
  <2>3. Owes(c, t)'
    BY <2>1, <2>2 DEF Owes, Moves
  <2>4. \A w \in Places : w = t \/ (w \in Present <=> w \in Present')
    BY <1>0, <2>1 DEF Present
  <2>5. \A d \in Calls, w \in Places : Owes(d, w) => Owes(d, w)'
    BY <2>2, MovesOwe
  <2> QED
    BY <2>1, <2>3, <2>4, <2>5, DebtKept
<1>10. CASE DeleteBranch(c) \/ DeleteBranchFails(c) \/ KeepBranch(c)
  <2>1. watcher' = watcher /\ missed' = missed /\ head' = head
    BY <1>10 DEF DeleteBranch, DeleteBranchFails, KeepBranch, repo, watches
  <2>2. Moves(c, {"branch"}, {"rescan"})
    BY <1>10, RemoveMoves
  <2> QED
    BY <1>2, <2>1, <2>2
<1>11. CASE MergeResolves(c) \/ MergeGuards(c) \/ MergeGuarded(c) \/ MergeLands(c) \/ MergeFails(c)
            \/ MergeAborts(c)
  <2>1. watcher' = watcher /\ missed' = missed /\ head' = head
    BY <1>11 DEF MergeResolves, MergeGuards, MergeGuarded, MergeLands, MergeFails, MergeAborts,
                 repo, watches
  <2>2. \E from \in {{"idle"}, {"guard"}, {"merge"}, {"abort"}} : \E to : Moves(c, from, to)
    BY <1>11, MergeMoves
  <2> QED
    BY <1>2, <2>1, <2>2
<1> QED
  BY <1>3, <1>4, <1>5, <1>6, <1>7, <1>8, <1>9, <1>10, <1>11 DEF CallStep

(* The watcher's own steps, and those of the agents and the user. *)
LEMMA OwedStep ==
    ASSUME Sites, IInv, Next
    PROVE  Owed'
<1>0. /\ head \in [Places -> Branches \cup {None}] /\ refs \subseteq Branches
      /\ None \notin Branches
  BY DEF IInv, Types, Sites
<1>1. ASSUME watcher' = watcher, missed' = missed, call' = call, Present' = Present
      PROVE  Owed'
  BY <1>1 DEF IInv, Owed, Owes
<1>2. CASE \E c \in Calls : CallStep(c)
  BY <1>2, OwedCall DEF IInv
<1>3. ASSUME NEW w \in Places, Edit(w) \/ Commit(w) \/ Stash(w) \/ UserMerges(w)
      PROVE  Owed'
  BY <1>1, <1>3 DEF Edit, Commit, Stash, UserMerges, watches, Present
<1>4. ASSUME NEW w \in Places, Switch(w)
      PROVE  Owed'
  <2>1. PICK b \in refs : head' = [head EXCEPT ![w] = b] /\ head[w] /= None
    BY <1>4 DEF Switch
  <2>2. Present' = Present
    BY <1>0, <2>1 DEF Present
  <2> QED
    BY <1>1, <1>4, <2>2 DEF Switch, watches
<1>5. CASE Deselect
  BY <1>5 DEF Deselect, Owed
<1>6. CASE Select
  BY <1>6 DEF Select, Owed, Present, repo
<1>7. CASE RebuildFinds
  BY <1>1, <1>7 DEF RebuildFinds, repo, Present
<1>8. CASE RebuildSwaps
  BY <1>8 DEF RebuildSwaps, Owed, Present, repo
<1> QED
  BY <1>2, <1>3, <1>4, <1>5, <1>6, <1>7, <1>8 DEF Next

\* The inductive invariant at the start.
LEMMA IInvInit == Sites /\ Init => IInv
<1> SUFFICES ASSUME Sites, Init PROVE IInv
  OBVIOUS
<1>1. head \in [Places -> Branches \cup {None}] /\ refs \subseteq Branches
  BY DEF Init, Sites, Places, Branches
<1>2. log \in [Branches -> SUBSET Nat] /\ commits \in Nat
  BY DEF Init
<1>3. call \in [Calls -> Record({{}})]
  BY FreshIs DEF Init
<1>4. Rooted
  BY DEF Init, Rooted, Sites, Places, Branches
<1>5. Named
  BY FreshIs DEF Init, Named, Working
<1>6. Owed
  BY DEF Init, Owed, Present, Sites, Places, Branches
<1> QED
  BY <1>1, <1>2, <1>3, <1>4, <1>5, <1>6 DEF IInv, Types

\* Every step preserves the inductive invariant.
LEMMA IInvStep == Sites /\ IInv /\ [Next]_vars => IInv'
<1> SUFFICES ASSUME Sites, IInv, [Next]_vars PROVE IInv'
  OBVIOUS
<1>1. Types /\ Rooted /\ Named
  BY DEF IInv
<1>2. CASE Next
  <2>1. (\E F : call' \in [Calls -> Record(F)]) /\ Named'
    BY <1>1, <1>2, CallsStep
  <2>2. head' \in [Places -> Branches \cup {None}] /\ refs' \subseteq Branches /\ Rooted'
    BY <1>1, <1>2, HeadsStep
  <2>3. log' \in [Branches -> SUBSET Nat] /\ commits' \in Nat
    <3>1. CASE \E c \in Calls : DeleteBranch(c)
      BY <1>1, <3>1 DEF DeleteBranch, Types
    <3> QED
      BY <1>1, <1>2, <3>1, LogsGrow
  <2>4. Owed'
    BY <1>2, OwedStep
  <2> QED
    BY <2>1, <2>2, <2>3, <2>4 DEF IInv, Types
<1>3. CASE UNCHANGED vars
  <2>1. Types' /\ Rooted' /\ Named'
    BY <1>1, <1>3 DEF vars, Types, Rooted, Named
  <2>2. Owed'
    BY <1>3 DEF vars, IInv, Owed, Owes, Present
  <2> QED
    BY <2>1, <2>2 DEF IInv
<1> QED
  BY <1>2, <1>3

(* No step but a forced deletion of a branch takes a commit out of the      *)
(* repository.                                                              *)
LEMMA StepKeeps == Sites /\ IInv /\ Next => KeepsCommits
<1> SUFFICES ASSUME Sites, IInv, Next PROVE KeepsCommits
  OBVIOUS
<1>1. Types /\ Rooted /\ Named
  BY DEF IInv
<1>2. CASE \E c \in Calls : DeleteBranch(c)
  BY <1>1, <1>2, DeletionForced DEF KeepsCommits
<1>3. CASE ~\E c \in Calls : DeleteBranch(c)
  <2>1. refs \subseteq refs' /\ \A b \in refs : log[b] \subseteq log'[b]
    BY <1>1, <1>3, LogsGrow
  <2>2. ASSUME NEW b \in refs, NEW x \in log[b] PROVE \E e \in refs' : x \in log'[e]
    BY <2>1, <2>2
  <2> QED
    BY <2>2 DEF KeepsCommits, Reachable
<1> QED
  BY <1>2, <1>3

(* merge.rs: "If something raced in to add unmerged commits we surface the  *)
(* failure".  Whatever is committed, switched, created or removed between   *)
(* the git processes of the commands, no commit becomes unreachable but by  *)
(* the deletion of a branch that the user has asked to force: git branch -d *)
(* leaves the commits in the main worktree's branch, which nothing removes. *)
THEOREM CommitsStay ==
    ASSUME Sites
    PROVE  Spec => CommitsKept
<1>1. Init => IInv
  BY IInvInit
<1>2. IInv /\ [Next]_vars => IInv'
  BY IInvStep
<1>3. IInv /\ [Next]_vars => [KeepsCommits]_vars
  BY StepKeeps
<1> QED
  BY <1>1, <1>2, <1>3, PTL DEF Spec, CommitsKept

(* No call owes a rescan when none is under way. *)
LEMMA NoneOwed == IInv => WatchesFollow
BY DEF IInv, Owed, Owes, WatchesFollow

(* git_watcher.rs: "newly-added worktree HEADs are watched and stale ones   *)
(* are dropped".  With no command and no rebuild under way, the watched     *)
(* directories are the worktrees on disk, but for those the code itself     *)
(* leaves out: a creation whose hydration failed, what came or went between *)
(* a rebuild's listing and its swap, and what the system refused to watch.  *)
THEOREM WatcherFollows ==
    ASSUME Sites
    PROVE  Spec => []WatchesFollow
<1>1. Init => IInv
  BY IInvInit
<1>2. IInv /\ [Next]_vars => IInv'
  BY IInvStep
<1> QED
  BY <1>1, <1>2, NoneOwed, PTL DEF Spec

-----------------------------------------------------------------------------
(* The shapes TypeOK speaks of.                                             *)

(* Commits are numbered as they are made, and a branch that is gone has     *)
(* none; no branch is checked out twice.                                    *)
LogShape  == \A b \in Branches : log[b] \subseteq 1..commits /\ (b \notin refs => log[b] = {})
HeadShape == \A w, v \in Places : head[w] /= None /\ head[w] = head[v] => w = v
EditShape == merging \subseteq edits /\ edits \subseteq Present
(* Stash entries are dropped by the places they have, or once had, in the   *)
(* list.                                                                    *)
StashShape == /\ stash \in Seq(Branches) /\ Len(stash) <= MaxStash
              /\ \A c \in Calls : call[c].drop \subseteq 1..MaxStash
WatchShape == watcher \in {None} \cup SUBSET Places /\ rebuild \in {None} \cup SUBSET Places

Shapes == LogShape /\ HeadShape /\ EditShape /\ StashShape /\ WatchShape

LEMMA ShapesInit == Sites /\ MaxStash \in Nat /\ Init => Shapes
<1> SUFFICES ASSUME Sites, MaxStash \in Nat, Init PROVE Shapes
  OBVIOUS
<1>1. LogShape /\ EditShape
  BY DEF Init, LogShape, EditShape
<1>2. HeadShape
  BY DEF Init, HeadShape, Sites, Places, Branches
<1>3. \A c \in Calls : call[c].drop = {}
  BY DEF Init, Fresh
<1>4. StashShape
  BY <1>3 DEF Init, StashShape
<1>5. WatchShape
  BY DEF Init, WatchShape, Places, Sites
<1> QED
  BY <1>1, <1>2, <1>4, <1>5 DEF Shapes

(* The steps that touch none of a shape's variables. *)
LEMMA QuietCalls ==
    ASSUME NEW c \in Calls, CallStep(c)
    PROVE  /\ CreateAdds(c) \/ MergeLands(c) \/ DeleteBranch(c) \/ UNCHANGED <<log, refs, commits>>
           /\ CreateAdds(c) \/ RemoveTree(c) \/ UNCHANGED head
           /\ RemoveTree(c) \/ MergeAborts(c) \/ UNCHANGED <<merging, edits>>
           /\ RemoveDropsStash(c) \/ UNCHANGED stash
           /\ UNCHANGED rebuild /\ (watcher' = watcher \/ watcher' \subseteq Present)
<1> USE DEF CallStep, Unconfigured, CreateValidates, CreateRefused, CreateReady, CreateAddFails,
            CreateBase, CreateHydrates, CreateHydrateFails, CreateEnds, RemoveBegins,
            RemoveListsStashes, RemoveStashesDone, RemoveTreeFails,
            DeleteBranchFails, KeepBranch, RescanStep, MergeResolves, MergeGuards, MergeGuarded,
            MergeFails, Rescan, repo, watches
<1>1. CreateAdds(c) \/ MergeLands(c) \/ DeleteBranch(c) \/ UNCHANGED <<log, refs, commits>>
  BY DEF RemoveDropsStash, RemoveTree, MergeAborts
<1>2. CreateAdds(c) \/ RemoveTree(c) \/ UNCHANGED head
  BY DEF RemoveDropsStash, MergeAborts, DeleteBranch, MergeLands
<1>3. RemoveTree(c) \/ MergeAborts(c) \/ UNCHANGED <<merging, edits>>
  BY DEF RemoveDropsStash, CreateAdds, DeleteBranch, MergeLands
<1>4. RemoveDropsStash(c) \/ UNCHANGED stash
  BY DEF RemoveTree, MergeAborts, CreateAdds, DeleteBranch, MergeLands
<1>5. UNCHANGED rebuild /\ (watcher' = watcher \/ watcher' \subseteq Present)
  BY DEF RemoveDropsStash, RemoveTree, MergeAborts, CreateAdds, DeleteBranch, MergeLands
<1> QED
  BY <1>1, <1>2, <1>3, <1>4, <1>5

LEMMA LogShapeStep ==
    ASSUME Sites, IInv, LogShape, EditShape, Next
    PROVE  LogShape'
<1>0. /\ head \in [Places -> Branches \cup {None}] /\ refs \subseteq Branches
      /\ log \in [Branches -> SUBSET Nat] /\ commits \in Nat /\ None \notin Branches
      /\ Root \in Places /\ Trees \subseteq Branches /\ head[Root] \in refs
      /\ \A w \in Places : head[w] /= None => head[w] \in refs
  BY DEF IInv, Types, Rooted, Sites, Places, Branches
<1>1. ASSUME UNCHANGED <<log, refs, commits>> PROVE LogShape'
  BY <1>1 DEF LogShape
<1>2. ASSUME NEW c \in Calls, CreateAdds(c) PROVE LogShape'
  <2>1. PICK t : t = call[c].tree /\ refs' = refs \cup {t} /\ commits' = commits
                 /\ log' \in {[log EXCEPT ![t] = log[head[Root]]], log}
    BY <1>2 DEF CreateAdds
  <2>2. t \in Branches
    BY <1>0, <1>2, <2>1 DEF CreateAdds, IInv, Named, Working
  <2> QED
    BY <1>0, <2>1, <2>2 DEF LogShape
<1>3. ASSUME NEW c \in Calls, MergeLands(c) PROVE LogShape'
  <2>1. PICK h, b : /\ b \in refs /\ h \in refs /\ log' = [log EXCEPT ![h] = @ \cup log[b]]
                    /\ refs' = refs /\ commits' = commits
    <3>1. call[c].at \in Places
      BY DEF IInv, Types, Record
    <3> QED
      BY <1>0, <1>3, <3>1 DEF MergeLands, CanMerge
  <2> QED
    BY <1>0, <2>1 DEF LogShape
<1>4. ASSUME NEW c \in Calls, DeleteBranch(c) PROVE LogShape'
  BY <1>0, <1>4 DEF DeleteBranch, LogShape
<1>5. ASSUME NEW w \in Places, Commit(w) PROVE LogShape'
  <2>1. PICK h \in refs : log' = [log EXCEPT ![h] = @ \cup {commits + 1}]
                          /\ commits' = commits + 1 /\ refs' = refs
    BY <1>0, <1>5 DEF Commit, EditShape, Present
  <2> QED
    BY <1>0, <2>1 DEF LogShape
<1>6. ASSUME NEW w \in Places, Edit(w) \/ Stash(w) \/ Switch(w) \/ UserMerges(w) PROVE LogShape'
  BY <1>1, <1>6 DEF Edit, Stash, Switch, UserMerges
<1>7. CASE Deselect \/ Select \/ RebuildFinds \/ RebuildSwaps
  BY <1>1, <1>7 DEF Deselect, Select, RebuildFinds, RebuildSwaps, repo
<1>8. ASSUME NEW c \in Calls, CallStep(c) PROVE LogShape'
  BY <1>1, <1>2, <1>3, <1>4, <1>8, QuietCalls
<1> QED
  BY <1>5, <1>6, <1>7, <1>8 DEF Next

LEMMA HeadShapeStep ==
    ASSUME Sites, IInv, HeadShape, Next
    PROVE  HeadShape'
<1>0. /\ head \in [Places -> Branches \cup {None}] /\ Trees \subseteq Places
      /\ \A w \in Places : head[w] /= None => head[w] \in refs
  BY DEF IInv, Types, Rooted, Places
<1>1. ASSUME UNCHANGED head PROVE HeadShape'
  BY <1>1 DEF HeadShape
<1>2. ASSUME NEW c \in Calls, CreateAdds(c) PROVE HeadShape'
  <2>1. PICK t : t = call[c].tree /\ head' = [head EXCEPT ![t] = t] /\ (t \notin refs \/ ~Held(t))
    BY <1>2 DEF CreateAdds, CanAdd
  <2>2. t \in Places
    BY <1>0, <1>2, <2>1 DEF CreateAdds, IInv, Named, Working
  <2>3. \A w \in Places : head[w] /= t \/ t = None
    BY <1>0, <2>1 DEF Held
  <2> QED
    BY <1>0, <2>1, <2>2, <2>3 DEF HeadShape
<1>3. ASSUME NEW c \in Calls, RemoveTree(c) PROVE HeadShape'
  BY <1>0, <1>3 DEF RemoveTree, HeadShape
<1>4. ASSUME NEW w \in Places, Switch(w) PROVE HeadShape'
  <2>1. PICK b \in refs : ~Held(b) /\ head' = [head EXCEPT ![w] = b]
    BY <1>4 DEF Switch
  <2> QED
    BY <1>0, <2>1 DEF HeadShape, Held
<1>5. ASSUME NEW w \in Places, Edit(w) \/ Commit(w) \/ Stash(w) \/ UserMerges(w) PROVE HeadShape'
  BY <1>1, <1>5 DEF Edit, Commit, Stash, UserMerges
<1>6. CASE Deselect \/ Select \/ RebuildFinds \/ RebuildSwaps
  BY <1>1, <1>6 DEF Deselect, Select, RebuildFinds, RebuildSwaps, repo
<1>7. ASSUME NEW c \in Calls, CallStep(c) PROVE HeadShape'
  BY <1>1, <1>2, <1>3, <1>7, QuietCalls
<1> QED
  BY <1>4, <1>5, <1>6, <1>7 DEF Next

LEMMA EditShapeStep ==
    ASSUME Sites, IInv, EditShape, Next
    PROVE  EditShape'
<1>0. /\ head \in [Places -> Branches \cup {None}] /\ Trees \subseteq Places \cap Branches
      /\ refs \subseteq Branches /\ None \notin Branches
  BY DEF IInv, Types, Places, Branches, Sites
<1>1. ASSUME UNCHANGED <<merging, edits>>, \A w \in Places : head[w] /= None => head'[w] /= None
      PROVE  EditShape'
  BY <1>1 DEF EditShape, Present
<1>2. ASSUME NEW c \in Calls, CreateAdds(c) PROVE EditShape'
  <2>1. PICK t : t = call[c].tree /\ head' = [head EXCEPT ![t] = t]
    BY <1>2 DEF CreateAdds
  <2>2. t \in Trees
    BY <1>2, <2>1 DEF CreateAdds, IInv, Named, Working
  <2>3. UNCHANGED <<merging, edits>>
    BY <1>2 DEF CreateAdds
  <2> QED
    BY <1>0, <1>1, <2>1, <2>2, <2>3
<1>3. ASSUME NEW c \in Calls, RemoveTree(c) PROVE EditShape'
  BY <1>0, <1>3 DEF RemoveTree, EditShape, Present
<1>4. ASSUME NEW c \in Calls, MergeAborts(c) PROVE EditShape'
  BY <1>4 DEF MergeAborts, EditShape, Present
<1>5. ASSUME NEW w \in Places, Switch(w) PROVE EditShape'
  BY <1>0, <1>1, <1>5 DEF Switch
<1>6. ASSUME NEW w \in Places, Edit(w) \/ Commit(w) \/ Stash(w) \/ UserMerges(w) PROVE EditShape'
  BY <1>6 DEF Edit, Commit, Stash, UserMerges, EditShape, Present
<1>7. CASE Deselect \/ Select \/ RebuildFinds \/ RebuildSwaps
  BY <1>1, <1>7 DEF Deselect, Select, RebuildFinds, RebuildSwaps, repo
<1>8. ASSUME NEW c \in Calls, CallStep(c) PROVE EditShape'
  BY <1>1, <1>2, <1>3, <1>4, <1>8, QuietCalls
<1> QED
  BY <1>5, <1>6, <1>7, <1>8 DEF Next

(* git stash drop makes the list shorter. *)
LEMMA WithoutType ==
    ASSUME NEW S, NEW s \in Seq(S), NEW i \in DOMAIN s
    PROVE  Without(s, i) \in Seq(S) /\ Len(Without(s, i)) <= Len(s)
<1>1. SubSeq(s, 1, i - 1) \in Seq(S) /\ Len(SubSeq(s, 1, i - 1)) = i - 1
  OBVIOUS
<1>2. SubSeq(s, i + 1, Len(s)) \in Seq(S) /\ Len(SubSeq(s, i + 1, Len(s))) = Len(s) - i
  OBVIOUS
<1> QED
  BY <1>1, <1>2 DEF Without

(* What is left to drop stays a set of places. *)
LEMMA DropsStep ==
    ASSUME MaxStash \in Nat, IInv, StashShape, NEW c \in Calls, CallStep(c)
    PROVE  \A d \in Calls : call'[d].drop \subseteq 1..MaxStash
<1>1. PICK D : call \in [Calls -> Record(D)]
  BY DEF IInv, Types
<1>2. call[c] \in Record(D) /\ call[c].drop \subseteq 1..MaxStash /\ Fresh.drop = {}
  BY <1>1 DEF StashShape, Fresh
<1>3. ASSUME NEW r, r.drop \subseteq 1..MaxStash, call' = [call EXCEPT ![c] = r]
      PROVE  \A d \in Calls : call'[d].drop \subseteq 1..MaxStash
  BY <1>1, <1>3 DEF StashShape
<1>4. CASE RemoveListsStashes(c)
  <2> DEFINE b == head[call[c].tree]
             q == {i \in DOMAIN stash : b /= None /\ stash[i] = b}
  <2>1. call' = [call EXCEPT ![c].pc = "drop", ![c].onto = b, ![c].drop = q]
    BY <1>4 DEF RemoveListsStashes
  <2>3. q \subseteq 1..MaxStash
    <3>1. DOMAIN stash = 1..Len(stash) /\ Len(stash) \in Nat /\ Len(stash) <= MaxStash
      BY DEF StashShape
    <3> QED
      BY <3>1
  <2> HIDE DEF b, q
  <2>2. PICK r : r = [call[c] EXCEPT !.pc = "drop", !.onto = b, !.drop = q]
    OBVIOUS
  <2>4. r.drop = q
    BY <1>2, <2>2 DEF Record
  <2>5. call' = [call EXCEPT ![c] = r]
    BY <1>1, <2>1, <2>2
  <2> QED
    BY <1>3, <2>3, <2>4, <2>5
<1>5. CASE RemoveDropsStash(c)
  <2>1. PICK q : call' = [call EXCEPT ![c].drop = q] /\ q \subseteq call[c].drop
    BY <1>1, <1>5 DEF RemoveDropsStash
  <2>2. PICK r : r = [call[c] EXCEPT !.drop = q]
    OBVIOUS
  <2>3. r.drop = q
    BY <1>2, <2>2 DEF Record
  <2>4. call' = [call EXCEPT ![c] = r]
    BY <2>1, <2>2
  <2> QED
    BY <1>2, <1>3, <2>1, <2>3, <2>4
<1>6. ASSUME NEW pc, Goes(c, pc) PROVE \A d \in Calls : call'[d].drop \subseteq 1..MaxStash
  BY <1>1, <1>2, <1>6 DEF Goes, StashShape, Record
<1>7. ASSUME Ends(c) \/ Finishes(c) PROVE \A d \in Calls : call'[d].drop \subseteq 1..MaxStash
  BY <1>1, <1>7 DEF Ends, Finishes, StashShape, Fresh
<1>8. CASE CreateValidates(c)
  BY <1>1, <1>8 DEF CreateValidates, StashShape, Fresh
<1>9. CASE RemoveBegins(c)
  <2>1. PICK r : r.drop = {} /\ call' = [call EXCEPT ![c] = r]
    BY <1>9 DEF RemoveBegins, Fresh
  <2> QED
    BY <1>3, <2>1
<1>10. CASE MergeResolves(c)
  <2>1. PICK r : r.drop = {} /\ call' = [call EXCEPT ![c] = r]
    BY <1>10 DEF MergeResolves, Fresh
  <2> QED
    BY <1>3, <2>1
<1>11. CASE MergeLands(c)
  <2>1. PICK p, s : call' = [call EXCEPT ![c].pc = p, ![c].src = s]
    BY <1>11 DEF MergeLands
  <2> QED
    BY <1>1, <1>2, <2>1 DEF StashShape, Record
<1>12. CASE CreateReady(c) \/ CreateAdds(c) \/ CreateBase(c) \/ CreateHydrates(c)
            \/ RemoveStashesDone(c) \/ RemoveTree(c) \/ MergeGuards(c) \/ MergeFails(c)
  BY <1>6, <1>12 DEF CreateReady, CreateAdds, CreateBase, CreateHydrates, RemoveStashesDone,
                     RemoveTree, MergeGuards, MergeFails
<1>13. CASE Unconfigured(c) \/ CreateRefused(c) \/ CreateAddFails(c) \/ CreateHydrateFails(c)
            \/ CreateEnds(c) \/ RemoveTreeFails(c) \/ DeleteBranch(c) \/ DeleteBranchFails(c)
            \/ KeepBranch(c) \/ RescanStep(c) \/ MergeGuarded(c) \/ MergeAborts(c)
  BY <1>7, <1>13 DEF Unconfigured, CreateRefused, CreateAddFails, CreateHydrateFails, CreateEnds,
                     RemoveTreeFails, DeleteBranch, DeleteBranchFails, KeepBranch, RescanStep,
                     MergeGuarded, MergeAborts, Rescan
<1> QED
  BY <1>4, <1>5, <1>8, <1>9, <1>10, <1>11, <1>12, <1>13 DEF CallStep

LEMMA StashShapeStep ==
    ASSUME Sites, MaxStash \in Nat, IInv, StashShape, EditShape, Next
    PROVE  StashShape'
<1>0. /\ head \in [Places -> Branches \cup {None}] /\ stash \in Seq(Branches) /\ Len(stash) <= MaxStash
  BY DEF IInv, Types, StashShape
<1>1. ASSUME UNCHANGED <<stash, call>> PROVE StashShape'
  BY <1>1 DEF StashShape
<1>2. ASSUME NEW c \in Calls, CallStep(c) PROVE StashShape'
  <2>1. \A d \in Calls : call'[d].drop \subseteq 1..MaxStash
    BY <1>2, DropsStep
  <2>2. stash' \in Seq(Branches) /\ Len(stash') <= MaxStash
    <3>1. CASE RemoveDropsStash(c)
      <4>1. PICK i : stash' = IF i \in DOMAIN stash THEN Without(stash, i) ELSE stash
        BY <3>1 DEF RemoveDropsStash
      <4>2. CASE i \in DOMAIN stash
        <5>1. Without(stash, i) \in Seq(Branches) /\ Len(Without(stash, i)) <= Len(stash)
          BY <1>0, <4>2, WithoutType
        <5> QED
          BY <1>0, <4>1, <4>2, <5>1
      <4> QED
        BY <1>0, <4>1, <4>2
    <3> QED
      BY <1>0, <1>2, <3>1, QuietCalls
  <2> QED
    BY <2>1, <2>2 DEF StashShape
<1>3. ASSUME NEW w \in Places, Stash(w) PROVE StashShape'
  <2>1. PICK b \in Branches : stash' = <<b>> \o stash /\ Len(stash) < MaxStash /\ call' = call
    BY <1>0, <1>3 DEF Stash, EditShape, Present
  <2> QED
    BY <1>0, <2>1 DEF StashShape
<1>4. ASSUME NEW w \in Places, Edit(w) \/ Commit(w) \/ Switch(w) \/ UserMerges(w) PROVE StashShape'
  BY <1>1, <1>4 DEF Edit, Commit, Switch, UserMerges
<1>5. CASE Deselect \/ Select \/ RebuildFinds \/ RebuildSwaps
  BY <1>1, <1>5 DEF Deselect, Select, RebuildFinds, RebuildSwaps, repo
<1> QED
  BY <1>2, <1>3, <1>4, <1>5 DEF Next

LEMMA WatchShapeStep ==
    ASSUME WatchShape, Next
    PROVE  WatchShape'
<1>1. Present \in SUBSET Places
  BY DEF Present
<1>2. ASSUME NEW c \in Calls, CallStep(c) PROVE WatchShape'
  BY <1>1, <1>2, QuietCalls DEF WatchShape
<1>3. ASSUME NEW w \in Places, Edit(w) \/ Commit(w) \/ Stash(w) \/ Switch(w) \/ UserMerges(w)
      PROVE  WatchShape'
  BY <1>3 DEF Edit, Commit, Stash, Switch, UserMerges, watches, WatchShape
<1>4. CASE Deselect \/ Select \/ RebuildFinds \/ RebuildSwaps
  BY <1>1, <1>4 DEF Deselect, Select, RebuildFinds, RebuildSwaps, WatchShape
<1> QED
  BY <1>2, <1>3, <1>4 DEF Next

LEMMA ShapesStep == Sites /\ MaxStash \in Nat /\ IInv /\ Shapes /\ [Next]_vars => Shapes'
<1> SUFFICES ASSUME Sites, MaxStash \in Nat, IInv, Shapes, [Next]_vars PROVE Shapes'
  OBVIOUS
<1>1. CASE Next
  BY <1>1, LogShapeStep, HeadShapeStep, EditShapeStep, StashShapeStep, WatchShapeStep DEF Shapes
<1>2. CASE UNCHANGED vars
  BY <1>2 DEF vars, Shapes, LogShape, HeadShape, EditShape, StashShape, WatchShape, Present
<1> QED
  BY <1>1, <1>2

LEMMA Typed == IInv /\ Shapes => TypeOK
BY DEF IInv, Types, Rooted, Shapes, LogShape, HeadShape, EditShape, StashShape, WatchShape,
   TypeOK, Present, Record

(* No branch is checked out twice, uncommitted work is in worktrees that    *)
(* are there, a branch that is gone leaves no commits, and a stash to drop  *)
(* has a place in a list that was never longer than its bound.              *)
THEOREM TypeCorrect ==
    ASSUME Sites, MaxStash \in Nat
    PROVE  Spec => []TypeOK
<1>1. Init => IInv /\ Shapes
  BY IInvInit, ShapesInit
<1>2. IInv /\ Shapes /\ [Next]_vars => IInv' /\ Shapes'
  BY IInvStep, ShapesStep
<1>3. IInv /\ Shapes => TypeOK
  BY Typed
<1> QED
  BY <1>1, <1>2, <1>3, PTL DEF Spec
=============================================================================
