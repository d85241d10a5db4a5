------------------------- MODULE WindowLive_proofs -------------------------
(***************************************************************************)
(* Theorems about the services that keep the window up to date, for every  *)
(* value of the constants of MCWindowLive: the gate of a page that is      *)
(* reloaded, and the merges that the poll task of a worktree announces.    *)
(***************************************************************************)
EXTENDS MCWindowLive, TLAPS

-----------------------------------------------------------------------------
(* WebviewHealth.                                                          *)

Stages == {"none", "start", "reload", "undo"}

(* The gate and what the callers remember of it; the probe sequence waits   *)
(* for its own reload and for nothing else.                                 *)
Types ==
    /\ ready \in BOOLEAN
    /\ call \in [Callers -> Stages] /\ was \in [Callers -> BOOLEAN]
OneSequence == call["probe"] /= "none" => probe = "verdict"

(* GateOpens alone does not survive a failed reload: the caller that undoes *)
(* it must be one that found the gate open.                                 *)
Remembered ==
    page = "alive" /\ ~ready =>
        \E c \in Callers : call[c] \in {"reload", "undo"} /\ was[c] = TRUE

IInv == Types /\ OneSequence /\ Remembered

\* The probe and WebKit's callback are two callers.
LEMMA TwoCallers == "probe" \in Callers /\ "hook" \in Callers /\ "probe" /= "hook"
BY DEF Callers

\* The inductive invariant at the start.
LEMMA GateInit == Init => IInv
BY DEF Init, IInv, Types, OneSequence, Remembered, Stages, Callers

(* A caller that is not past the gate returns. *)
LEMMA ReturnStep ==
    ASSUME IInv, NEW c \in Callers, Returned(c), UNCHANGED <<page, was, ready>>,
           call[c] = "start" \/ was[c] = FALSE
    PROVE  IInv'
<1> USE DEF IInv
<1>1. call' = [call EXCEPT ![c] = "none"] /\ probe' = IF c = "probe" THEN "none" ELSE probe
  BY DEF Returned
<1>2. Types'
  BY <1>1 DEF Types, Stages
<1>3. OneSequence'
  BY <1>1, TwoCallers DEF OneSequence, Types
<1>4. Remembered'
  <2> SUFFICES ASSUME page = "alive", ~ready
               PROVE  \E d \in Callers : call'[d] \in {"reload", "undo"} /\ was'[d] = TRUE
    BY DEF Remembered
  <2>1. PICK d \in Callers : call[d] \in {"reload", "undo"} /\ was[d] = TRUE
    BY DEF Remembered
  <2>2. d /= c
    BY <2>1
  <2>3. QED
    BY <1>1, <2>1, <2>2 DEF Types
<1>5. QED
  BY <1>2, <1>3, <1>4

\* The steps of reload_webview preserve the inductive invariant, for either caller.
LEMMA ReloadStepKeeps ==
    ASSUME IInv, NEW c \in Callers, ReloadStep(c)
    PROVE  IInv'
<1> USE DEF IInv
<1>1. CASE Suppressed(c)
  BY <1>1, ReturnStep DEF Suppressed
<1>2. CASE WindowGone(c)
  BY <1>2, ReturnStep DEF WindowGone
<1>3. CASE ArmReload(c)
  <2>1. /\ call' = [call EXCEPT ![c] = "reload"] /\ was' = [was EXCEPT ![c] = ready]
        /\ ready' = FALSE /\ page' = page /\ probe' = probe /\ call[c] = "start"
    BY <1>3 DEF ArmReload, sequence
  <2>2. Types'
    BY <2>1 DEF Types, Stages
  <2>3. OneSequence'
    BY <2>1, TwoCallers DEF OneSequence, Types
  <2>4. ASSUME ready PROVE Remembered'
    <3>1. call'[c] = "reload" /\ was'[c] = ready /\ ready = TRUE
      BY <2>1, <2>4 DEF Types
    <3>2. QED
      BY <3>1 DEF Remembered
  <2>5. ASSUME ~ready PROVE Remembered'
    <3> SUFFICES ASSUME page = "alive"
                 PROVE  \E d \in Callers : call'[d] \in {"reload", "undo"} /\ was'[d] = TRUE
      BY <2>1 DEF Remembered
    <3>1. PICK d \in Callers : call[d] \in {"reload", "undo"} /\ was[d] = TRUE
      BY <2>5 DEF Remembered
    <3>2. d /= c
      BY <2>1, <3>1
    <3>3. QED
      BY <2>1, <3>1, <3>2 DEF Types
  <2>6. QED
    BY <2>2, <2>3, <2>4, <2>5
<1>4. CASE Reload(c)
  <2>1. /\ call' = [call EXCEPT ![c] = "none"] /\ page' = "booting" /\ was' = was /\ ready' = ready
        /\ probe' = IF c = "probe" THEN "none" ELSE probe
    BY <1>4 DEF Reload, Returned
  <2>2. QED
    BY <2>1, TwoCallers DEF Types, OneSequence, Remembered, Stages
<1>5. CASE ReloadFails(c)
  <2>1. /\ call' = [call EXCEPT ![c] = "undo"] /\ page' = page /\ was' = was /\ ready' = ready
        /\ probe' = probe /\ call[c] = "reload"
    BY <1>5 DEF ReloadFails, sequence
  <2>2. Types'
    BY <2>1 DEF Types, Stages
  <2>3. OneSequence'
    BY <2>1, TwoCallers DEF OneSequence, Types
  <2>4. \A d \in Callers : call[d] \in {"reload", "undo"} => call'[d] \in {"reload", "undo"}
    BY <2>1 DEF Types
  <2>5. QED
    BY <2>1, <2>2, <2>3, <2>4 DEF Remembered
<1>6. CASE Reopen(c)
  <2>1. /\ call' = [call EXCEPT ![c] = "none"] /\ page' = page /\ was' = was
        /\ ready' = (ready \/ was[c]) /\ probe' = IF c = "probe" THEN "none" ELSE probe
    BY <1>6 DEF Reopen, Returned
  <2>2. CASE was[c] = TRUE
    BY <2>1, <2>2, TwoCallers DEF Types, OneSequence, Remembered, Stages
  <2>3. CASE was[c] = FALSE
    <3>1. Returned(c)
      BY <1>6 DEF Reopen
    <3>2. ready' = ready
      BY <2>1, <2>3 DEF Types
    <3>3. QED
      BY <2>1, <2>3, <3>1, <3>2, ReturnStep
  <2>4. QED
    BY <2>2, <2>3 DEF Types
<1>7. QED
  BY <1>1, <1>2, <1>3, <1>4, <1>5, <1>6 DEF ReloadStep

\* Every step preserves the inductive invariant.
LEMMA GateStep == IInv /\ [Next]_vars => IInv'
<1> SUFFICES ASSUME IInv, [Next]_vars PROVE IInv'
  OBVIOUS
<1> USE DEF IInv
<1>1. CASE WebviewReady
  BY <1>1 DEF WebviewReady, Types, OneSequence, Remembered
<1>2. CASE PageDies
  <2>1. /\ page' = "dead" /\ ready' = ready /\ was' = was /\ probe' = probe
        /\ call' = call \/ call' = [call EXCEPT !["hook"] = "start"]
    BY <1>2 DEF PageDies, sequence
  <2>2. QED
    BY <2>1, TwoCallers DEF Types, OneSequence, Remembered, Stages
<1>3. CASE WebviewPong \/ CooldownOver
  BY <1>3 DEF WebviewPong, CooldownOver, sequence, Types, OneSequence, Remembered
<1>4. CASE FocusGained \/ EmitPing \/ Answered \/ ProbeMissed
  BY <1>4 DEF FocusGained, EmitPing, Answered, ProbeMissed, Types, OneSequence, Remembered
<1>5. CASE Verdict
  <2>1. /\ page' = page /\ ready' = ready /\ was' = was /\ probe = "backoff"
        /\ \/ call' = call
           \/ probe' = "verdict" /\ call' = [call EXCEPT !["probe"] = "start"]
    BY <1>5 DEF Verdict
  <2>2. call["probe"] = "none"
    BY <2>1 DEF OneSequence
  <2>3. Types'
    BY <2>1 DEF Types, Stages
  <2>4. OneSequence'
    BY <2>1, <2>2 DEF OneSequence
  <2>5. \A d \in Callers : call[d] \in {"reload", "undo"} => call'[d] = call[d]
    BY <2>1, <2>2 DEF Types
  <2>6. QED
    BY <2>1, <2>3, <2>4, <2>5 DEF Remembered
<1>6. CASE \E c \in Callers : ReloadStep(c)
  BY <1>6, ReloadStepKeeps
<1>7. CASE UNCHANGED vars
  BY <1>7 DEF vars, sequence, bounds, Types, OneSequence, Remembered
<1>8. QED
  BY <1>1, <1>2, <1>3, <1>4, <1>5, <1>6, <1>7 DEF Next, ProbeStep

(* A caller that undoes a failed reload will open the gate again.           *)
LEMMA GateWillOpen == IInv => GateOpens
BY DEF IInv, Remembered, GateOpens

-----------------------------------------------------------------------------
(* PullPolls, in its slots.                                                *)

head      == v1
pr        == v2
task      == v8
announced == v11
asof      == v12
witnessed == v13
switched  == v14

PullTypes ==
    /\ head \in Branches /\ pr \in [Branches -> Pulls!Pulls \cup {None}]
    /\ announced \in [Branches -> 0..2]
    /\ asof \in Branches \cup {None} /\ witnessed \in Branches \cup {None}
    /\ switched \in BOOLEAN /\ task \in Pulls!Tasks \cup {None}

Open   == <<TRUE, "OPEN">>
Merged == <<TRUE, "MERGED">>

(* Only the merge of a pull request that is merged is announced. *)
AnnouncedMerged == \A b \in Branches : announced[b] > 0 => pr[b] = "MERGED"

(* An answer that has not landed is what GitHub had: a pull request does    *)
(* not open again, and one seen open was not announced.                     *)
AnswerTrue ==
    task # None /\ task.pc = "land" =>
        /\ asof \in Branches /\ task.got \in Pulls!Answers \cup {<<>>}
        /\ task.got \in Pulls!Answers /\ task.got[2] = "OPEN" =>
              announced[asof] = 0 /\ pr[asof] # None
        /\ task.got \in Pulls!Answers /\ task.got[2] = "MERGED" => pr[asof] = "MERGED"
        /\ task.got \in Pulls!Answers /\ task.remote = TRUE => task.got = <<TRUE, task.got[2]>>
        /\ task.got \in Pulls!Answers /\ task.got[2] # None => task.remote = TRUE
        /\ task.got \in Pulls!Answers /\ task.remote = TRUE /\ asof = head /\ pr[head] # None =>
              task.got[2] # None \/ witnessed = None

(* The task that has seen a pull request open holds its last answer; the    *)
(* merge is announced with the answer that brings it.                       *)
Holds(b) ==
    /\ task # None /\ task.pc # "dead" /\ task.remote = TRUE
    /\ head = b /\ asof = b /\ pr[b] # None
    /\ \/ task.cached = Open /\ announced[b] = 0
       \/ task.cached = Merged /\ announced[b] > 0
SeenHeld == witnessed # None => Holds(witnessed)

(* Until another branch is checked out, one merge is announced, and the     *)
(* task that has announced it does not see the pull request open.           *)
OneBranch ==
    ~switched =>
        /\ asof \in {None, head}
        /\ \A b \in Branches \ {head} : announced[b] = 0
        /\ announced[head] <= 1
        /\ announced[head] = 1 /\ task # None /\ task.cached # None => task.cached[2] # "OPEN"

PullInv == PullTypes /\ AnnouncedMerged /\ AnswerTrue /\ SeenHeld /\ OneBranch

PullSlots == <<v1, v2, v3, v4, v5, v6, v7, v8, v9, v10, v11, v12, v13, v14>>

\* The poll task at the start.
LEMMA PullInit == Pulls!Init => PullInv
<1> USE NoneAssumption DEF head, pr, task, announced, asof, witnessed, switched
<1> SUFFICES ASSUME Pulls!Init PROVE PullInv
  OBVIOUS
<1>1. PullTypes
  <2>1. announced \in [Branches -> 0..2] /\ pr \in [Branches -> Pulls!Pulls \cup {None}]
    BY DEF Pulls!Init
  <2>2. switched \in BOOLEAN /\ task = None /\ asof = None /\ witnessed = None /\ head \in Branches
    BY DEF Pulls!Init
  <2> QED
    BY <2>1, <2>2 DEF PullTypes
<1>2. AnnouncedMerged /\ AnswerTrue /\ SeenHeld /\ OneBranch
  BY DEF Pulls!Init, AnnouncedMerged, AnswerTrue, SeenHeld, OneBranch
<1> QED
  BY <1>1, <1>2 DEF PullInv

(* A task that is left alone, nudged or woken, over pull requests that may  *)
(* have been opened or merged meanwhile.                                    *)
Same == /\ task' \in Pulls!Tasks \cup {None} /\ (task' = None) = (task = None)
        /\ task # None =>
             /\ (task'.pc = "dead") = (task.pc = "dead") /\ (task'.pc = "land") = (task.pc = "land")
             /\ task'.remote = task.remote /\ task'.cached = task.cached /\ task'.got = task.got

LEMMA TaskStays ==
    ASSUME PullInv, Same, UNCHANGED <<head, announced, asof, witnessed, switched>>,
           pr' \in [Branches -> Pulls!Pulls \cup {None}],
           \A b \in Branches : /\ pr[b] # None => pr'[b] \in {pr[b], "MERGED"}
                               /\ pr[b] = None => pr'[b] # "MERGED"
    PROVE  PullInv'
<1> USE NoneAssumption DEF PullInv
<1>0. "MERGED" # None
  BY DEF Pulls!Pulls
<1>1. PullTypes'
  BY DEF PullTypes, Same
<1>2. AnnouncedMerged'
  BY <1>0 DEF AnnouncedMerged, PullTypes
<1>3. OneBranch'
  BY DEF OneBranch, Same
<1>4. SeenHeld'
  BY <1>0 DEF SeenHeld, Holds, Same, PullTypes
<1>5. AnswerTrue'
  <2> SUFFICES ASSUME task' # None, task'.pc = "land" PROVE AnswerTrue'
    BY DEF AnswerTrue
  <2>1. task # None /\ task.pc = "land" /\ task'.got = task.got /\ task'.remote = task.remote
    BY DEF Same
  <2>2. witnessed # None => witnessed = head /\ pr[head] # None
    BY DEF SeenHeld, Holds
  <2> QED
    BY <1>0, <2>1, <2>2 DEF AnswerTrue, PullTypes
<1> QED
  BY <1>1, <1>2, <1>3, <1>4, <1>5

(* A task that has just begun, has ended or has panicked knows nothing. *)
LEMMA TaskGone ==
    ASSUME PullInv, UNCHANGED <<head, pr, announced, asof, switched>>, witnessed' = None,
           task' \in Pulls!Tasks \cup {None},
           task' # None => task'.pc # "land" /\ task'.cached = None
    PROVE  PullInv'
BY DEF PullInv, PullTypes, AnnouncedMerged, AnswerTrue, SeenHeld, OneBranch

\* gh is asked about the branch that is checked out.
LEMMA AskStep ==
    ASSUME PullInv, Pulls!Ask
    PROVE  PullInv'
<1> USE NoneAssumption DEF PullInv, head, pr, task, announced, asof, witnessed, switched
<1> DEFINE seen == Pulls!Resolves(Pulls!Seen)
           got  == IF seen THEN Pulls!Answer ELSE <<FALSE, None>>
<1>1. /\ task # None /\ task.pc = "ask" /\ asof' = head
      /\ task' = [task EXCEPT !.pc = "land", !.remote = seen, !.got = got]
      /\ UNCHANGED <<head, pr, announced, witnessed, switched>>
  BY DEF Pulls!Ask, Pulls!Wakes, Pulls!github
<1>2. task \in Pulls!Tasks
  BY <1>1 DEF PullTypes
<1>3. "OPEN" # None /\ "MERGED" # None
  BY DEF Pulls!Pulls
<1>4. /\ Pulls!Answer \in {<<>>, <<TRUE, pr[head]>>}
      /\ pr[head] \in Pulls!Pulls \cup {None} /\ head \in Branches
  BY DEF Pulls!Answer, PullTypes
<1>5. got \in {<<>>, <<TRUE, pr[head]>>, <<FALSE, None>>} /\ seen \in BOOLEAN
  <2>1. seen \in BOOLEAN
    BY DEF Pulls!Resolves
  <2> QED
    BY <1>4, <2>1
<1>12. <<TRUE, pr[head]>> \in Pulls!Answers /\ <<FALSE, None>> \in Pulls!Answers
  BY <1>4 DEF Pulls!Answers
<1>6. /\ task' \in Pulls!Tasks /\ task'.pc = "land" /\ task'.remote = seen /\ task'.got = got
      /\ task'.cached = task.cached
  <2>1. got \in Pulls!Answers \cup {<<>>, None}
    BY <1>5, <1>12
  <2> QED
    BY <1>1, <1>2, <1>5, <2>1 DEF Pulls!Tasks, Pulls!Answers
<1>7. PullTypes'
  BY <1>1, <1>4, <1>6 DEF PullTypes
<1>8. AnnouncedMerged'
  BY <1>1 DEF AnnouncedMerged
<1>9. OneBranch'
  BY <1>1, <1>2, <1>6, <1>4 DEF OneBranch
<1>10. SeenHeld'
  <2> SUFFICES ASSUME witnessed # None PROVE Holds(witnessed)'
    BY <1>1 DEF SeenHeld
  <2>1. Holds(witnessed) /\ witnessed = head /\ task.remote = TRUE
    BY DEF SeenHeld, Holds
  <2>2. seen = TRUE
    BY <2>1 DEF Pulls!Resolves
  <2> QED
    BY <1>1, <1>6, <2>1, <2>2 DEF Holds
<1>11. AnswerTrue'
  <2>1. got \in Pulls!Answers \cup {<<>>}
    BY <1>5, <1>12
  <2>2. \/ got = <<>>
        \/ seen = TRUE /\ got = <<TRUE, pr[head]>>
        \/ seen = FALSE /\ got = <<FALSE, None>>
    <3>1. CASE seen
      BY <1>4, <1>5, <3>1
    <3>2. CASE ~seen
      BY <1>5, <3>2
    <3> QED
      BY <3>1, <3>2
  <2>3. witnessed # None => seen = TRUE
    BY DEF SeenHeld, Holds, Pulls!Resolves
  <2>4. pr[head] = "OPEN" => announced[head] = 0
    BY <1>3, <1>4 DEF AnnouncedMerged, PullTypes
  <2>5. <<>> \notin Pulls!Answers
    BY DEF Pulls!Answers
  <2> HIDE DEF seen, got
  <2>6. CASE got = <<>>
    BY <1>1, <1>4, <1>6, <2>5, <2>6 DEF AnswerTrue
  <2>7. CASE got # <<>> /\ seen = FALSE
    <3>1. got = <<FALSE, None>>
      BY <2>2, <2>7
    <3>2. got[2] = None
      BY <3>1
    <3> QED
      BY <1>1, <1>3, <1>4, <1>6, <2>1, <2>3, <2>7, <3>1, <3>2 DEF AnswerTrue
  <2>8. CASE got # <<>> /\ seen = TRUE
    <3>1. got = <<TRUE, pr[head]>>
      BY <2>2, <2>8
    <3>2. got[2] = pr[head]
      BY <3>1
    <3> QED
      BY <1>1, <1>3, <1>4, <1>6, <2>1, <2>4, <2>8, <3>1, <3>2 DEF AnswerTrue
  <2> QED
    BY <2>2, <2>6, <2>7, <2>8
<1> QED
  BY <1>7, <1>8, <1>9, <1>10, <1>11

\* The answer of gh lands.
LEMMA LandStep ==
    ASSUME PullInv, Pulls!Land
    PROVE  PullInv'
<1> USE NoneAssumption DEF PullInv, head, pr, task, announced, asof, witnessed, switched
<1> DEFINE fresh  == IF task.got = <<>> THEN Pulls!AfterError(task.cached) ELSE task.got
           merges == task.got # <<>> /\ Pulls!Merges(task.cached, fresh)
<1>1. /\ task # None /\ task.pc = "land" /\ UNCHANGED <<head, pr, asof, switched>>
      /\ task' = [task EXCEPT !.pc = "quiet", !.cached = fresh, !.got = None]
      /\ announced' = IF merges THEN [announced EXCEPT ![asof] = (@ + 1) % 3] ELSE announced
      /\ witnessed' = IF task.got # <<>> /\ fresh[2] = "OPEN" /\ asof = head THEN head ELSE witnessed
  BY DEF Pulls!Land, Pulls!Wakes, Pulls!github
<1>2. task \in Pulls!Tasks /\ asof \in Branches
  BY <1>1 DEF PullTypes, AnswerTrue
<1>3. /\ "OPEN" # None /\ "MERGED" # None /\ <<>> \notin Pulls!Answers /\ None \notin Pulls!Answers
      /\ Open \in Pulls!Answers /\ Merged \in Pulls!Answers /\ Open[2] = "OPEN" /\ Merged[2] = "MERGED"
  <2>1. "OPEN" \in Pulls!Pulls \cup {None} /\ "MERGED" \in Pulls!Pulls \cup {None}
    BY DEF Pulls!Pulls
  <2>2. Open \in Pulls!Answers /\ Merged \in Pulls!Answers
    BY <2>1 DEF Pulls!Answers, Open, Merged
  <2>3. Open[2] = "OPEN" /\ Merged[2] = "MERGED"
    BY DEF Open, Merged
  <2>4. "OPEN" # None /\ "MERGED" # None /\ <<>> \notin Pulls!Answers /\ None \notin Pulls!Answers
    BY DEF Pulls!Pulls, Pulls!Answers
  <2> QED
    BY <2>2, <2>3, <2>4
<1>4. fresh \in Pulls!Answers
  <2>1. <<FALSE, None>> \in Pulls!Answers
    BY DEF Pulls!Answers
  <2>2. task.cached \in Pulls!Answers \cup {None} /\ task.got \in Pulls!Answers \cup {<<>>}
    BY <1>1, <1>2 DEF Pulls!Tasks, Pulls!Answers, AnswerTrue
  <2> QED
    BY <2>1, <2>2 DEF Pulls!AfterError
<1>5. /\ task' \in Pulls!Tasks /\ task'.pc = "quiet" /\ task'.remote = task.remote
      /\ task'.cached = fresh /\ task'.got = None
  BY <1>1, <1>2, <1>4 DEF Pulls!Tasks, Pulls!Answers
<1>6. /\ merges => /\ task.cached # None /\ task.cached[2] = "OPEN" /\ fresh[2] = "MERGED"
                   /\ task.got = fresh /\ pr[asof] = "MERGED"
      /\ task.got = <<>> /\ fresh[2] = "OPEN" => task.cached # None /\ task.cached[2] = "OPEN"
  <2>1. task.got \in Pulls!Answers \cup {<<>>}
    BY <1>1 DEF AnswerTrue
  <2> QED
    BY <1>1, <1>3, <2>1 DEF Pulls!Merges, Pulls!AfterError, AnswerTrue
<1>7. task.got # <<>> /\ fresh[2] = "OPEN" =>
         fresh = Open /\ task.remote = TRUE /\ announced[asof] = 0 /\ pr[asof] # None
  BY <1>1, <1>3, <1>4 DEF AnswerTrue, Open
<1>8. announced' \in [Branches -> 0..2] /\ \A b \in Branches \ {asof} : announced'[b] = announced[b]
  <2>1. announced \in [Branches -> 0..2]
    BY DEF PullTypes
  <2>2. \A n \in 0..2 : (n + 1) % 3 \in 0..2
    OBVIOUS
  <2> QED
    BY <1>1, <1>2, <2>1, <2>2
<1>9. ~merges => announced' = announced
  BY <1>1
<1>10. merges /\ announced[asof] = 0 => announced'[asof] = 1
  BY <1>1, <1>2 DEF PullTypes
<1> HIDE DEF fresh, merges
<1>11. PullTypes'
  BY <1>1, <1>5, <1>8 DEF PullTypes
<1>12. AnnouncedMerged'
  BY <1>1, <1>6, <1>8, <1>9 DEF AnnouncedMerged
<1>13. AnswerTrue'
  BY <1>5 DEF AnswerTrue
<1>14. OneBranch'
  <2> SUFFICES ASSUME ~switched PROVE OneBranch'
    BY <1>1 DEF OneBranch
  <2>1. asof = head /\ head' = head /\ announced[head] \in {0, 1} /\ task' # None
    BY <1>1, <1>2, <1>5 DEF OneBranch, PullTypes
  <2>2. \A b \in Branches \ {head} : announced'[b] = 0
    BY <1>8, <2>1 DEF OneBranch
  <2>3. CASE merges
    <3>1. announced[head] # 1
      BY <1>1, <1>6, <2>1, <2>3 DEF OneBranch
    <3>2. announced'[head] = 1 /\ fresh[2] # "OPEN"
      BY <1>6, <1>10, <2>1, <2>3, <3>1
    <3> QED
      BY <1>1, <1>5, <2>1, <2>2, <3>2 DEF OneBranch
  <2>4. CASE ~merges
    <3>1. announced[head] = 1 => fresh[2] # "OPEN"
      BY <1>1, <1>6, <1>7, <2>1 DEF OneBranch
    <3> QED
      BY <1>1, <1>5, <1>9, <2>1, <2>2, <2>4, <3>1 DEF OneBranch
  <2> QED
    BY <2>3, <2>4
<1>15. SeenHeld'
  <2> SUFFICES ASSUME witnessed' # None PROVE Holds(witnessed)'
    BY DEF SeenHeld
  <2>1. CASE task.got # <<>> /\ fresh[2] = "OPEN" /\ asof = head
    <3>1. ~merges
      BY <1>6, <2>1
    <3> QED
      BY <1>1, <1>3, <1>5, <1>7, <1>9, <2>1, <3>1 DEF Holds
  <2>2. CASE ~(task.got # <<>> /\ fresh[2] = "OPEN" /\ asof = head)
    <3>1. witnessed' = witnessed /\ witnessed = head /\ Holds(head)
      BY <1>1, <2>2 DEF SeenHeld, Holds, fresh
    <3>2. asof = head /\ task.remote = TRUE /\ pr[head] # None /\ task.cached # None
      BY <1>3, <3>1 DEF Holds
    <3>3. CASE task.got = <<>>
      <4>1. fresh = task.cached /\ ~merges
        BY <3>2, <3>3 DEF fresh, merges, Pulls!AfterError
      <4> QED
        BY <1>1, <1>3, <1>5, <1>9, <3>1, <4>1 DEF Holds
    <3>4. CASE task.got # <<>>
      <4>1. task.got \in Pulls!Answers /\ fresh = task.got
        BY <1>1, <3>4 DEF AnswerTrue, fresh
      <4>2. fresh = Merged
        <5>1. fresh[2] \in Pulls!Pulls \cup {None} /\ fresh[2] # "OPEN" /\ fresh[2] # None
              /\ fresh = <<TRUE, fresh[2]>>
          BY <1>1, <2>2, <3>1, <3>2, <3>4, <4>1 DEF AnswerTrue, Pulls!Answers
        <5> QED
          BY <5>1 DEF Pulls!Pulls, Merged
      <4>3. CASE task.cached = Open /\ announced[head] = 0
        <5>1. merges
          BY <1>3, <3>2, <3>4, <4>2, <4>3 DEF merges, Pulls!Merges
        <5>2. announced'[head] = 1
          BY <1>10, <3>2, <4>3, <5>1
        <5> QED
          BY <1>1, <1>3, <1>5, <3>1, <3>2, <4>2, <5>2 DEF Holds
      <4>4. CASE task.cached = Merged /\ announced[head] > 0
        <5>1. ~merges
          BY <1>6, <4>4 DEF Merged
        <5> QED
          BY <1>1, <1>3, <1>5, <1>9, <3>1, <3>2, <4>2, <4>4, <5>1 DEF Holds
      <4> QED
        BY <3>1, <4>3, <4>4 DEF Holds
    <3> QED
      BY <3>3, <3>4
  <2> QED
    BY <2>1, <2>2
<1> QED
  BY <1>11, <1>12, <1>13, <1>14, <1>15

\* Every step of the poll task and around it preserves the inductive invariant.
LEMMA PullStep == PullInv /\ [Pulls!Next]_PullSlots => PullInv'
<1> SUFFICES ASSUME PullInv, [Pulls!Next]_PullSlots PROVE PullInv'
  OBVIOUS
<1> USE NoneAssumption DEF head, pr, task, announced, asof, witnessed, switched
<1>0. task \in Pulls!Tasks \cup {None} /\ pr \in [Branches -> Pulls!Pulls \cup {None}]
  BY DEF PullInv, PullTypes
<1>1. ASSUME Same, UNCHANGED <<head, pr, announced, asof, witnessed, switched>>
      PROVE  PullInv'
  <2>1. "MERGED" # None
    BY DEF Pulls!Pulls
  <2> QED
    BY <1>0, <1>1, <2>1, TaskStays
<1>2. ASSUME task' = task PROVE Same
  BY <1>0, <1>2 DEF Same
<1>3. ASSUME task' = Pulls!Nudge PROVE Same
  <2>1. CASE task = None
    BY <1>3, <2>1 DEF Pulls!Nudge, Same
  <2>2. CASE task # None
    <3>1. task \in Pulls!Tasks /\ task' = [task EXCEPT !.trigger = TRUE]
      BY <1>0, <1>3, <2>2 DEF Pulls!Nudge
    <3>2. task' \in Pulls!Tasks
      BY <3>1 DEF Pulls!Tasks
    <3>3. /\ task'.pc = task.pc /\ task'.remote = task.remote
          /\ task'.cached = task.cached /\ task'.got = task.got
      BY <3>1 DEF Pulls!Tasks
    <3> QED
      BY <2>2, <3>2, <3>3 DEF Same
  <2> QED
    BY <2>1, <2>2
<1>4. ASSUME NEW b \in Branches, Pulls!PullChanges(b) PROVE PullInv'
  <2>1. PICK next \in Pulls!Pulls : /\ pr[b] # None => pr[b] = "OPEN" /\ next = "MERGED"
                                    /\ pr[b] = None => next = "OPEN"
                                    /\ pr' = [pr EXCEPT ![b] = next]
    BY <1>4 DEF Pulls!PullChanges
  <2>2. UNCHANGED <<head, task, announced, asof, witnessed, switched>>
    BY <1>4 DEF Pulls!PullChanges, Pulls!Outside
  <2>3. "MERGED" # None /\ "OPEN" # "MERGED"
    BY DEF Pulls!Pulls
  <2>4. /\ pr' \in [Branches -> Pulls!Pulls \cup {None}]
        /\ \A c \in Branches : /\ pr[c] # None => pr'[c] \in {pr[c], "MERGED"}
                               /\ pr[c] = None => pr'[c] # "MERGED"
    BY <1>0, <2>1, <2>3
  <2> QED
    BY <1>2, <2>2, <2>4, TaskStays
<1>5. ASSUME Pulls!MergePull PROVE PullInv'
  <2>1. /\ pr[head] = "OPEN" /\ pr' = [pr EXCEPT ![head] = "MERGED"]
        /\ task' \in {task, Pulls!Nudge} /\ UNCHANGED <<head, announced, asof, witnessed, switched>>
    BY <1>5 DEF Pulls!MergePull
  <2>2. "MERGED" # None /\ "OPEN" # None /\ "MERGED" \in Pulls!Pulls
    BY DEF Pulls!Pulls
  <2>3. /\ pr' \in [Branches -> Pulls!Pulls \cup {None}]
        /\ \A c \in Branches : /\ pr[c] # None => pr'[c] \in {pr[c], "MERGED"}
                               /\ pr[c] = None => pr'[c] # "MERGED"
    BY <1>0, <2>1, <2>2
  <2> QED
    BY <1>2, <1>3, <2>1, <2>3, TaskStays
<1>6. ASSUME NEW b \in Branches, Pulls!SwitchBranch(b) PROVE PullInv'
  BY <1>6 DEF Pulls!SwitchBranch, Pulls!Outside, PullInv, PullTypes, AnnouncedMerged, AnswerTrue,
              SeenHeld, OneBranch
<1>7. CASE Pulls!GhChanges \/ Pulls!StatusExpires
  BY <1>1, <1>2, <1>7 DEF Pulls!GhChanges, Pulls!Outside, Pulls!StatusExpires, Pulls!github
<1>8. CASE Pulls!Subscribe \/ Pulls!Unsubscribe \/ Pulls!TaskDies
  <2>1. UNCHANGED <<head, pr, announced, asof, switched>>
    BY <1>8 DEF Pulls!Subscribe, Pulls!Unsubscribe, Pulls!TaskDies, Pulls!Polls, Pulls!github
  <2>2. \/ task' = task /\ witnessed' = witnessed
        \/ task' = None /\ witnessed' = None
        \/ task' = Pulls!Seed /\ witnessed' = None
        \/ /\ task # None /\ witnessed' = None
           /\ task' = [task EXCEPT !.pc = "dead", !.cached = None, !.got = None, !.trigger = FALSE]
    BY <1>8 DEF Pulls!Subscribe, Pulls!Unsubscribe, Pulls!TaskDies, Pulls!Wakes
  <2>3. Pulls!Seed \in Pulls!Tasks /\ Pulls!Seed.pc = "ask" /\ Pulls!Seed.cached = None
    BY DEF Pulls!Seed, Pulls!Tasks, Pulls!Answers
  <2>4. task # None =>
           LET t == [task EXCEPT !.pc = "dead", !.cached = None, !.got = None, !.trigger = FALSE]
           IN  t \in Pulls!Tasks /\ t.pc = "dead" /\ t.cached = None
    BY <1>0 DEF Pulls!Tasks, Pulls!Answers
  <2> QED
    BY <1>1, <1>2, <2>1, <2>2, <2>3, <2>4, TaskGone
<1>9. CASE Pulls!Trigger \/ Pulls!SetFocused
  BY <1>1, <1>2, <1>3, <1>9 DEF Pulls!Trigger, Pulls!SetFocused, Pulls!Polls, Pulls!github
<1>10. CASE Pulls!Receive \/ Pulls!Tick
  <2>1. /\ task # None /\ task.pc = "quiet"
        /\ UNCHANGED <<head, pr, announced, asof, witnessed, switched>>
        /\ task' = [task EXCEPT !.pc = "ask"] \/ task' = [task EXCEPT !.pc = "ask", !.trigger = FALSE]
    BY <1>10 DEF Pulls!Receive, Pulls!Tick, Pulls!Wakes, Pulls!Polls, Pulls!github
  <2>2. task \in Pulls!Tasks
    BY <1>0, <2>1
  <2>3. task' \in Pulls!Tasks
    BY <2>1, <2>2 DEF Pulls!Tasks
  <2>4. /\ task'.pc = "ask" /\ task'.remote = task.remote
        /\ task'.cached = task.cached /\ task'.got = task.got
    BY <2>1, <2>2 DEF Pulls!Tasks
  <2>5. Same
    BY <2>1, <2>3, <2>4 DEF Same
  <2> QED
    BY <1>1, <2>1, <2>5
<1>11. CASE Pulls!Ask \/ Pulls!Land
  BY <1>11, AskStep, LandStep
<1>12. CASE UNCHANGED PullSlots
  BY <1>1, <1>2, <1>12 DEF PullSlots
<1> QED
  BY <1>4, <1>5, <1>6, <1>7, <1>8, <1>9, <1>10, <1>11, <1>12 DEF Pulls!Next

\* What the service promises follows.
LEMMA PullSafe == PullInv => Pulls!MergeAnnounced /\ Pulls!MergedOnce
<1> USE NoneAssumption DEF head, pr, task, announced, asof, witnessed, switched
<1> SUFFICES ASSUME PullInv PROVE Pulls!MergeAnnounced /\ Pulls!MergedOnce
  OBVIOUS
<1>1. Pulls!MergeAnnounced
  <2> SUFFICES ASSUME NEW b \in Branches, witnessed = b, task.cached = <<TRUE, "MERGED">>
               PROVE  announced[b] > 0
    BY DEF Pulls!MergeAnnounced
  <2>1. Holds(b)
    BY DEF PullInv, SeenHeld
  <2> QED
    BY <2>1 DEF Holds, Open
<1>2. Pulls!MergedOnce
  BY DEF PullInv, OneBranch, PullTypes, Pulls!MergedOnce
<1> QED
  BY <1>1, <1>2

-----------------------------------------------------------------------------
(* The behaviours of MCWindowLive.                                         *)

\* The service that runs is chosen at the start.
LEMMA LiveSteps ==
    ASSUME [LiveNext]_liveVars
    PROVE  /\ which' = which
           /\ [Next]_vars
           /\ which = "pulls" => [Pulls!Next]_PullSlots
<1>1. CASE Webview(Next)
  BY <1>1 DEF Webview, slots, PullSlots
<1>2. CASE OfStatus(Status!Next)
  BY <1>2 DEF OfStatus
<1>3. CASE OfPulls(Pulls!Next)
  BY <1>3 DEF OfPulls
<1>4. CASE OfSection(Sections!Next)
  BY <1>4 DEF OfSection
<1>5. CASE UNCHANGED liveVars
  BY <1>5 DEF liveVars, slots, PullSlots
<1> QED
  BY <1>1, <1>2, <1>3, <1>4, <1>5 DEF LiveNext

(* The gate of a page that has reported ready is only shut while a reload   *)
(* is on its way, however the probe sequence, the callback of WebKit and    *)
(* failed reloads cross.                                                    *)
THEOREM GateIsOpened == LiveSpec => []GateOpens
<1>1. LiveInit => IInv
  BY GateInit DEF LiveInit
<1>2. IInv /\ [LiveNext]_liveVars => IInv'
  BY GateStep, LiveSteps
<1> QED
  BY <1>1, <1>2, GateWillOpen, PTL DEF LiveSpec

(* A merge that the poll task saw coming is announced, and once: whatever   *)
(* fails between two answers of gh, an error keeps the last answer, and the *)
(* edge between two answers is the announcement.                            *)
THEOREM MergesAreTold == LiveSpec => []MergesTold
<1> DEFINE PI == which = "pulls" => PullInv
<1>1. LiveInit => PI
  BY PullInit DEF LiveInit
<1>2. PI /\ [LiveNext]_liveVars => PI'
  BY PullStep, LiveSteps
<1>3. PI => MergesTold
  BY PullSafe DEF MergesTold
<1> QED
  BY <1>1, <1>2, <1>3, PTL DEF LiveSpec
=============================================================================
