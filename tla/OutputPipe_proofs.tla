-------------------------- MODULE OutputPipe_proofs --------------------------
(***************************************************************************)
(* Theorems about OutputPipe, for every set of calls, every capacity and   *)
(* every amount of work.                                                   *)
(*                                                                         *)
(* Pending counts lines and blocks and keeps no list of what was asked, so *)
(* RepliesMatch rests on the order of everything that is under way: the    *)
(* numbers of the blocks on the wire, then of the lines in stdin, rise     *)
(* without a gap from the one that the parser will count next.             *)
(***************************************************************************)
EXTENDS OutputPipe, SequenceTheorems, TLAPS

(* The number the parser gives to the next block. *)
Due == CASE phase = "greeting" -> -2 [] phase = "meta" -> -1 [] phase = "capture" -> 0
         [] OTHER -> answered + 1

IsBlock(i) == wire[i].t = "block"
InWire(n) == \E i \in DOMAIN wire : IsBlock(i) /\ wire[i].n = n
InCmds(n) == \E j \in DOMAIN cmds : cmds[j].n = n

Rising ==
    /\ \A i, j \in DOMAIN wire : i < j /\ IsBlock(i) /\ IsBlock(j) => wire[i].n < wire[j].n
    /\ \A i, j \in DOMAIN cmds : i < j => cmds[i].n < cmds[j].n
    /\ \A i \in DOMAIN wire, j \in DOMAIN cmds : IsBlock(i) => wire[i].n < cmds[j].n

Bounded ==
    /\ \A i \in DOMAIN wire : IsBlock(i) => wire[i].n \in Due..written
    /\ \A j \in DOMAIN cmds : cmds[j].n \in Due..written

(* No number is missing below one that is on the wire or, while the client   *)
(* runs, below one that has been written.                                    *)
NoGap ==
    reader /= "gone" =>
        /\ \A i \in DOMAIN wire : IsBlock(i) =>
              \A n \in Due..wire[i].n : InWire(n) \/ InCmds(n)
        /\ client = "run" => \A n \in Due..written : InWire(n) \/ InCmds(n)

(* What the lines and blocks are, by their number. *)
Kinds ==
    /\ \A i \in DOMAIN wire : IsBlock(i) =>
          /\ wire[i].n = -1 => wire[i].to \in Panes
          /\ wire[i].n >= 1 => wire[i].to \in Calls \cup {NoTag}
    /\ \A j \in DOMAIN cmds :
          /\ cmds[j].n = -1 <=> cmds[j].who = "meta"
          /\ cmds[j].n = 0 <=> cmds[j].who = "capture"
          /\ cmds[j].n >= 1 <=> cmds[j].who \in Calls \cup {NoTag}

(* A waiter's number is that of its own line and of its own block. *)
Addressed ==
    \A w \in waiters :
        /\ \A i \in DOMAIN wire : IsBlock(i) /\ wire[i].n = w.seq => wire[i].to = w.call
        /\ \A j \in DOMAIN cmds : cmds[j].n = w.seq => cmds[j].who = w.call

Counted ==
    /\ phase /= "live" => answered = 0
    /\ client /= "run" => cmds = <<>>
    /\ \A w \in waiters : w.seq > answered
    /\ \A v, w \in waiters : v.call = w.call => v = w

Mailed ==
    \A c \in Calls :
        /\ mail[c] \in {NoMail, "gone", c}
        /\ (\E w \in waiters : w.call = c) => mail[c] = NoMail /\ call[c] /= "idle"
        /\ call[c] = "idle" => mail[c] = NoMail
        /\ call[c] = "wait" /\ mail[c] = NoMail => \E w \in waiters : w.call = c

Closing ==
    /\ transport = "pty" => \A c \in Calls : call[c] = "idle"
    /\ torn \in {"shut", "failed", "done"} => stdin = "closed" \/ transport = "pty"
    /\ stdin = "closed" \/ torn /= "no" => suppress
    /\ client = "killed" => suppress
    /\ waiter /= "poll" => client /= "run"

IInv ==
    /\ TypeOK /\ Rising /\ Bounded /\ NoGap /\ Kinds /\ Addressed /\ Counted /\ Mailed
    /\ Closing /\ RepliesMatch /\ NoneLeftWaiting /\ ReportsOnlyFalls

-----------------------------------------------------------------------------
(* Sequences: the first item and the others, and one more item.             *)
LEMMA HeadTail ==
    ASSUME NEW S, NEW q \in Seq(S), q /= <<>>
    PROVE  /\ Head(q) \in S /\ Head(q) = q[1] /\ 1 \in DOMAIN q
           /\ Tail(q) \in Seq(S)
           /\ \A i \in DOMAIN Tail(q) : i \in Nat \ {0} /\ i + 1 \in DOMAIN q /\ Tail(q)[i] = q[i + 1]
           /\ \A i \in DOMAIN q : i = 1 \/ (i - 1 \in DOMAIN Tail(q) /\ Tail(q)[i - 1] = q[i])
BY HeadTailProperties

\* What Append adds to a queue and what it leaves.
LEMMA OneMore ==
    ASSUME NEW S, NEW q \in Seq(S), NEW x \in S
    PROVE  /\ Append(q, x) \in Seq(S)
           /\ \A i \in DOMAIN q : i \in DOMAIN Append(q, x) /\ Append(q, x)[i] = q[i]
           /\ Len(q) + 1 \in DOMAIN Append(q, x) /\ Append(q, x)[Len(q) + 1] = x
           /\ \A i \in DOMAIN Append(q, x) : i \in DOMAIN q \/ i = Len(q) + 1
           /\ \A i \in DOMAIN q : i < Len(q) + 1
BY AppendProperties

\* The empty queue is one of any kind of item.
LEMMA NoItems ==
    ASSUME NEW S
    PROVE  <<>> \in Seq(S) /\ DOMAIN <<>> = {}
OBVIOUS

-----------------------------------------------------------------------------
Line == [t : {"block"}, to : {"hello", "capture", NoTag} \cup Panes \cup Calls,
         n : Int, items : ItemSeq]
Order == [who : {"meta", "capture", NoTag} \cup Calls, n : Int]

\* The lines on the wire and in stdin are what TypeOK says, one by one.
LEMMA Lines ==
    ASSUME TypeOK
    PROVE  /\ wire \in Seq(LineType) /\ cmds \in Seq(Order)
           /\ \A i \in DOMAIN wire : wire[i] \in LineType /\ (IsBlock(i) => wire[i] \in Line)
           /\ \A j \in DOMAIN cmds : cmds[j] \in Order
           /\ \A l \in LineType : l.t = "block" => l \in Line
           /\ \A l \in LineType : l.t = "out" => l.item \in [pane : Panes, n : 1..MaxWork]
           /\ \A l \in LineType : l.t \in {"out", "block"}
<1>1. wire \in Seq(LineType) /\ cmds \in Seq(Order)
  BY DEF TypeOK, Order
<1>2. \A l \in LineType : l.t = "block" => l \in Line
  BY DEF LineType, Line
<1>3. \A l \in LineType : l.t = "out" => l.item \in [pane : Panes, n : 1..MaxWork]
  BY DEF LineType
<1>4. \A l \in LineType : l.t \in {"out", "block"}
  BY DEF LineType
<1>5. \A i \in DOMAIN wire : wire[i] \in LineType
  BY <1>1
<1>6. \A j \in DOMAIN cmds : cmds[j] \in Order
  BY <1>1
<1>7. QED
  BY <1>1, <1>2, <1>3, <1>4, <1>5, <1>6 DEF IsBlock

\* The number of the reply due next is an integer.
LEMMA DueType == TypeOK => Due \in Int
BY DEF TypeOK, Due

(* The block at the head of the wire is the one the parser counts next. *)
LEMMA HeadIsDue ==
    ASSUME TypeOK, Rising, Bounded, NoGap, reader /= "gone", wire /= <<>>, Head(wire).t = "block"
    PROVE  Head(wire).n = Due /\ Due <= written
<1>1. 1 \in DOMAIN wire /\ Head(wire) = wire[1] /\ IsBlock(1) /\ wire[1] \in Line
  BY Lines, HeadTail DEF IsBlock
<1>2. wire[1].n \in Int /\ Due \in Int /\ wire[1].n >= Due /\ written \in Int /\ wire[1].n <= written
  BY <1>1, DueType DEF Line, Bounded, TypeOK
<1>3. Due \in Due..wire[1].n
  BY <1>2
<1>4. InWire(Due) \/ InCmds(Due)
  BY <1>1, <1>3 DEF NoGap
<1>5. ASSUME wire[1].n > Due PROVE FALSE
  <2>1. ~InCmds(Due)
    BY <1>1, <1>2, <1>5, Lines DEF InCmds, Rising, Order
  <2>2. PICK i \in DOMAIN wire : IsBlock(i) /\ wire[i].n = Due
    BY <1>4, <2>1 DEF InWire
  <2>3. i \in Nat /\ i >= 1 /\ i /= 1
    BY <2>2, <1>2, <1>5, Lines
  <2>4. wire[1].n < wire[i].n
    BY <1>1, <2>2, <2>3 DEF Rising
  <2>5. QED
    BY <2>2, <2>4, <1>2, <1>5
<1>6. QED
  BY <1>1, <1>2, <1>5

-----------------------------------------------------------------------------
Fifo == Rising /\ Bounded /\ NoGap /\ Kinds /\ Addressed /\ Counted

(* The order of what is under way, action by action.  An action that does   *)
(* not touch it:                                                             *)
LEMMA FifoFrame ==
    ASSUME Fifo, UNCHANGED <<wire, cmds, phase, answered, written, client>>,
           waiters' \subseteq waiters, reader' /= "gone" => reader /= "gone"
    PROVE  Fifo'
<1> USE DEF Fifo
<1>1. Due' = Due
  BY DEF Due
<1>2. Rising' /\ Bounded' /\ Kinds'
  BY <1>1 DEF Rising, Bounded, Kinds, IsBlock
<1>3. NoGap'
  BY <1>1 DEF NoGap, InWire, InCmds, IsBlock
<1>4. Addressed' /\ Counted'
  BY DEF Addressed, Counted, IsBlock
<1>5. QED
  BY <1>2, <1>3, <1>4

(* Output takes no number. *)
LEMMA FifoPrint ==
    ASSUME TypeOK, TypeOK', Fifo, NEW p \in Panes, TmuxPrint(p)
    PROVE  Fifo'
<1> USE DEF Fifo
<1>1. UNCHANGED <<cmds, phase, answered, written, client, waiters, reader>>
  BY DEF TmuxPrint, readVars, cmdVars
<1>2. CASE wire' = wire
  BY <1>1, <1>2, FifoFrame
<1>3. CASE wire' = Append(wire, Out(Item(p, printed[p] + 1)))
  <2> DEFINE x == Out(Item(p, printed[p] + 1))
  <2>1. printed[p] + 1 \in 1..MaxWork /\ x.t = "out"
    BY DEF TmuxPrint, TypeOK, Work, Out, Panes
  <2>2. x \in LineType
    BY <2>1 DEF Out, Item, LineType
  <2>3. /\ \A i \in DOMAIN wire : i \in DOMAIN wire' /\ wire'[i] = wire[i]
        /\ \A i \in DOMAIN wire' : IsBlock(i)' => i \in DOMAIN wire /\ wire'[i] = wire[i] /\ IsBlock(i)
    BY <1>3, <2>1, <2>2, OneMore, Lines DEF IsBlock
  <2>4. Due' = Due
    BY <1>1 DEF Due
  <2>5. \A n : (InWire(n) => InWire(n)') /\ (InCmds(n) => InCmds(n)')
    BY <1>1, <2>3 DEF InWire, InCmds, IsBlock
  <2>6. Rising'
    BY <1>1, <2>3 DEF Rising
  <2>7. Bounded' /\ Kinds'
    BY <1>1, <2>3, <2>4 DEF Bounded, Kinds
  <2>8. NoGap'
    BY <1>1, <2>3, <2>4, <2>5 DEF NoGap
  <2>9. Addressed' /\ Counted'
    BY <1>1, <2>3 DEF Addressed, Counted
  <2>10. QED
    BY <2>6, <2>7, <2>8, <2>9
<1>4. QED
  BY <1>2, <1>3 DEF TmuxPrint

(* The client ends: what it had not read is not answered, and nothing on    *)
(* the wire waits for it.                                                   *)
LEMMA FifoClientEnds ==
    ASSUME TypeOK, Fifo, ClientEnds
    PROVE  Fifo'
<1> USE DEF Fifo
<1>1. /\ UNCHANGED <<wire, phase, answered, written, waiters, reader>>
      /\ cmds' = <<>> /\ client' /= "run"
  BY DEF ClientEnds, readVars, cmdVars
<1>2. Due' = Due /\ DOMAIN cmds' = {}
  BY <1>1, NoItems DEF Due
<1>3. Rising' /\ Bounded' /\ Kinds' /\ Addressed' /\ Counted'
  BY <1>1, <1>2 DEF Rising, Bounded, Kinds, Addressed, Counted, IsBlock
<1>4. ASSUME reader /= "gone", NEW i \in DOMAIN wire, IsBlock(i), NEW n \in Due..wire[i].n
      PROVE  InWire(n)
  <2>1. wire[i].n \in Int /\ n \in Int /\ n <= wire[i].n
    BY <1>4, Lines, DueType DEF Line
  <2>2. ~InCmds(n)
    BY <1>4, <2>1, Lines DEF InCmds, Rising, Order
  <2>3. QED
    BY <1>4, <2>2 DEF NoGap
<1>5. NoGap'
  BY <1>1, <1>2, <1>4 DEF NoGap, InWire, IsBlock
<1>6. QED
  BY <1>3, <1>5

(* A block goes onto the wire with the number of the line it answers, the   *)
(* first of those in stdin.                                                 *)
LEMMA FifoAnswer ==
    ASSUME TypeOK, TypeOK', Fifo, TmuxAnswer
    PROVE  Fifo'
<1> USE DEF Fifo
<1> DEFINE c == Head(cmds)
           block == CASE c.who = "meta" -> Block(Cmd(active, c.n), <<>>)
                      [] c.who = "capture" -> Block(c, Printed(active))
                      [] OTHER -> Block(c, <<>>)
<1>1. /\ UNCHANGED <<phase, answered, written, waiters, reader, client>>
      /\ cmds /= <<>> /\ cmds' = Tail(cmds) /\ client = "run"
      /\ wire' = IF reader = "gone" THEN wire ELSE Append(wire, block)
  BY DEF TmuxAnswer, readVars, cmdVars
<1>2. /\ c \in Order /\ c = cmds[1] /\ 1 \in DOMAIN cmds
      /\ \A j \in DOMAIN cmds' : j \in Nat \ {0} /\ j + 1 \in DOMAIN cmds /\ cmds'[j] = cmds[j + 1]
      /\ \A j \in DOMAIN cmds : j = 1 \/ (j - 1 \in DOMAIN cmds' /\ cmds'[j - 1] = cmds[j])
  BY <1>1, Lines, HeadTail
<1>3. /\ block.t = "block" /\ block.n = c.n
      /\ block.to = IF c.who = "meta" THEN active ELSE c.who
  BY <1>2 DEF Block, Cmd
<1> HIDE DEF c, block
<1>4. \A j \in DOMAIN cmds' : c.n < cmds'[j].n
  BY <1>2 DEF Rising
<1>5. Due' = Due
  BY <1>1 DEF Due
<1>6. CASE reader = "gone"
  <2>1. UNCHANGED wire
    BY <1>1, <1>6
  <2>2. Rising' /\ Bounded' /\ NoGap'
    BY <1>1, <1>2, <1>5, <1>6, <2>1 DEF Rising, Bounded, NoGap, IsBlock
  <2>3. Kinds' /\ Addressed' /\ Counted'
    BY <1>1, <1>2, <2>1 DEF Kinds, Addressed, Counted, IsBlock
  <2>4. QED
    BY <2>2, <2>3
<1>7. CASE reader /= "gone"
  <2>k. PICK k \in Nat : k = Len(wire) + 1
    BY Lines
  <2>0. block \in LineType
    <3>1. wire' = Append(wire, block) /\ wire \in Seq(LineType) /\ wire' \in Seq(LineType)
      BY <1>1, <1>7, Lines DEF TypeOK
    <3>2. k \in DOMAIN wire' /\ wire'[k] = block
      BY <3>1, <2>k
    <3>3. QED
      BY <3>1, <3>2
  <2>1. /\ \A i \in DOMAIN wire : i \in DOMAIN wire' /\ wire'[i] = wire[i] /\ i < k
        /\ \A i \in DOMAIN wire' : i = k \/ i \in DOMAIN wire
        /\ k \in DOMAIN wire' /\ wire'[k] = block
    BY <1>1, <1>7, <2>k, <2>0, OneMore, Lines
  <2>2. \A i \in DOMAIN wire : (IsBlock(i)' <=> IsBlock(i)) /\ (IsBlock(i) => wire[i].n < c.n)
    BY <1>2, <2>1 DEF IsBlock, Rising
  <2>3. IsBlock(k)' /\ wire'[k].n = c.n /\ wire'[k].to = block.to
    BY <1>3, <2>1 DEF IsBlock
  <2>4. Rising'
    <3>1. ASSUME NEW i \in DOMAIN wire', NEW j \in DOMAIN wire', i < j, IsBlock(i)', IsBlock(j)'
          PROVE  wire'[i].n < wire'[j].n
      <4>1. i \in DOMAIN wire
        BY <3>1, <2>1, Lines
      <4>2. QED
        BY <3>1, <4>1, <2>1, <2>2, <2>3 DEF Rising
    <3>2. ASSUME NEW i \in DOMAIN cmds', NEW j \in DOMAIN cmds', i < j
          PROVE  cmds'[i].n < cmds'[j].n
      BY <3>2, <1>2 DEF Rising
    <3>3. ASSUME NEW i \in DOMAIN wire', NEW j \in DOMAIN cmds', IsBlock(i)'
          PROVE  wire'[i].n < cmds'[j].n
      BY <3>3, <1>2, <1>4, <2>1, <2>2, <2>3 DEF Rising
    <3>4. QED
      BY <3>1, <3>2, <3>3 DEF Rising
  <2>5. Bounded'
    BY <1>1, <1>2, <1>5, <2>1, <2>2, <2>3 DEF Bounded
  <2>6. \A n : InWire(n) \/ InCmds(n) => (InWire(n) \/ InCmds(n))'
    <3>1. \A n : InWire(n) => InWire(n)'
      BY <2>1, <2>2 DEF InWire
    <3>2. ASSUME NEW n, InCmds(n) PROVE (InWire(n) \/ InCmds(n))'
      <4>1. PICK j \in DOMAIN cmds : cmds[j].n = n
        BY <3>2 DEF InCmds
      <4>2. CASE j = 1
        BY <4>1, <4>2, <1>2, <2>1, <2>3 DEF InWire
      <4>3. CASE j /= 1
        BY <4>1, <4>3, <1>2 DEF InCmds
      <4>4. QED
        BY <4>2, <4>3
    <3>3. QED
      BY <3>1, <3>2
  <2>7. NoGap'
    <3>1. c.n \in Due..written
      BY <1>2 DEF Bounded
    <3>2. Due..c.n \subseteq Due..written
      <4>0. c.n \in Int
        BY <1>2 DEF Order
      <4>a. written \in Int /\ Due \in Int
        BY DueType DEF TypeOK
      <4>1. c.n \in Int /\ written \in Int /\ Due \in Int /\ c.n <= written
        BY <3>1, <4>0, <4>a
      <4>2. QED
        BY <4>1
    <3>3. QED
      BY <1>1, <1>5, <1>7, <2>1, <2>2, <2>3, <2>6, <3>2 DEF NoGap
  <2>8. Kinds'
    <3>1. c.n = -1 => block.to \in Panes
      BY <1>2, <1>3 DEF Kinds, TypeOK
    <3>2. c.n >= 1 => block.to \in Calls \cup {NoTag}
      BY <1>2, <1>3, CallsAssumption DEF Kinds, NoTag
    <3>3. QED
      BY <1>2, <2>1, <2>2, <2>3, <3>1, <3>2 DEF Kinds
  <2>9. Addressed'
    <3>1. ASSUME NEW w \in waiters, c.n = w.seq PROVE block.to = w.call
      <4>1. c.who = w.call /\ w.call \in Calls
        BY <3>1, <1>2 DEF Addressed, TypeOK
      <4>2. QED
        BY <4>1, <1>3, CallsAssumption
    <3>2. QED
      BY <1>1, <1>2, <2>1, <2>2, <2>3, <3>1 DEF Addressed
  <2>10. Counted'
    BY <1>1 DEF Counted
  <2>11. QED
    BY <2>4, <2>5, <2>7, <2>8, <2>9, <2>10
<1>8. QED
  BY <1>6, <1>7

(* The parser takes a line: output, or the block it was to count.           *)
LEMMA FifoTail ==
    ASSUME TypeOK, Fifo, reader /= "gone", wire /= <<>>, wire' = Tail(wire),
           UNCHANGED <<cmds, client, written>>, waiters' \subseteq waiters, Counted',
           \/ Head(wire).t = "out" /\ Due' = Due
           \/ Head(wire).t = "block" /\ Due' = Due + 1
    PROVE  Fifo'
<1> USE DEF Fifo
<1>1. /\ \A i \in DOMAIN wire' : i \in Nat \ {0} /\ i + 1 \in DOMAIN wire /\ wire'[i] = wire[i + 1]
      /\ \A i \in DOMAIN wire : i = 1 \/ (i - 1 \in DOMAIN wire' /\ wire'[i - 1] = wire[i])
      /\ Head(wire) = wire[1] /\ 1 \in DOMAIN wire
  BY Lines, HeadTail
<1>2. \A i \in DOMAIN wire' : IsBlock(i)' <=> IsBlock(i + 1)
  BY <1>1 DEF IsBlock
<1>3. Due \in Int /\ Due' \in Int /\ written \in Int
  BY DueType DEF TypeOK
<1>4. ASSUME Head(wire).t = "block"
      PROVE  /\ wire[1].n = Due /\ IsBlock(1)
             /\ \A i \in DOMAIN wire' : IsBlock(i)' => wire'[i].n > Due /\ wire'[i].n \in Int
             /\ \A j \in DOMAIN cmds : cmds[j].n > Due /\ cmds[j].n \in Int
  <2>1. wire[1].n = Due /\ IsBlock(1)
    BY <1>1, <1>4, HeadIsDue DEF IsBlock
  <2>2. ASSUME NEW i \in DOMAIN wire', IsBlock(i)' PROVE wire'[i].n > Due /\ wire'[i].n \in Int
    <3>1. IsBlock(i + 1) /\ 1 < i + 1 /\ wire'[i] = wire[i + 1] /\ i + 1 \in DOMAIN wire
      BY <1>1, <1>2, <2>2
    <3>2. wire[1].n < wire[i + 1].n
      BY <1>1, <2>1, <3>1 DEF Rising
    <3>3. wire[i + 1].n \in Int
      BY <3>1, Lines DEF Line
    <3>4. QED
      BY <1>3, <2>1, <3>1, <3>2, <3>3
  <2>3. \A j \in DOMAIN cmds : cmds[j].n > Due /\ cmds[j].n \in Int
    BY <1>1, <1>3, <2>1, Lines DEF Rising, Order
  <2>4. QED
    BY <2>1, <2>2, <2>3
<1>5. Rising'
  <2>1. ASSUME NEW i \in DOMAIN wire', NEW j \in DOMAIN wire', i < j, IsBlock(i)', IsBlock(j)'
        PROVE  wire'[i].n < wire'[j].n
    BY <2>1, <1>1, <1>2 DEF Rising
  <2>2. QED
    BY <2>1, <1>1, <1>2 DEF Rising
<1>6. Bounded'
  <2>1. CASE Head(wire).t = "out" /\ Due' = Due
    BY <2>1, <1>1, <1>2 DEF Bounded
  <2>2. CASE Head(wire).t = "block" /\ Due' = Due + 1
    <3>1. \A i \in DOMAIN wire' : IsBlock(i)' => wire'[i].n <= written
      BY <1>1, <1>2, <1>3 DEF Bounded
    <3>2. \A j \in DOMAIN cmds : cmds[j].n <= written
      BY <1>3 DEF Bounded
    <3>3. QED
      BY <2>2, <1>3, <1>4, <3>1, <3>2 DEF Bounded
  <2>3. QED
    BY <2>1, <2>2
<1>7. ASSUME NEW n \in Due'..written, InWire(n) \/ InCmds(n) PROVE (InWire(n) \/ InCmds(n))'
  <2>1. CASE InCmds(n)
    BY <2>1 DEF InCmds
  <2>2. CASE InWire(n)
    <3>1. PICK i \in DOMAIN wire : IsBlock(i) /\ wire[i].n = n
      BY <2>2 DEF InWire
    <3>2. i /= 1
      BY <3>1, <1>1, <1>3, <1>4, <1>7 DEF IsBlock
    <3>3. i - 1 \in DOMAIN wire' /\ wire'[i - 1] = wire[i]
      BY <3>2, <1>1
    <3>4. QED
      BY <3>1, <3>3 DEF InWire, IsBlock
  <2>3. QED
    BY <1>7, <2>1, <2>2
<1>8. Due'..written \subseteq Due..written
  BY <1>3
<1>9. ASSUME NEW i \in DOMAIN wire', IsBlock(i)', NEW n \in Due'..wire'[i].n
      PROVE  (InWire(n) \/ InCmds(n))'
  <2>1. i + 1 \in DOMAIN wire /\ IsBlock(i + 1) /\ wire'[i] = wire[i + 1]
    BY <1>1, <1>2, <1>9
  <2>2. wire[i + 1].n \in Int /\ wire[i + 1].n <= written
    BY <2>1, <1>3, Lines DEF Bounded, Line
  <2>3. n \in Due..wire[i + 1].n /\ n \in Due'..written
    BY <1>3, <1>9, <2>1, <2>2
  <2>4. InWire(n) \/ InCmds(n)
    BY <2>1, <2>3 DEF NoGap
  <2>5. QED
    BY <1>7, <2>3, <2>4
<1>10. NoGap'
  BY <1>7, <1>8, <1>9 DEF NoGap
<1>11. Kinds' /\ Addressed'
  BY <1>1, <1>2 DEF Kinds, Addressed
<1>12. QED
  BY <1>5, <1>6, <1>10, <1>11

\* Taking a line off the wire keeps the numbering, and a block taken is the one due.
LEMMA FifoLine ==
    ASSUME TypeOK, Fifo, ReaderLine
    PROVE  /\ Fifo'
           /\ phase /= "live" /\ Head(wire).t = "block" => Head(wire).n = Due
           /\ phase = "live" /\ Head(wire).t = "block" =>
                 Head(wire).n = answered + 1 /\ answered + 1 <= written
<1> USE DEF Fifo
<1>1. /\ reader = "read" /\ wire /= <<>> /\ wire' = Tail(wire)
      /\ UNCHANGED <<cmds, client, written>>
  BY DEF ReaderLine
<1>2. Head(wire).t = "block" => Head(wire).n = Due /\ Due <= written
  BY <1>1, HeadIsDue
<1>3. phase = "live" => Due = answered + 1
  BY DEF Due
<1>4. CASE Head(wire).t = "out" /\ UNCHANGED <<phase, answered, waiters>>
  <2>1. Due' = Due /\ Counted'
    BY <1>1, <1>4 DEF Due, Counted
  <2>2. QED
    BY <1>1, <1>2, <1>3, <1>4, <2>1, FifoTail
<1>5. CASE Head(wire).t = "block" /\ phase /= "live" /\ SyncBlock(Head(wire))
  <2>1. phase' = NextPhase[phase] /\ UNCHANGED <<answered, waiters>> /\ answered = 0
    BY <1>5 DEF SyncBlock, Counted
  <2>2. phase \in {"greeting", "meta", "capture"}
    BY <1>5 DEF TypeOK
  <2>3. phase' = IF phase = "greeting" THEN "meta" ELSE IF phase = "meta" THEN "capture" ELSE "live"
    BY <2>1, <2>2 DEF NextPhase
  <2>4. Due' = Due + 1
    BY <2>1, <2>2, <2>3 DEF Due
  <2>5. Counted'
    BY <1>1, <2>1 DEF Counted
  <2>6. QED
    BY <1>1, <1>2, <1>3, <1>5, <2>1, <2>4, <2>5, FifoTail
<1>6. CASE Head(wire).t = "block" /\ phase = "live" /\ phase' = "live" /\ Complete(Head(wire).to)
  <2>1. answered' = answered + 1 /\ waiters' = {w \in waiters : w.seq > answered'}
    BY <1>6 DEF Complete
  <2>2. Due' = Due + 1
    BY <1>6, <2>1 DEF Due, TypeOK
  <2>3. Counted'
    BY <1>1, <1>6, <2>1 DEF Counted
  <2>4. QED
    BY <1>1, <1>2, <1>3, <1>6, <2>1, <2>2, <2>3, FifoTail
<1>7. QED
  BY <1>4, <1>5, <1>6 DEF ReaderLine, Paints

(* The reader ends with its pipe. *)
LEMMA FifoReaderEnds ==
    ASSUME TypeOK, Fifo, ReaderEnds
    PROVE  Fifo'
<1> USE DEF Fifo
<1>1. /\ UNCHANGED <<cmds, client, written, answered, phase>> /\ wire' = <<>>
      /\ waiters' = {} /\ reader' = "gone"
  BY DEF ReaderEnds, DropWaiters
<1>2. Due' = Due /\ DOMAIN wire' = {}
  BY <1>1, NoItems DEF Due
<1>3. QED
  BY <1>1, <1>2 DEF Rising, Bounded, NoGap, Kinds, Addressed, Counted

(* A line is written: it takes the next number, its waiter the same one.    *)
LEMMA FifoWrite ==
    ASSUME TypeOK, TypeOK', Fifo, Closing, transport = "control",
           NEW line \in Calls \cup {NoTag}, NEW who, Write(line, who),
           \/ who = {}
           \/ /\ line \in Calls /\ who = {[seq |-> Issued, call |-> line]}
              /\ \A w \in waiters : w.call /= line,
           UNCHANGED <<wire, phase, answered, client, reader>>
    PROVE  Fifo'
<1> USE DEF Fifo
<1>1. /\ written' = written + 1 /\ waiters' = waiters \cup who
      /\ cmds' = IF client = "run" THEN Append(cmds, Cmd(line, written + 1)) ELSE cmds
  BY DEF Write, Issued
<1>2. Due' = Due /\ Due \in Int /\ written \in Nat /\ answered \in Nat /\ answered <= written
  BY DueType DEF Due, TypeOK
<1>3. Due <= written + 1
  <2>1. phase \in {"greeting", "meta", "capture", "live"}
    BY DEF TypeOK
  <2>2. Due \in {-2, -1, 0, answered + 1}
    BY <2>1 DEF Due
  <2>3. QED
    BY <1>2, <2>2
<1>4. /\ \A i \in DOMAIN wire : IsBlock(i)' <=> IsBlock(i)
      /\ \A i \in DOMAIN wire : IsBlock(i) => wire[i].n \in Int /\ wire[i].n <= written
      /\ \A j \in DOMAIN cmds : cmds[j].n \in Int /\ cmds[j].n <= written
  BY <1>2, Lines DEF IsBlock, Bounded, Line, Order
<1>5. \A w \in waiters' :
        \/ w \in waiters /\ w.seq <= written
        \/ w = [seq |-> written + 1, call |-> line] /\ line \in Calls
  BY <1>1, <1>2 DEF TypeOK, Issued
<1>6. Counted'
  <2>1. \A w \in waiters' : w.seq > answered
    BY <1>2, <1>5 DEF Counted
  <2>2. \A v, w \in waiters' : v.call = w.call => v = w
    BY <1>1, <1>5 DEF Counted, Issued
  <2>3. client /= "run" => cmds' = <<>>
    BY <1>1 DEF Counted
  <2>4. QED
    BY <2>1, <2>2, <2>3 DEF Counted
<1>7. CASE client /= "run"
  <2>1. UNCHANGED cmds /\ cmds = <<>> /\ DOMAIN cmds = {}
    BY <1>1, <1>7, NoItems DEF Counted
  <2>2. Rising' /\ Kinds' /\ Bounded'
    BY <1>2, <1>4, <2>1, <1>1 DEF Rising, Kinds, Bounded
  <2>3. NoGap'
    BY <1>2, <1>4, <1>7, <2>1 DEF NoGap, InWire, InCmds
  <2>4. Addressed'
    BY <1>2, <1>4, <1>5, <2>1 DEF Addressed
  <2>5. QED
    BY <1>6, <2>2, <2>3, <2>4
<1>8. CASE client = "run"
  <2>k. PICK k \in Nat : k = Len(cmds) + 1
    BY Lines
  <2> DEFINE x == Cmd(line, written + 1)
  <2>0. x \in Order /\ x.n = written + 1 /\ x.who = line
    BY <1>2 DEF Cmd, Order
  <2>1. /\ \A j \in DOMAIN cmds : j \in DOMAIN cmds' /\ cmds'[j] = cmds[j] /\ j < k
        /\ \A j \in DOMAIN cmds' : j = k \/ j \in DOMAIN cmds
        /\ k \in DOMAIN cmds' /\ cmds'[k] = x
    BY <1>1, <1>8, <2>k, <2>0, OneMore, Lines
  <2> HIDE DEF x
  <2>2. Rising'
    <3>1. ASSUME NEW i \in DOMAIN cmds', NEW j \in DOMAIN cmds', i < j
          PROVE  cmds'[i].n < cmds'[j].n
      <4>1. i \in DOMAIN cmds
        BY <3>1, <2>1, Lines
      <4>2. QED
        BY <3>1, <4>1, <2>0, <2>1, <1>2, <1>4 DEF Rising
    <3>2. QED
      BY <3>1, <1>2, <1>4, <2>0, <2>1 DEF Rising
  <2>3. Bounded'
    BY <1>1, <1>2, <1>3, <1>4, <2>0, <2>1 DEF Bounded
  <2>4. ASSUME reader /= "gone", NEW n \in Due..(written + 1) PROVE (InWire(n) \/ InCmds(n))'
    <3>1. CASE n = written + 1
      BY <3>1, <2>0, <2>1 DEF InCmds
    <3>2. CASE n \in Due..written
      BY <3>2, <2>4, <1>4, <1>8, <2>1 DEF NoGap, InWire, InCmds
    <3>3. QED
      BY <1>2, <2>4, <3>1, <3>2
  <2>5. NoGap'
    <3>1. \A i \in DOMAIN wire : IsBlock(i) => Due..wire[i].n \subseteq Due..(written + 1)
      BY <1>2, <1>4
    <3>2. QED
      BY <1>1, <1>2, <1>4, <2>4, <3>1 DEF NoGap
  <2>6. Kinds'
    <3>1. /\ x.n >= 1 /\ x.n /= -1 /\ x.n /= 0
          /\ x.who /= "meta" /\ x.who /= "capture" /\ x.who \in Calls \cup {NoTag}
      BY <1>2, <2>0, CallsAssumption DEF NoTag
    <3>2. QED
      BY <1>4, <2>1, <3>1 DEF Kinds
  <2>7. Addressed'
    <3>1. \A j \in DOMAIN cmds' : \A w \in waiters' : cmds'[j].n = w.seq => cmds'[j].who = w.call
      BY <1>2, <1>4, <1>5, <2>0, <2>1 DEF Addressed
    <3>2. \A i \in DOMAIN wire : \A w \in waiters' : IsBlock(i) /\ wire[i].n = w.seq => wire[i].to = w.call
      BY <1>2, <1>4, <1>5 DEF Addressed
    <3>3. QED
      BY <1>4, <3>1, <3>2 DEF Addressed
  <2>8. QED
    BY <1>6, <2>2, <2>3, <2>5, <2>6, <2>7
<1>9. QED
  BY <1>7, <1>8

-----------------------------------------------------------------------------
Letters == Mailed /\ RepliesMatch /\ NoneLeftWaiting

\* A step that leaves calls, mail and waiters alone keeps what is known of them, unless it ends the bridge.
LEMMA LettersFrame ==
    ASSUME Letters, UNCHANGED <<call, mail, waiters>>,
           torn' \in {"failed", "done"} => torn \in {"failed", "done"} \/ \A c \in Calls : call[c] /= "wait"
    PROVE  Letters'
BY DEF Letters, Mailed, RepliesMatch, NoneLeftWaiting

(* The block that answers a waiter is addressed to it. *)
LEMMA LettersComplete ==
    ASSUME TypeOK, Addressed, Counted, Letters, wire /= <<>>, Head(wire).t = "block",
           Head(wire).n = answered + 1, Complete(Head(wire).to), UNCHANGED <<call, torn>>
    PROVE  Letters'
<1> USE DEF Letters
<1> DEFINE to == Head(wire).to
           answers(c) == [seq |-> answered + 1, call |-> c] \in waiters
<1>1. \A w \in waiters : w.seq \in Nat /\ w.seq >= answered + 1 /\ w = [seq |-> w.seq, call |-> w.call]
  BY DEF TypeOK, Counted
<1>2. answered' = answered + 1 /\ waiters' = {w \in waiters : w.seq > answered + 1}
  BY DEF Complete
<1>3. Overdue(answered + 1) = {}
  BY <1>1 DEF Overdue, TypeOK
<1>4. \A c \in Calls : mail'[c] = IF answers(c) THEN to ELSE mail[c]
  BY <1>2, <1>3 DEF Complete
<1>5. ASSUME NEW c \in Calls, answers(c) PROVE to = c
  <2>1. 1 \in DOMAIN wire /\ Head(wire) = wire[1] /\ IsBlock(1)
    BY HeadTail, Lines DEF IsBlock
  <2>2. QED
    BY <1>5, <2>1 DEF Addressed
<1> HIDE DEF to
<1>6. ASSUME NEW c \in Calls PROVE (\E w \in waiters' : w.call = c) => ~answers(c)
  BY <1>1, <1>2 DEF Counted
<1>7. ASSUME NEW c \in Calls PROVE answers(c) => mail[c] = NoMail /\ call[c] /= "idle"
  BY DEF Mailed
<1>8. ASSUME NEW c \in Calls, NEW w \in waiters, w.call = c, ~answers(c)
      PROVE  \E v \in waiters' : v.call = c
  <2>1. w.seq /= answered + 1
    BY <1>1, <1>8
  <2>2. QED
    BY <1>1, <1>2, <1>8, <2>1 DEF TypeOK
<1>9. \A c \in Calls : c /= NoMail /\ c /= "gone"
  BY CallsAssumption DEF NoMail
<1>10. Mailed'
  <2> SUFFICES ASSUME NEW c \in Calls
               PROVE  /\ mail'[c] \in {NoMail, "gone", c}
                      /\ (\E w \in waiters' : w.call = c) => mail'[c] = NoMail /\ call[c] /= "idle"
                      /\ call[c] = "idle" => mail'[c] = NoMail
                      /\ call[c] = "wait" /\ mail'[c] = NoMail => \E w \in waiters' : w.call = c
    BY DEF Mailed
  <2>1. CASE answers(c)
    BY <2>1, <1>4, <1>5, <1>6, <1>7, <1>9
  <2>2. CASE ~answers(c)
    <3>1. mail'[c] = mail[c]
      BY <2>2, <1>4
    <3>2. (\E w \in waiters' : w.call = c) => \E w \in waiters : w.call = c
      BY <1>2
    <3>3. (\E w \in waiters : w.call = c) => \E w \in waiters' : w.call = c
      BY <2>2, <1>8
    <3>4. QED
      BY <3>1, <3>2, <3>3 DEF Mailed
  <2>3. QED
    BY <2>1, <2>2
<1>11. RepliesMatch'
  BY <1>4, <1>7, <1>9 DEF RepliesMatch
<1>12. NoneLeftWaiting'
  BY <1>4, <1>5, <1>9 DEF NoneLeftWaiting
<1>13. QED
  BY <1>10, <1>11, <1>12

\* Failing the waiters leaves nobody with a letter to come.
LEMMA LettersDrop ==
    ASSUME TypeOK, Letters, DropWaiters, call' = call
    PROVE  Letters' /\ mail' \in [Calls -> {NoMail, "gone", NoTag} \cup Calls]
<1> USE DEF Letters
<1>1. /\ waiters' = {}
      /\ \A c \in Calls : mail'[c] = IF \E w \in waiters : w.call = c THEN "gone" ELSE mail[c]
      /\ mail' \in [Calls -> {NoMail, "gone", NoTag} \cup Calls]
  BY DEF DropWaiters, TypeOK
<1>2. "gone" /= NoMail
  BY DEF NoMail
<1>3. \A c \in Calls : mail'[c] = NoMail => mail[c] = NoMail /\ call[c] /= "wait"
  BY <1>1, <1>2 DEF Mailed
<1>4. Mailed'
  BY <1>1, <1>2, <1>3 DEF Mailed
<1>5. RepliesMatch'
  BY <1>1, CallsAssumption DEF RepliesMatch, Mailed, NoMail
<1>6. NoneLeftWaiting'
  BY <1>3 DEF NoneLeftWaiting
<1>7. QED
  BY <1>1, <1>4, <1>5, <1>6

\* The caller's steps keep the letters in order: issue, answer and timeout.
LEMMA LettersCommand ==
    ASSUME TypeOK, Letters, Closing, NEW c \in Calls,
           RunCommand(c) \/ CommandReturns(c) \/ CommandTimeout(c)
    PROVE  Letters'
<1> USE DEF Letters
<1>1. torn' = torn /\ mail' = mail
  BY DEF RunCommand, CommandReturns, CommandTimeout, endVars
<1>2. CASE RunCommand(c)
  <2>1. transport = "control" /\ call[c] = "idle" /\ mail[c] = NoMail
    BY <1>2 DEF RunCommand, Mailed
  <2>2. CASE degraded \/ stdin = "closed"
    <3>1. call' = [call EXCEPT ![c] = "refused"] /\ waiters' = waiters
      BY <1>2, <2>2 DEF RunCommand
    <3>2. QED
      BY <1>1, <3>1 DEF Mailed, RepliesMatch, NoneLeftWaiting, TypeOK
  <2>3. CASE ~(degraded \/ stdin = "closed")
    <3>1. /\ call' = [call EXCEPT ![c] = IF client = "run" THEN "wait" ELSE "refused"]
          /\ waiters' = waiters \cup {[seq |-> Issued, call |-> c]}
      BY <1>2, <2>3 DEF RunCommand, Write
    <3>2. torn \notin {"failed", "done"}
      BY <2>1, <2>3 DEF Closing
    <3>3. Mailed'
      <4> DEFINE w == [seq |-> Issued, call |-> c]
      <4>1. w.call = c /\ w \in waiters'
        BY <3>1
      <4>2. \A d \in Calls \ {c} : call'[d] = call[d]
        BY <3>1 DEF TypeOK
      <4>3. call'[c] \in {"wait", "refused"}
        BY <3>1 DEF TypeOK
      <4>4. \A d \in Calls \ {c} : (\E v \in waiters' : v.call = d) <=> \E v \in waiters : v.call = d
        BY <3>1, <4>1
      <4>5. \A d \in Calls \ {c} :
              /\ (\E v \in waiters' : v.call = d) => mail[d] = NoMail /\ call'[d] /= "idle"
              /\ call'[d] = "idle" => mail[d] = NoMail
              /\ call'[d] = "wait" /\ mail[d] = NoMail => \E v \in waiters' : v.call = d
        BY <4>2, <4>4 DEF Mailed
      <4>6. \A d \in Calls : mail[d] \in {NoMail, "gone", d}
        BY DEF Mailed
      <4> HIDE DEF w
      <4>7. \E v \in waiters' : v.call = c
        BY <4>1
      <4>8. QED
        BY <1>1, <2>1, <4>3, <4>5, <4>6, <4>7 DEF Mailed
    <3>4. RepliesMatch' /\ NoneLeftWaiting'
      BY <1>1, <3>1, <3>2 DEF RepliesMatch, NoneLeftWaiting, TypeOK
    <3>5. QED
      BY <3>3, <3>4
  <2>4. QED
    BY <2>2, <2>3
<1>3. CASE CommandReturns(c)
  <2>1. /\ call[c] = "wait" /\ mail[c] /= NoMail /\ waiters' = waiters
        /\ call' = [call EXCEPT ![c] = IF mail[c] = "gone" THEN "gone" ELSE "ok"]
    BY <1>3 DEF CommandReturns
  <2>2. QED
    BY <1>1, <2>1 DEF Mailed, RepliesMatch, NoneLeftWaiting, TypeOK
<1>4. CASE CommandTimeout(c)
  <2>1. call[c] = "wait" /\ waiters' = waiters /\ call' = [call EXCEPT ![c] = "timeout"]
    BY <1>4 DEF CommandTimeout
  <2>2. QED
    BY <1>1, <2>1 DEF Mailed, RepliesMatch, NoneLeftWaiting, TypeOK
<1>5. QED
  BY <1>2, <1>3, <1>4

-----------------------------------------------------------------------------
(* Teardown and exit: whatever ends the client deliberately has silenced    *)
(* the exit sink first.                                                      *)
Silenced == Closing /\ ReportsOnlyFalls

\* A client killed by raum is killed after the mark, whatever runs between.
LEMMA SilencedStep ==
    ASSUME TypeOK, Silenced, [Next]_vars
    PROVE  Silenced'
<1> USE DEF Silenced
<1>1. ASSUME UNCHANGED <<client, stdin, torn, suppress, waiter, transport, call>> PROVE Silenced'
  BY <1>1 DEF Closing, ReportsOnlyFalls
<1>2. CASE Reader
  BY <1>1, <1>2 DEF Reader, ReaderLine, ReaderDry, ReaderEOF, ReaderSend, ReaderSendFails,
     ReaderEnds, tmuxVars, readVars, sinkVars, cmdVars, endVars
<1>3. CASE Coalescer \/ ChannelCloses
  BY <1>1, <1>3 DEF Coalescer, CoalescerFeed, CoalescerDue, CoalescerEnds, ChannelCloses,
     tmuxVars, cmdVars, endVars
<1>4. CASE TmuxSplit \/ TmuxAnswer \/ \E p \in Panes : TmuxPrint(p)
  BY <1>1, <1>4 DEF TmuxSplit, TmuxAnswer, TmuxPrint, cmdVars, endVars
<1>5. CASE ClientEnds
  <2>1. /\ client = "run" /\ UNCHANGED <<stdin, torn, suppress, waiter, transport, call>>
        /\ client' = IF stdin = "closed" \/ torn = "done" THEN "killed" ELSE "fell"
    BY <1>5 DEF ClientEnds, cmdVars, endVars
  <2>2. QED
    BY <2>1 DEF Closing, ReportsOnlyFalls
<1>6. CASE Input
  BY <1>1, <1>6 DEF Input, endVars
<1>7. CASE \E c \in Calls : RunCommand(c) \/ CommandReturns(c) \/ CommandTimeout(c)
  <2>1. PICK c \in Calls : RunCommand(c) \/ CommandReturns(c) \/ CommandTimeout(c)
    BY <1>7
  <2>2. UNCHANGED <<client, stdin, torn, suppress, waiter, transport>>
    BY <2>1 DEF RunCommand, CommandReturns, CommandTimeout, tmuxVars, endVars
  <2>3. transport /= "pty"
    BY <2>1 DEF RunCommand, CommandReturns, CommandTimeout, Closing
  <2>4. QED
    BY <2>2, <2>3 DEF Closing, ReportsOnlyFalls
<1>8. CASE Teardown
  <2>1. UNCHANGED <<transport, client, call, waiter>>
    BY <1>8 DEF Teardown, TeardownMark, TeardownShut, TeardownFail, TeardownKill, tmuxVars, cmdVars
  <2>2. transport \in {"control", "pty"}
    BY TransportsAssumption DEF TypeOK
  <2>3. \/ torn' = "marked" /\ suppress' = TRUE /\ stdin' = stdin
        \/ /\ torn = "marked" /\ torn' = "shut" /\ suppress' = suppress
           /\ stdin' = IF transport = "control" THEN "closed" ELSE stdin
        \/ /\ torn \in {"shut", "failed"} /\ torn' \in {"failed", "done"}
           /\ suppress' = suppress /\ stdin' = stdin
    BY <1>8 DEF Teardown, TeardownMark, TeardownShut, TeardownFail, TeardownKill, cmdVars
  <2>4. QED
    BY <2>1, <2>2, <2>3 DEF Closing, ReportsOnlyFalls
<1>9. CASE DropHandles
  BY <1>9 DEF DropHandles, Closing, ReportsOnlyFalls, tmuxVars, cmdVars, TypeOK
<1>10. CASE Waiter
  BY <1>10 DEF Waiter, WaiterSees, WaiterReports, Closing, ReportsOnlyFalls, tmuxVars, cmdVars,
     TypeOK
<1>11. CASE UNCHANGED vars
  BY <1>1, <1>11 DEF vars, tmuxVars, cmdVars, endVars
<1>12. QED
  BY <1>2, <1>3, <1>4, <1>5, <1>6, <1>7, <1>8, <1>9, <1>10, <1>11 DEF Next, Tmux, Command

-----------------------------------------------------------------------------
(* Types.                                                                    *)
LEMMA ConcatType ==
    ASSUME NEW S, NEW a \in Seq(S), NEW b \in Seq(S)
    PROVE  a \o b \in Seq(S)
OBVIOUS

\* tmux printing to a pane keeps the types.
LEMMA TypePrint ==
    ASSUME TypeOK, NEW p \in Panes, TmuxPrint(p)
    PROVE  TypeOK'
<1>1. printed[p] \in Nat /\ printed[p] + 1 \in 1..MaxWork
  <2>1. printed["own"] \in Nat /\ printed["alien"] \in Nat /\ written \in Nat /\ MaxWork \in Nat
    BY WorkAssumption DEF TypeOK, Panes
  <2>2. Work < MaxWork /\ p \in {"own", "alien"}
    BY DEF TmuxPrint, Panes
  <2>3. QED
    BY <2>1, <2>2 DEF Work
<1>2. printed' \in [Panes -> 0..MaxWork] /\ sent' \in 1..MaxWork
  BY <1>1 DEF TmuxPrint, TypeOK
<1>3. Out(Item(p, printed[p] + 1)) \in LineType
  BY <1>1 DEF Out, Item, LineType
<1>4. wire' \in Seq(LineType)
  BY <1>3, OneMore DEF TmuxPrint, TypeOK
<1>5. QED
  BY <1>2, <1>4 DEF TmuxPrint, TypeOK, readVars, sinkVars, cmdVars, endVars

\* tmux answering a command keeps the types.
LEMMA TypeAnswer ==
    ASSUME TypeOK, TmuxAnswer
    PROVE  TypeOK'
<1> DEFINE c == Head(cmds)
           block == CASE c.who = "meta" -> Block(Cmd(active, c.n), <<>>)
                      [] c.who = "capture" -> Block(c, Printed(active))
                      [] OTHER -> Block(c, <<>>)
<1>1. c \in Order /\ cmds' \in Seq(Order)
  BY Lines, HeadTail DEF TmuxAnswer
<1>2. Printed(active) \in ItemSeq
  <2>1. active \in Panes /\ printed[active] \in 0..MaxWork
    BY DEF TypeOK
  <2>2. \A n \in 1..printed[active] : Item(active, n) \in [pane : Panes, n : 1..MaxWork]
    BY <2>1, WorkAssumption DEF Item
  <2>3. QED
    <3>1. Printed(active) \in [1..printed[active] -> [pane : Panes, n : 1..MaxWork]]
      BY <2>2 DEF Printed
    <3>2. printed[active] \in Nat
      BY <2>1
    <3>3. QED
      BY <3>1, <3>2, SeqDef DEF ItemSeq
<1>3. block \in LineType
  <2>1. <<>> \in ItemSeq /\ c.who \in {"meta", "capture", NoTag} \cup Calls /\ c.n \in Int
        /\ active \in Panes
    BY <1>1 DEF ItemSeq, Order, TypeOK
  <2>2. \A who \in {"hello", "capture", NoTag} \cup Panes \cup Calls, items \in ItemSeq :
            Block(Cmd(who, c.n), items) \in LineType
    BY <2>1 DEF Block, Cmd, LineType
  <2>3. c = Cmd(c.who, c.n)
    BY <1>1 DEF Order, Cmd
  <2>4. QED
    BY <1>2, <2>1, <2>2, <2>3
<1> HIDE DEF block
<1>4. wire' \in Seq(LineType)
  <2>1. wire' = IF reader = "gone" THEN wire ELSE Append(wire, block)
    BY DEF TmuxAnswer, block
  <2>2. QED
    BY <1>3, <2>1, OneMore, Lines
<1>5. QED
  BY <1>1, <1>4 DEF TmuxAnswer, TypeOK, Order, readVars, sinkVars, cmdVars, endVars

\* The reader's control line keeps the types.
LEMMA TypeLine ==
    ASSUME TypeOK, Fifo, ReaderLine
    PROVE  TypeOK'
<1> DEFINE line == Head(wire)
<1>1. /\ line \in LineType /\ wire' \in Seq(LineType) /\ reader' \in {"read", "send"}
      /\ UNCHANGED <<transport, printed, active, split, client, cmds, sent, chan, sinkVars,
                      stdin, written, degraded, call, endVars>>
  BY Lines, HeadTail DEF ReaderLine
<1>2. /\ line.t = "out" => line.item \in [pane : Panes, n : 1..MaxWork]
      /\ line.t = "block" => line \in Line
  BY <1>1, Lines
<1> HIDE DEF line
<1>3. CASE line.t = "out" /\ UNCHANGED <<phase, lead, answered, waiters, mail>>
           /\ batch' \in {batch, Append(batch, line.item)}
  <2>1. batch' \in ItemSeq
    <3>1. batch \in Seq([pane : Panes, n : 1..MaxWork]) /\ line.item \in [pane : Panes, n : 1..MaxWork]
      BY <1>2, <1>3 DEF TypeOK, ItemSeq
    <3>2. Append(batch, line.item) \in Seq([pane : Panes, n : 1..MaxWork])
      BY <3>1, OneMore
    <3>3. QED
      BY <1>3, <3>1, <3>2 DEF ItemSeq
  <2>2. QED
    BY <1>1, <1>3, <2>1 DEF TypeOK, sinkVars, endVars
<1>4. CASE line.t = "block" /\ phase /= "live" /\ SyncBlock(line)
  <2>1. phase' \in {"greeting", "meta", "capture", "live"}
    BY <1>4 DEF TypeOK, SyncBlock, NextPhase
  <2>2. lead' \in Panes \cup {"any"}
    <3>1. CASE phase = "meta"
      <4>1. line.n = -1
        BY <1>4, <3>1, FifoLine DEF line, Due
      <4>2. 1 \in DOMAIN wire /\ line = wire[1] /\ IsBlock(1)
        BY <1>4, Lines, HeadTail DEF IsBlock, line, ReaderLine
      <4>3. QED
        BY <1>4, <3>1, <4>1, <4>2 DEF Fifo, Kinds, SyncBlock
    <3>2. CASE phase /= "meta"
      BY <1>4, <3>2 DEF SyncBlock, TypeOK
    <3>3. QED
      BY <3>1, <3>2
  <2>3. batch' \in ItemSeq
    <3>1. line.items \in ItemSeq
      BY <1>2, <1>4 DEF Line
    <3>2. batch \o line.items \in ItemSeq
      BY <3>1, ConcatType DEF TypeOK, ItemSeq
    <3>3. QED
      BY <1>4, <3>2 DEF SyncBlock, Replay, TypeOK
  <2>4. UNCHANGED <<answered, waiters, mail>>
    BY <1>4 DEF SyncBlock
  <2>5. QED
    BY <1>1, <2>1, <2>2, <2>3, <2>4 DEF TypeOK, sinkVars, endVars
<1>5. CASE line.t = "block" /\ phase = "live" /\ Complete(line.to)
           /\ UNCHANGED <<phase, lead, batch>>
  <2>1. line.n = answered + 1 /\ answered + 1 <= written
    BY <1>5, FifoLine DEF line
  <2>2. answered' \in 0..written' /\ waiters' \subseteq [seq : 1..written', call : Calls]
    BY <1>1, <1>5, <2>1 DEF Complete, TypeOK
  <2>3. line.to \in Calls \cup {NoTag}
    <3>1. 1 \in DOMAIN wire /\ line = wire[1] /\ IsBlock(1)
      BY <1>5, Lines, HeadTail DEF IsBlock, line, ReaderLine
    <3>2. line.n >= 1
      BY <2>1 DEF TypeOK
    <3>3. QED
      BY <3>1, <3>2 DEF Fifo, Kinds
  <2>4. mail' \in [Calls -> {NoMail, "gone", NoTag} \cup Calls]
    BY <1>5, <2>3 DEF Complete, TypeOK
  <2>5. QED
    BY <1>1, <1>5, <2>2, <2>4 DEF TypeOK, sinkVars, endVars
<1>6. QED
  <2>1. \/ Paints(line) /\ batch' = Append(batch, line.item)
           /\ UNCHANGED <<phase, lead, answered, waiters, mail>>
        \/ line.t = "out" /\ UNCHANGED <<phase, lead, batch, answered, waiters, mail>>
        \/ line.t = "block" /\ phase /= "live" /\ SyncBlock(line)
        \/ line.t = "block" /\ phase = "live" /\ Complete(line.to) /\ UNCHANGED <<phase, lead, batch>>
    BY DEF ReaderLine, line
  <2>2. QED
    BY <2>1, <1>3, <1>4, <1>5 DEF Paints

\* The reader's other steps keep the types.
LEMMA TypeReader ==
    ASSUME TypeOK, Letters, ReaderDry \/ ReaderEOF \/ ReaderSend \/ ReaderSendFails \/ ReaderEnds
    PROVE  TypeOK'
<1>0. Cap \in Nat \ {0} /\ <<>> \in ItemSeq
  BY CapsAssumption DEF ItemSeq
<1>1. CASE ReaderDry \/ ReaderEOF
  BY <1>1 DEF ReaderDry, ReaderEOF, TypeOK, tmuxVars, sinkVars, cmdVars, endVars
<1>2. ASSUME chan' \in {chan, Append(chan, batch)}, chan' = chan \/ Len(chan) < Cap
      PROVE  chan' \in Seq(ItemSeq) /\ Len(chan') <= Cap
  <2>1. chan \in Seq(ItemSeq) /\ batch \in ItemSeq /\ Len(chan) <= Cap /\ Len(chan) \in Nat
    BY DEF TypeOK
  <2>2. Append(chan, batch) \in Seq(ItemSeq) /\ Len(Append(chan, batch)) = Len(chan) + 1
    BY <2>1, AppendProperties
  <2>3. QED
    BY <1>0, <1>2, <2>1, <2>2
<1>3. CASE ReaderSend \/ ReaderSendFails
  <2>1. chan' \in Seq(ItemSeq) /\ Len(chan') <= Cap
    BY <1>2, <1>3 DEF ReaderSend, ReaderSendFails
  <2>2. QED
    BY <1>0, <1>3, <2>1 DEF ReaderSend, ReaderSendFails, TypeOK, tmuxVars, sinkVars, cmdVars, endVars
<1>4. CASE ReaderEnds
  <2>1. chan' \in Seq(ItemSeq) /\ Len(chan') <= Cap
    BY <1>2, <1>4 DEF ReaderEnds, TailChunk
  <2>2. waiters' = {} /\ mail' \in [Calls -> {NoMail, "gone", NoTag} \cup Calls]
    BY <1>4, LettersDrop DEF ReaderEnds, DropWaiters
  <2>3. wire' \in Seq(LineType)
    BY <1>4 DEF ReaderEnds
  <2>4. QED
    BY <1>0, <1>4, <2>1, <2>2, <2>3 DEF ReaderEnds, TypeOK, sinkVars, endVars
<1>5. QED
  BY <1>1, <1>3, <1>4

\* The coalescer's steps keep the types.
LEMMA TypeCoalescer ==
    ASSUME TypeOK, Coalescer \/ ChannelCloses
    PROVE  TypeOK'
<1>0. <<>> \in ItemSeq
  BY DEF ItemSeq
<1>1. ASSUME NEW a \in ItemSeq, NEW b \in ItemSeq PROVE a \o b \in ItemSeq
  BY <1>1, ConcatType DEF ItemSeq
<1>2. ASSUME NEW frame \in ItemSeq, Flush(frame)
      PROVE  buf' \in ItemSeq /\ screen' \in ItemSeq /\ lost' \in BOOLEAN /\ coalescer' \in {"run", "gone"}
  BY <1>0, <1>1, <1>2 DEF Flush, TypeOK
<1>3. CASE CoalescerFeed
  <2>1. Head(chan) \in ItemSeq /\ Tail(chan) \in Seq(ItemSeq) /\ Len(Tail(chan)) <= Cap
    <3>1. chan \in Seq(ItemSeq) /\ chan /= <<>> /\ Len(chan) <= Cap /\ Cap \in Nat
      BY <1>3, CapsAssumption DEF CoalescerFeed, TypeOK
    <3>2. Len(Tail(chan)) = Len(chan) - 1 /\ Len(chan) \in Nat
      BY <3>1, HeadTailProperties
    <3>3. QED
      BY <3>1, <3>2, HeadTail
  <2>2. buf \o Head(chan) \in ItemSeq
    BY <1>1, <2>1 DEF TypeOK
  <2>3. buf' \in ItemSeq /\ screen' \in ItemSeq /\ lost' \in BOOLEAN /\ coalescer' \in {"run", "gone"}
    BY <1>2, <1>3, <2>2 DEF CoalescerFeed, TypeOK
  <2>4. QED
    BY <1>3, <2>1, <2>3 DEF CoalescerFeed, TypeOK, tmuxVars, cmdVars
<1>4. CASE CoalescerDue
  BY <1>2, <1>4 DEF CoalescerDue, TypeOK, tmuxVars, readVars, cmdVars
<1>5. CASE CoalescerEnds
  <2>1. screen' \in ItemSeq /\ buf' \in ItemSeq /\ lost' \in BOOLEAN /\ coalescer' = "gone"
    BY <1>0, <1>1, <1>5 DEF CoalescerEnds, TypeOK
  <2>2. QED
    BY <1>5, <2>1 DEF CoalescerEnds, TypeOK, tmuxVars, readVars, cmdVars
<1>6. CASE ChannelCloses
  BY <1>6 DEF ChannelCloses, TypeOK, tmuxVars, readVars, cmdVars, endVars
<1>7. QED
  BY <1>3, <1>4, <1>5, <1>6 DEF Coalescer

\* Writing a command line keeps the queue of lines and the numbers typed.
LEMMA TypeWrite ==
    ASSUME TypeOK, NEW line \in Calls \cup {NoTag}, NEW who, Write(line, who),
           who \subseteq {[seq |-> Issued, call |-> c] : c \in Calls}, answered' = answered
    PROVE  /\ cmds' \in Seq(Order) /\ written' \in Nat /\ answered' \in 0..written'
           /\ waiters' \subseteq [seq : 1..written', call : Calls] /\ degraded' \in BOOLEAN
<1>1. written \in Nat /\ written' = written + 1 /\ Issued = written + 1
  BY DEF Write, Issued, TypeOK
<1>2. Cmd(line, Issued) \in Order
  BY <1>1 DEF Cmd, Order
<1>3. cmds' \in Seq(Order)
  BY <1>2, OneMore, Lines DEF Write
<1>4. who \subseteq [seq : 1..written', call : Calls]
  BY <1>1
<1>5. waiters \subseteq [seq : 1..written', call : Calls]
  BY <1>1 DEF TypeOK
<1>6. QED
  BY <1>1, <1>3, <1>4, <1>5 DEF Write, TypeOK

\* The callers' steps keep the types.
LEMMA TypeCommand ==
    ASSUME TypeOK, Command
    PROVE  TypeOK'
<1>1. CASE Input
  <2>1. Write(NoTag, {}) /\ answered' = answered
    BY <1>1 DEF Input
  <2>2. /\ cmds' \in Seq(Order) /\ written' \in Nat /\ answered' \in 0..written'
        /\ waiters' \subseteq [seq : 1..written', call : Calls] /\ degraded' \in BOOLEAN
    BY <2>1, TypeWrite
  <2>3. QED
    BY <1>1, <2>2 DEF Input, TypeOK, Order, readVars, sinkVars, endVars
<1>2. ASSUME NEW c \in Calls, RunCommand(c) PROVE TypeOK'
  <2>1. /\ cmds' \in Seq(Order) /\ written' \in Nat /\ answered' \in 0..written'
        /\ waiters' \subseteq [seq : 1..written', call : Calls] /\ degraded' \in BOOLEAN
    <3>1. CASE UNCHANGED <<written, waiters, cmds, degraded>>
      BY <1>2, <3>1, Lines DEF RunCommand, TypeOK
    <3>2. CASE Write(c, {[seq |-> Issued, call |-> c]})
      BY <1>2, <3>2, TypeWrite DEF RunCommand
    <3>3. QED
      BY <1>2, <3>1, <3>2 DEF RunCommand
  <2>2. call' \in [Calls -> {"idle", "wait", "ok", "timeout", "gone", "refused"}]
    BY <1>2 DEF RunCommand, TypeOK
  <2>3. QED
    BY <1>2, <2>1, <2>2 DEF RunCommand, TypeOK, Order, readVars, sinkVars, endVars
<1>3. ASSUME NEW c \in Calls, CommandReturns(c) \/ CommandTimeout(c) PROVE TypeOK'
  <2>1. /\ call' \in [Calls -> {"idle", "wait", "ok", "timeout", "gone", "refused"}]
        /\ degraded' \in BOOLEAN
    BY <1>3 DEF CommandReturns, CommandTimeout, TypeOK
  <2>2. QED
    BY <1>3, <2>1 DEF CommandReturns, CommandTimeout, TypeOK, tmuxVars, readVars, sinkVars, endVars
<1>4. QED
  BY <1>1, <1>2, <1>3 DEF Command

\* The teardown and the exit waiter keep the types.
LEMMA TypeEnd ==
    ASSUME TypeOK, Letters, Teardown \/ DropHandles \/ Waiter
    PROVE  TypeOK'
<1>1. CASE TeardownFail
  <2>1. waiters' = {} /\ mail' \in [Calls -> {NoMail, "gone", NoTag} \cup Calls]
    BY <1>1, LettersDrop DEF TeardownFail, DropWaiters
  <2>2. QED
    BY <1>1, <2>1 DEF TeardownFail, TypeOK, tmuxVars, readVars, sinkVars
<1>2. CASE TeardownMark \/ TeardownShut \/ TeardownKill
  BY <1>2 DEF TeardownMark, TeardownShut, TeardownKill, TypeOK, tmuxVars, readVars, sinkVars, cmdVars
<1>3. handles \in BOOLEAN /\ suppress \in BOOLEAN /\ lost \in BOOLEAN
  BY DEF TypeOK
<1>4. CASE DropHandles
  <2>1. handles' \in BOOLEAN /\ suppress' \in BOOLEAN /\ lost' \in BOOLEAN
    BY <1>3, <1>4 DEF DropHandles
  <2>2. torn' \in {"no", "marked", "shut", "failed", "done"}
    BY <1>4 DEF DropHandles, TypeOK
  <2>3. QED
    BY <1>4, <2>1, <2>2 DEF DropHandles, TypeOK, tmuxVars, readVars, sinkVars, cmdVars
<1>5. CASE Waiter
  <2>1. handles' \in BOOLEAN /\ suppress' \in BOOLEAN /\ lost' \in BOOLEAN
    BY <1>3, <1>5 DEF Waiter, WaiterSees, WaiterReports
  <2>2. waiter' \in {"poll", "saw", "fired", "quiet"} /\ torn' = torn
    BY <1>5 DEF Waiter, WaiterSees, WaiterReports, TypeOK
  <2>3. UNCHANGED <<transport, tmuxVars, readVars, sinkVars, cmdVars>>
    BY <1>5 DEF Waiter, WaiterSees, WaiterReports
  <2>4. QED
    BY <2>1, <2>2, <2>3 DEF TypeOK, tmuxVars, readVars, sinkVars, cmdVars
<1>6. QED
  BY <1>1, <1>2, <1>4, <1>5 DEF Teardown

-----------------------------------------------------------------------------
\* The inductive invariant at the start.
LEMMA InitHolds == Init => IInv
<1> SUFFICES ASSUME Init PROVE IInv
  OBVIOUS
<1>0. /\ DOMAIN <<>> = {} /\ MaxWork \in Nat \ {0} /\ Cap \in Nat \ {0}
      /\ <<>> \in ItemSeq /\ transport \in {"control", "pty"}
  BY WorkAssumption, CapsAssumption, TransportsAssumption DEF Init, ItemSeq
<1>1. ASSUME transport = "control"
      PROVE  /\ cmds = <<Cmd("meta", -1), Cmd("capture", 0)>>
             /\ wire = <<Block(Cmd("hello", -2), <<>>)>> /\ phase = "greeting"
  BY <1>1 DEF Init, Start, ControlStart
<1>2. ASSUME transport = "pty"
      PROVE  cmds = <<>> /\ wire = <<Out(Item("own", 1))>> /\ phase = "live"
  BY <1>2 DEF Init, Start, PtyStart
<1>3. /\ answered = 0 /\ written = 0 /\ waiters = {} /\ client = "run" /\ stdin = "open"
      /\ torn = "no" /\ waiter = "poll"
      /\ \A c \in Calls : call[c] = "idle" /\ mail[c] = NoMail
  BY DEF Init
<1>4. TypeOK
  <2>1. printed \in [Panes -> 0..MaxWork] /\ sent \in 1..MaxWork /\ active \in Panes
    BY <1>0 DEF Init, Panes
  <2>2. cmds \in Seq(Order) /\ wire \in Seq(LineType)
    <3>1. Cmd("meta", -1) \in Order /\ Cmd("capture", 0) \in Order
      BY DEF Cmd, Order
    <3>2. Block(Cmd("hello", -2), <<>>) \in LineType
      BY <1>0 DEF Block, Cmd, LineType
    <3>3. Out(Item("own", 1)) \in LineType
      BY <1>0 DEF Out, Item, LineType, Panes
    <3>4. ASSUME NEW S, NEW a \in S, NEW b \in S
          PROVE  <<a>> \in Seq(S) /\ <<a, b>> \in Seq(S) /\ <<>> \in Seq(S)
      BY <3>4
    <3>5. CASE transport = "control"
      BY <1>1, <3>5, <3>1, <3>2, <3>4
    <3>6. CASE transport = "pty"
      BY <1>2, <3>6, <3>3, <3>4, NoItems
    <3>7. QED
      BY <1>0, <3>5, <3>6
  <2>3. phase \in {"greeting", "meta", "capture", "live"}
    BY <1>0, <1>1, <1>2
  <2>4. chan \in Seq(ItemSeq) /\ Len(chan) <= Cap
    BY <1>0 DEF Init
  <2>5. /\ call \in [Calls -> {"idle", "wait", "ok", "timeout", "gone", "refused"}]
        /\ mail \in [Calls -> {NoMail, "gone", NoTag} \cup Calls]
    BY DEF Init
  <2>6. batch \in ItemSeq /\ buf \in ItemSeq /\ screen \in ItemSeq
    BY <1>0 DEF Init
  <2>7. /\ transport \in Transports /\ split \in BOOLEAN /\ reader = "read" /\ lead = "any"
        /\ coalescer = "run" /\ sink = "open" /\ degraded = FALSE
        /\ handles = TRUE /\ suppress = FALSE /\ lost = FALSE
    BY DEF Init
  <2>8. written \in Nat /\ answered \in 0..written /\ waiters \subseteq [seq : 1..written, call : Calls]
    BY <1>3
  <2>9. {handles, suppress, lost} \subseteq BOOLEAN
    BY <2>7
  <2>10. QED
    BY <1>3, <2>1, <2>2, <2>3, <2>4, <2>5, <2>6, <2>7, <2>8, <2>9 DEF TypeOK, Order
<1>5. CASE transport = "control"
  <2>1. /\ DOMAIN wire = {1} /\ wire[1].n = -2 /\ Due = -2
        /\ DOMAIN cmds = {1, 2} /\ cmds[1] = Cmd("meta", -1) /\ cmds[2] = Cmd("capture", 0)
    BY <1>1, <1>5 DEF Block, Cmd, Due
  <2>2. IsBlock(1)
    BY <1>1, <1>5 DEF Block, Cmd, IsBlock
  <2>3. Rising /\ Bounded
    BY <1>3, <2>1 DEF Rising, Bounded, Cmd
  <2>4. InWire(-2) /\ InCmds(-1) /\ InCmds(0)
    BY <2>1, <2>2 DEF InWire, InCmds, Cmd
  <2>5. NoGap
    <3>1. \A n \in -2..0 : n = -2 \/ n = -1 \/ n = 0
      OBVIOUS
    <3>2. \A n \in -2..-2 : n = -2
      OBVIOUS
    <3>3. QED
      BY <1>3, <2>1, <2>4, <3>1, <3>2 DEF NoGap
  <2>6. Kinds
    BY <2>1, CallsAssumption DEF Kinds, Cmd, NoTag
  <2>7. Addressed /\ Counted
    BY <1>3 DEF Addressed, Counted
  <2>8. QED
    BY <1>3, <1>4, <1>5, <2>3, <2>5, <2>6, <2>7
    DEF IInv, Mailed, Closing, RepliesMatch, NoneLeftWaiting, ReportsOnlyFalls
<1>6. CASE transport = "pty"
  <2>1. \A i \in DOMAIN wire : ~IsBlock(i)
    BY <1>2, <1>6 DEF Out, IsBlock
  <2>2. DOMAIN cmds = {} /\ Due = 1
    BY <1>0, <1>2, <1>3, <1>6 DEF Due
  <2>3. NoGap
    BY <1>3, <2>1, <2>2 DEF NoGap
  <2>4. Rising /\ Bounded /\ Kinds
    BY <2>1, <2>2 DEF Rising, Bounded, Kinds
  <2>5. Addressed /\ Counted
    BY <1>2, <1>3, <1>6 DEF Addressed, Counted
  <2>6. QED
    BY <1>3, <1>4, <2>3, <2>4, <2>5
    DEF IInv, Mailed, Closing, RepliesMatch, NoneLeftWaiting, ReportsOnlyFalls
<1>7. QED
  BY <1>0, <1>5, <1>6

\* Every step of the bridge preserves the inductive invariant.
LEMMA StepHolds == IInv /\ [Next]_vars => IInv'
<1> SUFFICES ASSUME IInv, [Next]_vars PROVE IInv'
  OBVIOUS
<1>1. TypeOK /\ Fifo /\ Letters /\ Silenced /\ Closing
  BY DEF IInv, Fifo, Letters, Silenced
<1>2. Silenced'
  BY <1>1, SilencedStep
<1>3. SUFFICES TypeOK' /\ Fifo' /\ Letters'
  BY <1>2, <1>3 DEF IInv, Fifo, Letters, Silenced
<1> USE <1>1
<1>4. ASSUME UNCHANGED <<call, mail, waiters, torn>> PROVE Letters'
  BY <1>4, LettersFrame
<1>5. ASSUME UNCHANGED <<wire, cmds, phase, answered, written, client, waiters>>,
             reader' /= "gone" => reader /= "gone"
      PROVE  Fifo'
  BY <1>5, FifoFrame
<1>6. ASSUME NEW p \in Panes, TmuxPrint(p) PROVE TypeOK' /\ Fifo' /\ Letters'
  BY <1>4, <1>6, TypePrint, FifoPrint DEF TmuxPrint, cmdVars, endVars
<1>7. CASE TmuxAnswer
  BY <1>4, <1>7, TypeAnswer, FifoAnswer DEF TmuxAnswer, cmdVars, endVars
<1>8. CASE TmuxSplit
  <2>1. TypeOK'
    BY <1>8 DEF TmuxSplit, TypeOK, Panes, readVars, sinkVars, cmdVars, endVars
  <2>2. QED
    BY <1>4, <1>5, <1>8, <2>1 DEF TmuxSplit, readVars, cmdVars, endVars
<1>9. CASE ClientEnds
  <2>1. cmds' = <<>> /\ cmds' \in Seq([who : {"meta", "capture", NoTag} \cup Calls, n : Int])
    BY <1>9 DEF ClientEnds
  <2>2. TypeOK'
    BY <1>9, <2>1 DEF ClientEnds, TypeOK, readVars, sinkVars, cmdVars, endVars
  <2>3. QED
    BY <1>4, <1>9, <2>2, FifoClientEnds DEF ClientEnds, cmdVars, endVars
<1>10. CASE ReaderLine
  <2>1. Letters'
    <3>1. call' = call /\ torn' = torn
      BY <1>10 DEF ReaderLine, endVars
    <3>2. CASE UNCHANGED <<mail, waiters>>
      BY <1>4, <3>1, <3>2
    <3>3. CASE Head(wire).t = "block" /\ phase = "live" /\ Complete(Head(wire).to)
      BY <1>10, <3>1, <3>3, FifoLine, LettersComplete DEF Fifo, ReaderLine
    <3>4. QED
      BY <1>10, <3>2, <3>3 DEF ReaderLine, SyncBlock
  <2>2. QED
    BY <1>10, <2>1, TypeLine, FifoLine
<1>11. CASE ReaderDry \/ ReaderEOF \/ ReaderSend \/ ReaderSendFails
  <2>1. UNCHANGED <<call, mail, waiters, torn, wire, cmds, phase, answered, written, client>>
    BY <1>11 DEF ReaderDry, ReaderEOF, ReaderSend, ReaderSendFails, tmuxVars, cmdVars, endVars
  <2>2. reader /= "gone"
    BY <1>11 DEF ReaderDry, ReaderEOF, ReaderSend, ReaderSendFails
  <2>3. QED
    BY <1>4, <1>5, <1>11, <2>1, <2>2, TypeReader
<1>12. CASE ReaderEnds
  <2>1. Letters'
    BY <1>12, LettersDrop DEF ReaderEnds
  <2>2. QED
    BY <1>12, <2>1, TypeReader, FifoReaderEnds
<1>13. CASE Coalescer \/ ChannelCloses
  <2>1. UNCHANGED <<call, mail, waiters, torn, wire, cmds, phase, answered, written, client, reader>>
    BY <1>13 DEF Coalescer, CoalescerFeed, CoalescerDue, CoalescerEnds, ChannelCloses,
       tmuxVars, readVars, cmdVars, endVars
  <2>2. QED
    BY <1>4, <1>5, <1>13, <2>1, TypeCoalescer
<1>14. CASE Input
  <2>1. TypeOK'
    BY <1>14, TypeCommand DEF Command
  <2>2. /\ Write(NoTag, {}) /\ transport = "control"
        /\ UNCHANGED <<wire, phase, answered, client, reader, call, mail, torn>>
    BY <1>14 DEF Input, readVars, endVars
  <2>3. waiters' = waiters
    BY <2>2 DEF Write
  <2>4. QED
    BY <1>4, <2>1, <2>2, <2>3, FifoWrite
<1>15. ASSUME NEW c \in Calls, RunCommand(c) PROVE TypeOK' /\ Fifo' /\ Letters'
  <2>1. TypeOK' /\ Letters'
    BY <1>15, TypeCommand, LettersCommand DEF Command
  <2>2. /\ transport = "control" /\ UNCHANGED <<wire, phase, answered, client, reader>>
        /\ \A w \in waiters : w.call /= c
    BY <1>15 DEF RunCommand, readVars, endVars, Letters, Mailed
  <2>3. CASE UNCHANGED <<written, waiters, cmds>>
    BY <1>5, <2>2, <2>3, <2>1
  <2>4. CASE Write(c, {[seq |-> Issued, call |-> c]})
    BY <2>1, <2>2, <2>4, FifoWrite
  <2>5. QED
    BY <1>15, <2>1, <2>3, <2>4 DEF RunCommand
<1>16. ASSUME NEW c \in Calls, CommandReturns(c) \/ CommandTimeout(c) PROVE TypeOK' /\ Fifo' /\ Letters'
  <2>1. UNCHANGED <<waiters, wire, cmds, phase, answered, written, client, reader>>
    BY <1>16 DEF CommandReturns, CommandTimeout, tmuxVars, readVars
  <2>2. QED
    BY <1>5, <1>16, <2>1, TypeCommand, LettersCommand DEF Command
<1>17. CASE Teardown
  <2>1. UNCHANGED <<call, wire, cmds, phase, answered, written, client, reader>>
        /\ waiters' \subseteq waiters
    BY <1>17 DEF Teardown, TeardownMark, TeardownShut, TeardownFail, TeardownKill, DropWaiters,
       tmuxVars, readVars, cmdVars
  <2>2. Fifo'
    BY <2>1, FifoFrame
  <2>3. Letters'
    <3>1. CASE TeardownFail
      BY <2>1, <3>1, LettersDrop DEF TeardownFail
    <3>2. CASE TeardownMark \/ TeardownShut \/ TeardownKill
      BY <3>2, LettersFrame DEF TeardownMark, TeardownShut, TeardownKill, cmdVars
    <3>3. QED
      BY <1>17, <3>1, <3>2 DEF Teardown
  <2>4. QED
    BY <1>17, <2>2, <2>3, TypeEnd
<1>18. CASE DropHandles
  <2>1. UNCHANGED <<call, mail, waiters, wire, cmds, phase, answered, written, client, reader>>
        /\ \A c \in Calls : call[c] /= "wait"
    BY <1>18 DEF DropHandles, tmuxVars, readVars, cmdVars
  <2>2. QED
    BY <1>5, <1>18, <2>1, LettersFrame, TypeEnd
<1>19. CASE Waiter
  <2>1. UNCHANGED <<call, mail, waiters, torn, wire, cmds, phase, answered, written, client, reader>>
    BY <1>19 DEF Waiter, WaiterSees, WaiterReports, tmuxVars, readVars, cmdVars
  <2>2. QED
    BY <1>4, <1>5, <1>19, <2>1, TypeEnd
<1>20. CASE UNCHANGED vars
  <2>1. TypeOK'
    BY <1>20 DEF vars, TypeOK, tmuxVars, readVars, sinkVars, cmdVars, endVars
  <2>2. QED
    BY <1>4, <1>5, <1>20, <2>1 DEF vars, tmuxVars, readVars, cmdVars, endVars
<1>21. QED
  BY <1>6, <1>7, <1>8, <1>9, <1>10, <1>11, <1>12, <1>13, <1>14, <1>15, <1>16, <1>17, <1>18,
     <1>19, <1>20
  DEF Next, Tmux, Reader, Command

\* The inductive invariant holds in every behaviour of the bridge.
LEMMA AlwaysHolds == Spec => []IInv
BY InitHolds, StepHolds, PTL DEF Spec

(* The bridge's state is well typed; in it, no more blocks are counted than *)
(* lines were written, and the channel stays within its capacity.           *)
THEOREM TypeCorrect == Spec => []TypeOK
<1>1. IInv => TypeOK
  BY DEF IInv
<1>2. QED
  BY AlwaysHolds, <1>1, PTL

(* A command that was answered got the reply to itself, however many calls  *)
(* time out, give up or are typed past.                                      *)
THEOREM OwnReply == Spec => []RepliesMatch
<1>1. IInv => RepliesMatch
  BY DEF IInv
<1>2. QED
  BY AlwaysHolds, <1>1, PTL

(* After a teardown has failed the pending commands nobody waits for a      *)
(* reply that cannot come.                                                   *)
THEOREM NobodyWaits == Spec => []NoneLeftWaiting
<1>1. IInv => NoneLeftWaiting
  BY DEF IInv
<1>2. QED
  BY AlwaysHolds, <1>1, PTL

(* A client that a teardown ended is never reported as lost.                *)
THEOREM OnlyFalls == Spec => []ReportsOnlyFalls
<1>1. IInv => ReportsOnlyFalls
  BY DEF IInv
<1>2. QED
  BY AlwaysHolds, <1>1, PTL

-----------------------------------------------------------------------------
(***************************************************************************)
(* The stream: what the pane printed lies, item after item, on the screen, *)
(* in the coalescer's buffer, in the channel's batches, in the batch in    *)
(* hand and on the wire.  A batch is placed by the last item of the batch  *)
(* before it, so no step needs the items of all of them put together.      *)
(***************************************************************************)
RunFrom(q, k) == \A i \in DOMAIN q : q[i] = Item("own", k + i)
LastOf(c) == c[Len(c)].n

Held == Len(screen) + Len(buf)
Before(i) == IF i = 1 THEN Held ELSE LastOf(chan[i - 1])
Shipped == Before(Len(chan) + 1)
Got == Shipped + Len(batch)

Own(i) == wire[i].t = "out" /\ wire[i].item.pane = "own"
OwnAs(i, n) == Own(i) /\ wire[i].item.n = n

(* The two sync commands, and what answers them, are about the own pane;    *)
(* the PTY transport carries nothing else.                                  *)
Aimed ==
    /\ \A j \in DOMAIN cmds : cmds[j].n <= 0 => active = "own"
    /\ \A i \in DOMAIN wire : IsBlock(i) /\ wire[i].n = -1 => wire[i].to = "own"
    /\ lead /= "alien"
    /\ transport = "control" /\ phase \in {"capture", "live"} => lead = "own"
    /\ transport = "pty" => /\ phase = "live" /\ cmds = <<>>
                            /\ \A i \in DOMAIN wire : Own(i)

(* The client sends all the pane prints, while it runs, in order. *)
Sending ==
    /\ sent <= printed["own"]
    /\ client = "run" /\ reader /= "gone" => sent = printed["own"]
    /\ \A i \in DOMAIN wire : Own(i) => wire[i].item.n <= sent
    /\ \A i, j \in DOMAIN wire : i < j /\ Own(i) /\ Own(j) => wire[i].item.n < wire[j].item.n

(* While the sink is open the threads end in the order of the pipe. *)
Threads ==
    /\ reader = "send" => batch /= <<>>
    /\ reader = "gone" => batch = <<>>
    /\ sink = "open" /\ reader \in {"tail", "gone"} => wire = <<>> /\ client /= "run"
    /\ sink = "open" /\ coalescer = "gone" => reader = "gone" /\ chan = <<>> /\ buf = <<>>

Screened == RunFrom(screen, 0) /\ Len(screen) <= sent

Placed ==
    /\ RunFrom(buf, Len(screen))
    /\ \A i \in DOMAIN chan : chan[i] /= <<>> /\ RunFrom(chan[i], Before(i))
    /\ RunFrom(batch, Shipped)
    /\ \A i, j \in 1..(Len(chan) + 1) : i <= j => Before(i) <= Before(j)

(* Before the capture nothing is in the pipe; once it is on the wire it     *)
(* parts the items it holds from those that come after it.                  *)
Empty == batch = <<>> /\ chan = <<>> /\ buf = <<>> /\ screen = <<>>

Parts(i) ==
    LET m == Len(wire[i].items) IN
    /\ RunFrom(wire[i].items, 0) /\ m <= sent
    /\ \A j \in DOMAIN wire : Own(j) => (wire[j].item.n > m <=> j > i)
    /\ \A n \in (m + 1)..sent : \E j \in DOMAIN wire : OwnAs(j, n)

Captured ==
    phase /= "live" =>
        Empty /\ \A i \in DOMAIN wire : IsBlock(i) /\ wire[i].n = 0 => Parts(i)

(* After it every item is in the pipe or on the wire, and none is twice. *)
Caught ==
    phase = "live" /\ sink = "open" =>
        /\ Got <= sent
        /\ \A i \in DOMAIN wire : Own(i) => wire[i].item.n > Got
        /\ \A n \in (Got + 1)..sent : \E i \in DOMAIN wire : OwnAs(i, n)

Flow == Sending /\ Threads /\ Screened /\ (sink = "open" => Placed) /\ Captured /\ Caught

-----------------------------------------------------------------------------
(* Runs of items: one more, two in a row, and the last of one.              *)
LEMMA RunMore ==
    ASSUME NEW S, NEW q \in Seq(S), NEW x \in S, NEW k \in Nat, RunFrom(q, k),
           x = Item("own", k + Len(q) + 1)
    PROVE  RunFrom(Append(q, x), k) /\ Len(Append(q, x)) = Len(q) + 1
<1>1. /\ Len(q) \in Nat /\ Len(Append(q, x)) = Len(q) + 1
      /\ \A i \in DOMAIN q : Append(q, x)[i] = q[i]
      /\ Append(q, x)[Len(q) + 1] = x
      /\ \A i \in DOMAIN Append(q, x) : i \in DOMAIN q \/ i = Len(q) + 1
  BY OneMore, AppendProperties, LenProperties
<1>2. k + (Len(q) + 1) = k + Len(q) + 1
  BY <1>1
<1> QED
  BY <1>1, <1>2 DEF RunFrom

\* Two runs of items of which one goes on where the other ends are a run.
LEMMA RunOn ==
    ASSUME NEW S, NEW q \in Seq(S), NEW r \in Seq(S), NEW k \in Nat,
           RunFrom(q, k), RunFrom(r, k + Len(q))
    PROVE  RunFrom(q \o r, k) /\ Len(q \o r) = Len(q) + Len(r)
<1>1. Len(q \o r) = Len(q) + Len(r) /\ DOMAIN (q \o r) = 1..(Len(q) + Len(r))
  BY ConcatProperties
<1>2. ASSUME NEW i \in DOMAIN (q \o r) PROVE (q \o r)[i] = Item("own", k + i)
  <2>1. CASE i \in DOMAIN q
    BY <1>1, <2>1, ConcatProperties DEF RunFrom
  <2>2. CASE i \notin DOMAIN q
    <3>1. i - Len(q) \in DOMAIN r /\ (q \o r)[i] = r[i - Len(q)]
      BY <1>1, <2>2, ConcatProperties
    <3>2. k + Len(q) + (i - Len(q)) = k + i
      BY <1>1
    <3> QED
      BY <3>1, <3>2 DEF RunFrom
  <2> QED
    BY <2>1, <2>2
<1> QED
  BY <1>1, <1>2 DEF RunFrom

\* The last item of a run is its start and its length.
LEMMA RunEnd ==
    ASSUME NEW S, NEW q \in Seq(S), q /= <<>>, NEW k \in Nat, RunFrom(q, k)
    PROVE  LastOf(q) = k + Len(q) /\ Len(q) \in Nat \ {0}
<1>1. Len(q) \in Nat \ {0} /\ Len(q) \in DOMAIN q
  BY EmptySeq
<1> QED
  BY <1>1 DEF RunFrom, LastOf, Item

\* The last item of a queue is one of its items.
LEMMA LastIn ==
    ASSUME NEW S, NEW q \in Seq(S), q /= <<>>
    PROVE  q[Len(q)] \in S
<1>1. Len(q) \in DOMAIN q
  BY EmptySeq, LenProperties
<1> QED
  BY <1>1, LenProperties

\* A function over the first k numbers is a queue.
LEMMA IsSeq ==
    ASSUME NEW S, NEW k \in Nat, NEW f \in [1..k -> S]
    PROVE  f \in Seq(S)
OBVIOUS

(* What a pane prints next is one item further. *)
LEMMA PrintIs ==
    ASSUME TypeOK, NEW p \in Panes, TmuxPrint(p)
    PROVE  /\ printed[p] \in Nat /\ printed[p] + 1 \in 1..MaxWork
           /\ Out(Item(p, printed[p] + 1)) \in LineType
<1>1. printed["own"] \in Nat /\ printed["alien"] \in Nat /\ written \in Nat /\ MaxWork \in Nat
  BY WorkAssumption DEF TypeOK, Panes
<1>2. Work < MaxWork /\ p \in {"own", "alien"}
  BY DEF TmuxPrint, Panes
<1>3. printed[p] \in Nat /\ printed[p] + 1 \in 1..MaxWork
  BY <1>1, <1>2 DEF Work
<1> QED
  BY <1>3 DEF Out, Item, LineType

(* The types the steps below need. *)
LEMMA PipeTypes ==
    ASSUME TypeOK
    PROVE  /\ batch \in ItemSeq /\ buf \in ItemSeq /\ screen \in ItemSeq /\ chan \in Seq(ItemSeq)
           /\ Len(batch) \in Nat /\ Len(buf) \in Nat /\ Len(screen) \in Nat /\ Len(chan) \in Nat
           /\ Held \in Nat /\ sent \in Nat /\ printed["own"] \in Nat
           /\ \A i \in DOMAIN chan : chan[i] \in ItemSeq
           /\ \A i \in DOMAIN wire : Own(i) => wire[i].item.n \in Nat
<1>1. /\ batch \in ItemSeq /\ buf \in ItemSeq /\ screen \in ItemSeq /\ chan \in Seq(ItemSeq)
      /\ sent \in Nat /\ printed["own"] \in Nat
  BY DEF TypeOK, Panes
<1>2. Len(batch) \in Nat /\ Len(buf) \in Nat /\ Len(screen) \in Nat /\ Len(chan) \in Nat
  BY <1>1, LenProperties DEF ItemSeq
<1>3. \A i \in DOMAIN chan : chan[i] \in ItemSeq
  BY <1>1, LenProperties
<1>4. ASSUME NEW i \in DOMAIN wire, Own(i) PROVE wire[i].item.n \in Nat
  <2>1. wire[i] \in LineType /\ wire[i].t = "out"
    BY <1>4, Lines DEF Own
  <2>2. wire[i].item \in [pane : Panes, n : 1..MaxWork]
    BY <2>1, Lines
  <2> QED
    BY <2>2
<1> QED
  BY <1>1, <1>2, <1>3, <1>4 DEF Held

\* The places of batches and of what the reader has got are natural numbers.
LEMMA PlaceTypes ==
    ASSUME TypeOK, Placed
    PROVE  /\ \A i \in 1..(Len(chan) + 1) : Before(i) \in Nat
           /\ Shipped \in Nat /\ Got \in Nat /\ Got = Shipped + Len(batch)
<1>0. Len(chan) \in Nat /\ DOMAIN chan = 1..Len(chan) /\ Held \in Nat /\ Len(batch) \in Nat
  BY PipeTypes
<1>1. ASSUME NEW i \in 1..(Len(chan) + 1) PROVE Before(i) \in Nat
  <2>1. CASE i = 1
    BY <1>0, <2>1 DEF Before
  <2>2. CASE i # 1
    <3> DEFINE c == chan[i - 1]
    <3>1. i - 1 \in DOMAIN chan
      BY <1>0, <2>2
    <3>2. c \in Seq([pane : Panes, n : 1..MaxWork]) /\ c # <<>>
      BY <3>1, PipeTypes DEF ItemSeq, Placed
    <3>4. c[Len(c)] \in [pane : Panes, n : 1..MaxWork]
      BY <3>2, LastIn
    <3> HIDE DEF c
    <3>5. c[Len(c)].n \in 1..MaxWork
      BY <3>4
    <3>6. LastOf(c) \in Nat
      BY <3>5 DEF LastOf
    <3> QED
      BY <2>2, <3>6 DEF Before, c
  <2> QED
    BY <2>1, <2>2
<1> QED
  BY <1>0, <1>1 DEF Shipped, Got

-----------------------------------------------------------------------------
(* The steps that leave the pipe and what tmux has sent alone: they may     *)
(* close the sink or end the client.                                        *)
Calm ==
    /\ UNCHANGED <<transport, printed, wire, sent, reader, phase, lead, batch, chan,
                   coalescer, buf, screen>>
    /\ sink' = "open" => sink = "open"
    /\ client' = "run" => client = "run"

\* A step that is not calm for the stream is tmux's, the reader's or the coalescer's.
LEMMA PipeCases ==
    ASSUME TypeOK, [Next]_vars
    PROVE  \/ Calm \/ (\E p \in Panes : TmuxPrint(p)) \/ TmuxAnswer \/ Reader \/ Coalescer
<1>1. ASSUME TmuxSplit \/ ClientEnds PROVE Calm
  BY <1>1 DEF TmuxSplit, ClientEnds, Calm, readVars, sinkVars
<1>2. ASSUME Command PROVE Calm
  BY <1>2 DEF Command, Input, RunCommand, CommandReturns, CommandTimeout, Calm, readVars,
     sinkVars, tmuxVars
<1>3. ASSUME ChannelCloses \/ Teardown \/ DropHandles \/ Waiter PROVE Calm
  BY <1>3 DEF ChannelCloses, Teardown, TeardownMark, TeardownShut, TeardownFail, TeardownKill,
     DropHandles, Waiter, WaiterSees, WaiterReports, Calm, readVars, sinkVars, tmuxVars
<1>4. ASSUME UNCHANGED vars PROVE Calm
  BY <1>4 DEF vars, Calm, readVars, sinkVars, tmuxVars
<1> QED
  BY <1>1, <1>2, <1>3, <1>4 DEF Next, Tmux

(* What a step does to the lines in stdin: none below one is ever written,  *)
(* and a window is split only when none is left.                            *)
LEMMA SyncLines ==
    ASSUME IInv, [Next]_vars, Splits \subseteq {"late"}
    PROVE  \/ /\ \A j \in DOMAIN cmds' : cmds'[j].n <= 0 =>
                    \E k \in DOMAIN cmds : cmds[k] = cmds'[j]
              /\ active' = active
              /\ transport = "pty" /\ cmds = <<>> => cmds' = <<>>
           \/ /\ cmds' = cmds /\ transport # "pty"
              /\ \A j \in DOMAIN cmds : cmds[j].n > 0
<1> DEFINE Same == /\ \A j \in DOMAIN cmds' : cmds'[j].n <= 0 =>
                         \E k \in DOMAIN cmds : cmds[k] = cmds'[j]
                   /\ active' = active
                   /\ transport = "pty" /\ cmds = <<>> => cmds' = <<>>
<1>0. cmds \in Seq(Order) /\ written \in Nat
  BY Lines DEF IInv, TypeOK
<1>1. ASSUME cmds' = cmds, active' = active PROVE Same
  BY <1>1
<1>2. ASSUME NEW who \in Calls \cup {NoTag}, NEW w, transport = "control", active' = active,
             Write(who, w)
      PROVE  Same
  <2>1. CASE client = "run"
    <3>1. cmds' = Append(cmds, Cmd(who, written + 1)) /\ Cmd(who, written + 1) \in Order
      BY <1>0, <1>2, <2>1 DEF Write, Issued, Cmd, Order
    <3>2. \A j \in DOMAIN cmds' : cmds'[j] = Cmd(who, written + 1) \/ \E k \in DOMAIN cmds : cmds[k] = cmds'[j]
      BY <1>0, <3>1, OneMore
    <3>3. ~(Cmd(who, written + 1).n <= 0)
      BY <1>0 DEF Cmd
    <3> QED
      BY <1>2, <3>2, <3>3
  <2>2. CASE client # "run"
    BY <1>2, <2>2 DEF Write
  <2> QED
    BY <2>1, <2>2
<1>3. ASSUME Command PROVE Same
  <2>1. CASE Input
    BY <1>2, <2>1 DEF Input
  <2>2. ASSUME NEW c \in Calls, RunCommand(c) PROVE Same
    BY <1>1, <1>2, <2>2 DEF RunCommand
  <2>3. ASSUME NEW c \in Calls, CommandReturns(c) \/ CommandTimeout(c) PROVE Same
    BY <1>1, <2>3 DEF CommandReturns, CommandTimeout, tmuxVars
  <2> QED
    BY <1>3, <2>1, <2>2, <2>3 DEF Command
<1>4. ASSUME ClientEnds PROVE Same
  BY <1>4, NoItems DEF ClientEnds
<1>5. ASSUME TmuxAnswer PROVE Same
  <2>1. cmds # <<>> /\ cmds' = Tail(cmds) /\ active' = active
    BY <1>5 DEF TmuxAnswer
  <2> QED
    BY <1>0, <2>1, HeadTail
<1>6. ASSUME TmuxSplit
      PROVE  /\ cmds' = cmds /\ transport # "pty"
             /\ \A j \in DOMAIN cmds : cmds[j].n > 0
  <2>1. cmds = <<>> \/ Head(cmds).who \notin {"meta", "capture"}
    BY <1>6 DEF TmuxSplit
  <2>2. ASSUME cmds # <<>>, NEW j \in DOMAIN cmds PROVE cmds[j].n > 0
    <3>1. Head(cmds) = cmds[1] /\ 1 \in DOMAIN cmds /\ cmds[1] \in Order /\ cmds[j] \in Order
      BY <1>0, <2>2, HeadTail, Lines DEF IInv
    <3>2. cmds[1].who \in Calls \cup {NoTag}
      BY <2>1, <2>2, <3>1 DEF Order
    <3>3. cmds[1].n >= 1
      BY <3>1, <3>2 DEF IInv, Kinds
    <3>4. j = 1 \/ cmds[1].n < cmds[j].n
      BY <1>0, <2>2, <3>1, LenProperties DEF IInv, Rising
    <3> QED
      BY <3>1, <3>3, <3>4 DEF Order
  <2> QED
    BY <1>6, <2>2, NoItems DEF TmuxSplit
<1>7. ASSUME \/ Reader \/ Coalescer \/ ChannelCloses \/ Teardown \/ DropHandles \/ Waiter
             \/ UNCHANGED vars \/ \E p \in Panes : TmuxPrint(p)
      PROVE  cmds' = cmds /\ active' = active
  BY <1>7 DEF Reader, ReaderLine, ReaderDry, ReaderEOF, ReaderSend, ReaderSendFails, ReaderEnds,
     Coalescer, CoalescerFeed, CoalescerDue, CoalescerEnds, ChannelCloses, Teardown, TeardownMark,
     TeardownShut, TeardownFail, TeardownKill, DropHandles, Waiter, WaiterSees, WaiterReports,
     TmuxPrint, vars, tmuxVars
<1> QED
  BY <1>1, <1>3, <1>4, <1>5, <1>6, <1>7 DEF Next, Tmux

(* What is put on the wire goes to its end; what the reader takes is its    *)
(* first line.                                                              *)
LEMMA PushWire ==
    ASSUME TypeOK, NEW x \in LineType, wire' = Append(wire, x)
    PROVE  /\ \A i \in DOMAIN wire : i \in DOMAIN wire' /\ wire'[i] = wire[i] /\ i < Len(wire) + 1
           /\ Len(wire) + 1 \in DOMAIN wire' /\ wire'[Len(wire) + 1] = x
           /\ \A i \in DOMAIN wire' : i \in DOMAIN wire \/ i = Len(wire) + 1
           /\ \A i \in DOMAIN wire' : i \in Nat
BY Lines, OneMore, LenProperties

\* Taking the first line off the wire moves the others up by one.
LEMMA PullWire ==
    ASSUME TypeOK, wire /= <<>>, wire' = Tail(wire)
    PROVE  /\ \A i \in DOMAIN wire' : i \in Nat \ {0} /\ i + 1 \in DOMAIN wire /\ wire'[i] = wire[i + 1]
           /\ \A i \in DOMAIN wire : i \in Nat /\ (i = 1 \/ (i - 1 \in DOMAIN wire' /\ wire'[i - 1] = wire[i]))
           /\ Head(wire) = wire[1] /\ 1 \in DOMAIN wire
BY Lines, HeadTail, LenProperties

(* An answer carries the number of the line it answers, the panes are those *)
(* the session shows, and the capture holds what its pane has printed.      *)
LEMMA AnswerIs ==
    ASSUME IInv, Aimed, TmuxAnswer
    PROVE  /\ cmds /= <<>> /\ client = "run" /\ transport # "pty"
           /\ \/ wire' = wire /\ reader = "gone"
              \/ reader # "gone" /\ \E x \in LineType :
                    /\ wire' = Append(wire, x) /\ x.t = "block"
                    /\ x.n = -1 => x.to = "own"
                    /\ x.n = 0 => x.items = Printed("own")
           /\ UNCHANGED <<transport, printed, sent, reader, phase, lead, batch, chan,
                          coalescer, buf, screen, sink, client>>
<1>0. /\ cmds /= <<>> /\ client = "run" /\ transport # "pty"
      /\ UNCHANGED <<transport, printed, sent, reader, phase, lead, batch, chan,
                     coalescer, buf, screen, sink, client>>
  BY DEF TmuxAnswer, Aimed, readVars, sinkVars
<1> DEFINE c == Head(cmds)
           x == CASE c.who = "meta" -> Block(Cmd(active, c.n), <<>>)
                  [] c.who = "capture" -> Block(c, Printed(active))
                  [] OTHER -> Block(c, <<>>)
<1>1. wire' = IF reader = "gone" THEN wire ELSE Append(wire, x)
  BY DEF TmuxAnswer
<1>2. c \in Order /\ (c.n <= 0 => active = "own") /\ 1 \in DOMAIN cmds /\ c = cmds[1]
  BY <1>0, Lines, HeadTail DEF IInv, Aimed
<1>3. (c.n = -1 <=> c.who = "meta") /\ (c.n = 0 <=> c.who = "capture")
  BY <1>2 DEF IInv, Kinds
<1>4. Printed(active) \in ItemSeq /\ <<>> \in ItemSeq
  <2>1. active \in Panes /\ printed[active] \in 0..MaxWork /\ MaxWork \in Nat
    BY WorkAssumption DEF IInv, TypeOK
  <2>2. \A n \in 1..printed[active] : Item(active, n) \in [pane : Panes, n : 1..MaxWork]
    BY <2>1 DEF Item
  <2>3. [n \in 1..printed[active] |-> Item(active, n)]
            \in [1..printed[active] -> [pane : Panes, n : 1..MaxWork]]
    BY <2>2
  <2>4. printed[active] \in Nat
    BY <2>1
  <2>5. \A f \in [1..printed[active] -> [pane : Panes, n : 1..MaxWork]] :
            f \in Seq([pane : Panes, n : 1..MaxWork])
    BY <2>4, IsSeq
  <2>6. Printed(active) \in ItemSeq
    BY <2>3, <2>5, Zenon DEF ItemSeq, Printed
  <2> QED
    BY <2>6 DEF ItemSeq
<1>5. x \in LineType /\ x.t = "block" /\ x.n = c.n
  BY <1>2, <1>4 DEF Block, Cmd, LineType, Order, IInv, TypeOK
<1>6. x.n = -1 => x.to = "own"
  BY <1>2, <1>3, <1>5 DEF Block, Cmd
<1>7. x.n = 0 => x.items = Printed("own")
  BY <1>2, <1>3, <1>5 DEF Block
<1> HIDE DEF x
<1> QED
  BY <1>0, <1>1, <1>5, <1>6, <1>7

\* With no split before raum attaches, the bridge stays aimed at its own pane.
LEMMA AimedStep ==
    ASSUME IInv, Aimed, [Next]_vars, Splits \subseteq {"late"}
    PROVE  Aimed'
<1>0. TypeOK /\ transport' = transport
  BY DEF IInv, Next, Tmux, Command, Reader, ReaderLine, ReaderDry, ReaderEOF, ReaderSend,
     ReaderSendFails, ReaderEnds, Coalescer, CoalescerFeed, CoalescerDue, CoalescerEnds,
     ChannelCloses, Teardown, TeardownMark, TeardownShut, TeardownFail, TeardownKill,
     DropHandles, Waiter, WaiterSees, WaiterReports, TmuxPrint, TmuxSplit, TmuxAnswer,
     ClientEnds, Input, RunCommand, CommandReturns, CommandTimeout, vars
<1>1. /\ \A j \in DOMAIN cmds' : cmds'[j].n <= 0 => active' = "own"
      /\ transport = "pty" => cmds' = <<>>
  <2>1. CASE /\ \A j \in DOMAIN cmds' : cmds'[j].n <= 0 =>
                  \E k \in DOMAIN cmds : cmds[k] = cmds'[j]
             /\ active' = active
             /\ transport = "pty" /\ cmds = <<>> => cmds' = <<>>
    BY <2>1 DEF Aimed
  <2>2. CASE cmds' = cmds /\ transport # "pty" /\ \A j \in DOMAIN cmds : cmds[j].n > 0
    <3>1. \A j \in DOMAIN cmds : cmds[j].n \in Int
      BY <1>0, Lines DEF Order
    <3> QED
      BY <2>2, <3>1
  <2> QED
    BY <2>1, <2>2, SyncLines
<1> DEFINE Line2 == \A i \in DOMAIN wire' : IsBlock(i)' /\ wire'[i].n = -1 => wire'[i].to = "own"
           Lead3 == lead' /= "alien" /\ (transport = "control" /\ phase' \in {"capture", "live"} => lead' = "own")
           Pty4 == transport = "pty" => phase' = "live" /\ \A i \in DOMAIN wire' : Own(i)'
<1>2. SUFFICES Line2 /\ Lead3 /\ Pty4
  BY <1>0, <1>1 DEF Aimed
<1>3. ASSUME wire' = wire, phase' = phase, lead' = lead PROVE Line2 /\ Lead3 /\ Pty4
  BY <1>3 DEF Aimed, IsBlock, Own
<1>4. ASSUME NEW p \in Panes, TmuxPrint(p) PROVE Line2 /\ Lead3 /\ Pty4
  <2>0. phase' = phase /\ lead' = lead /\ (transport = "pty" => p = "own")
    BY <1>4 DEF TmuxPrint, readVars
  <2>1. CASE wire' = wire
    BY <1>3, <2>0, <2>1
  <2>2. CASE wire' # wire
    <3> DEFINE x == Out(Item(p, printed[p] + 1))
    <3>1. wire' = Append(wire, x)
      BY <1>4, <2>2 DEF TmuxPrint
    <3>2. x.t = "out" /\ x.item.pane = p
      BY DEF Out, Item
    <3>3. x \in LineType /\ x.t = "out" /\ x.item.pane = p
      BY <1>0, <1>4, <3>2, PrintIs
    <3> HIDE DEF x
    <3> QED
      BY <1>0, <2>0, <3>1, <3>3, PushWire DEF Aimed, IsBlock, Own
  <2> QED
    BY <2>1, <2>2
<1>5. CASE TmuxAnswer
  <2>1. phase' = phase /\ lead' = lead /\ transport # "pty"
    BY <1>5, AnswerIs
  <2>2. ASSUME NEW x \in LineType, wire' = Append(wire, x), x.t = "block",
               x.n = -1 => x.to = "own"
        PROVE  Line2
    BY <1>0, <2>2, PushWire DEF Aimed, IsBlock
  <2> QED
    BY <1>3, <1>5, <2>1, <2>2, AnswerIs DEF Aimed
<1>6. CASE ReaderLine
  <2>1. wire # <<>> /\ wire' = Tail(wire) /\ reader # "gone"
    BY <1>6 DEF ReaderLine
  <2>2. Line2
    BY <1>0, <2>1, PullWire DEF Aimed, IsBlock
  <2>3. transport = "pty" => phase = "live" /\ Head(wire).t = "out" /\ \A i \in DOMAIN wire' : Own(i)'
    BY <1>0, <2>1, PullWire DEF Aimed, Own
  <2>4. CASE phase' = phase /\ lead' = lead
    BY <2>2, <2>3, <2>4 DEF Aimed
  <2>5. CASE Head(wire).t = "block" /\ phase # "live" /\ SyncBlock(Head(wire))
    <3>1. phase \in {"greeting", "meta", "capture"} /\ transport # "pty"
      BY <1>0, <2>3, <2>5 DEF TypeOK
    <3>2. CASE phase = "greeting"
      BY <2>2, <2>5, <3>1, <3>2 DEF SyncBlock, NextPhase, Aimed
    <3>3. CASE phase = "meta"
      <4>1. Head(wire).n = -1
        BY <2>1, <2>5, <3>3, HeadIsDue DEF IInv, Due
      <4>2. Head(wire).to = "own"
        BY <1>0, <2>1, <2>5, <4>1, PullWire DEF Aimed, IsBlock
      <4> QED
        BY <2>2, <2>5, <3>1, <3>3, <4>2 DEF SyncBlock
    <3>4. CASE phase = "capture"
      BY <1>0, <2>2, <2>5, <3>1, <3>4 DEF SyncBlock, Aimed, TypeOK
    <3> QED
      BY <3>1, <3>2, <3>3, <3>4
  <2>6. (phase' = phase /\ lead' = lead) \/ (Head(wire).t = "block" /\ phase # "live" /\ SyncBlock(Head(wire)))
    BY <1>6 DEF ReaderLine
  <2> QED
    BY <2>4, <2>5, <2>6
<1>7. CASE ReaderEnds
  <2>1. wire' = <<>> /\ phase' = phase /\ lead' = lead
    BY <1>7 DEF ReaderEnds
  <2> QED
    BY <2>1, NoItems DEF Aimed
<1>8. CASE Calm
  BY <1>3, <1>8 DEF Calm
<1>9. CASE ReaderDry \/ ReaderEOF \/ ReaderSend \/ ReaderSendFails \/ Coalescer
  BY <1>3, <1>9 DEF ReaderDry, ReaderEOF, ReaderSend, ReaderSendFails, Coalescer, CoalescerFeed,
     CoalescerDue, CoalescerEnds, tmuxVars, readVars
<1> QED
  BY <1>0, <1>4, <1>5, <1>6, <1>7, <1>8, <1>9, PipeCases DEF Reader

-----------------------------------------------------------------------------
(* Batches move along the pipe without losing their place: into the channel *)
LEMMA PlacedShip ==
    ASSUME TypeOK, Placed, batch /= <<>>, chan' = Append(chan, batch), batch' = <<>>,
           UNCHANGED <<buf, screen>>
    PROVE  Placed' /\ Got' = Got
<1>0. PICK L \in Nat : L = Len(chan)
  BY PipeTypes
<1>1. /\ L \in Nat /\ L = Len(chan) /\ DOMAIN chan = 1..L /\ DOMAIN chan' = 1..(L + 1) /\ Len(chan') = L + 1
      /\ \A i \in 1..L : chan'[i] = chan[i]
      /\ chan'[L + 1] = batch
  BY <1>0, PipeTypes, AppendProperties, LenProperties
<1>2. Held' = Held
  BY DEF Held
<1>3. /\ \A i \in 1..(L + 1) : Before(i) \in Nat
      /\ Shipped \in Nat /\ Got \in Nat /\ Got = Shipped + Len(batch) /\ Shipped = Before(L + 1)
  BY <1>0, PlaceTypes DEF Shipped
<1>4. \A i \in 1..(L + 1) : Before(i)' = Before(i)
  BY <1>1, <1>2 DEF Before
<1>5. LastOf(batch) = Got /\ Len(batch) \in Nat \ {0}
  BY <1>3, PipeTypes, RunEnd DEF Placed, ItemSeq
<1>6. Before(L + 2)' = Got
  <2>1. L + 2 # 1 /\ (L + 2) - 1 = L + 1
    BY <1>1
  <2> QED
    BY <1>1, <1>5, <2>1 DEF Before
<1>7. Shipped' = Got
  <2>1. (L + 1) + 1 = L + 2
    BY <1>1
  <2> QED
    BY <1>1, <1>6, <2>1 DEF Shipped
<1>8. Got' = Got
  BY <1>3, <1>7, EmptySeq DEF Got
<1>9. RunFrom(buf, Len(screen))' /\ RunFrom(batch, Shipped)'
  BY NoItems DEF Placed, RunFrom
<1>10. ASSUME NEW i \in DOMAIN chan' PROVE chan'[i] /= <<>> /\ RunFrom(chan'[i], Before(i)')
  <2>1. CASE i \in 1..L
    BY <1>1, <1>4, <2>1 DEF Placed
  <2>2. CASE i = L + 1
    BY <1>1, <1>3, <1>4, <2>2 DEF Placed
  <2> QED
    BY <1>1, <2>1, <2>2
<1>11. ASSUME NEW i \in 1..(L + 2), NEW j \in 1..(L + 2), i <= j
       PROVE  Before(i)' <= Before(j)'
  <2>1. CASE j \in 1..(L + 1)
    BY <1>1, <1>4, <1>11, <2>1 DEF Placed
  <2>2. CASE j = L + 2 /\ i = L + 2
    BY <1>3, <1>6, <2>2
  <2>3. CASE j = L + 2 /\ i \in 1..(L + 1)
    <3>1. Before(i) <= Before(L + 1)
      BY <1>1, <2>3 DEF Placed
    <3> QED
      BY <1>3, <1>4, <1>5, <1>6, <2>3, <3>1
  <2> QED
    BY <1>1, <2>1, <2>2, <2>3
<1>12. Len(chan') + 1 = L + 2
  BY <1>1
<1> QED
  BY <1>8, <1>9, <1>10, <1>11, <1>12 DEF Placed, RunFrom

(* out of the channel into the buffer, or through it onto the screen        *)
LEMMA PlacedFeed ==
    ASSUME TypeOK, Placed, RunFrom(screen, 0), chan /= <<>>, chan' = Tail(chan), batch' = batch,
           \/ screen' = screen /\ buf' = buf \o Head(chan)
           \/ screen' = screen \o (buf \o Head(chan)) /\ buf' = <<>>
    PROVE  Placed' /\ Got' = Got /\ RunFrom(screen', 0)
<1>a. PICK L \in Nat : L = Len(chan)
  BY PipeTypes
<1>b. PICK h : h = Head(chan)
  OBVIOUS
<1>1. /\ L \in Nat \ {0} /\ L = Len(chan) /\ h = Head(chan) /\ DOMAIN chan = 1..L /\ DOMAIN chan' = 1..(L - 1) /\ Len(chan') = L - 1
      /\ \A i \in 1..(L - 1) : chan'[i] = chan[i + 1]
      /\ h = chan[1] /\ h \in ItemSeq
  <2>1. chan \in Seq(ItemSeq) /\ Tail(chan) \in Seq(ItemSeq)
    BY PipeTypes, HeadTail
  <2>2. h = chan[1] /\ h \in ItemSeq
    BY <1>b, <2>1, HeadTail
  <2> QED
    BY <1>a, <1>b, <2>1, <2>2, HeadTailProperties, LenProperties, EmptySeq
<1>2. /\ \A i \in 1..(L + 1) : Before(i) \in Nat
      /\ Shipped \in Nat /\ Got = Shipped + Len(batch) /\ Shipped = Before(L + 1)
      /\ Len(screen) \in Nat /\ Len(buf) \in Nat /\ Held = Len(screen) + Len(buf) /\ Before(1) = Held
      /\ buf \in ItemSeq /\ screen \in ItemSeq
  <2>1. /\ Len(screen) \in Nat /\ Len(buf) \in Nat /\ Held = Len(screen) + Len(buf) /\ Before(1) = Held
        /\ buf \in ItemSeq /\ screen \in ItemSeq
    BY PipeTypes DEF Held, Before
  <2>2. /\ \A i \in 1..(L + 1) : Before(i) \in Nat
        /\ Shipped \in Nat /\ Got = Shipped + Len(batch) /\ Shipped = Before(L + 1)
    BY <1>a, PlaceTypes DEF Shipped
  <2> QED
    BY <2>1, <2>2
<1>3. h /= <<>> /\ RunFrom(h, Held)
  <2>1. 1 \in DOMAIN chan
    BY <1>1
  <2>2. chan[1] /= <<>> /\ RunFrom(chan[1], Before(1))
    BY <2>1 DEF Placed
  <2> QED
    BY <1>1, <1>2, <2>2
<1>4. LastOf(h) = Held + Len(h) /\ Len(h) \in Nat \ {0}
  <2>1. h \in Seq([pane : Panes, n : 1..MaxWork]) /\ Held \in Nat
    BY <1>1, <1>2 DEF ItemSeq
  <2> QED
    BY <1>3, <2>1, RunEnd
<1>5. Before(2) = Held + Len(h)
  BY <1>1, <1>4 DEF Before
<1>6. RunFrom(buf \o h, Len(screen)) /\ Len(buf \o h) = Len(buf) + Len(h) /\ buf \o h \in ItemSeq
  BY <1>1, <1>2, <1>3, RunOn, ConcatType DEF Placed, ItemSeq
<1>7. /\ RunFrom(buf', Len(screen')) /\ RunFrom(screen', 0)
      /\ Len(screen') + Len(buf') = Held + Len(h)
  <2>1. CASE screen' = screen /\ buf' = buf \o h
    BY <1>2, <1>4, <1>6, <2>1
  <2>2. CASE screen' = screen \o (buf \o h) /\ buf' = <<>>
    <3>1. RunFrom(screen \o (buf \o h), 0) /\ Len(screen \o (buf \o h)) = Len(screen) + Len(buf \o h)
      <4>1. RunFrom(buf \o h, 0 + Len(screen)) /\ 0 \in Nat
        BY <1>2, <1>6
      <4> QED
        BY <1>2, <1>6, <4>1, RunOn DEF ItemSeq
    <3>2. Len(buf') = 0 /\ RunFrom(buf', Len(screen'))
      BY <2>2, EmptySeq DEF RunFrom
    <3> QED
      BY <1>2, <1>4, <1>6, <2>2, <3>1, <3>2
  <2> QED
    BY <1>1, <2>1, <2>2
<1>8. ASSUME NEW i \in 1..L PROVE Before(i)' = Before(i + 1)
  <2>1. CASE i = 1
    BY <1>5, <1>7, <2>1 DEF Before, Held
  <2>2. CASE i # 1
    <3>1. i - 1 \in 1..(L - 1) /\ (i - 1) + 1 = i /\ (i + 1) - 1 = i /\ i + 1 # 1
      BY <1>1, <2>2
    <3>2. chan'[i - 1] = chan[i]
      BY <1>1, <3>1
    <3> QED
      BY <2>2, <3>1, <3>2 DEF Before
  <2> QED
    BY <2>1, <2>2
<1>9. Shipped' = Shipped /\ Got' = Got
  <2>1. (L - 1) + 1 = L /\ L \in 1..L
    BY <1>1
  <2>2. Shipped' = Before(L)'
    BY <1>1, <2>1 DEF Shipped
  <2>3. Shipped' = Shipped
    BY <1>2, <1>8, <2>1, <2>2
  <2> QED
    BY <2>3 DEF Got
<1>10. ASSUME NEW i \in DOMAIN chan' PROVE chan'[i] /= <<>> /\ RunFrom(chan'[i], Before(i)')
  <2>1. i \in 1..L /\ i + 1 \in DOMAIN chan /\ chan'[i] = chan[i + 1]
    BY <1>1
  <2> QED
    BY <1>8, <2>1 DEF Placed
<1>11. ASSUME NEW i \in 1..L, NEW j \in 1..L, i <= j PROVE Before(i)' <= Before(j)'
  <2>1. i + 1 \in 1..(L + 1) /\ j + 1 \in 1..(L + 1) /\ i + 1 <= j + 1
    BY <1>1, <1>11
  <2>2. Before(i + 1) <= Before(j + 1)
    BY <1>1, <2>1 DEF Placed
  <2> QED
    BY <1>8, <2>2
<1>12. RunFrom(batch, Shipped)'
  BY <1>9 DEF Placed, RunFrom
<1>13. Len(chan') + 1 = L
  BY <1>1
<1>14. RunFrom(buf, Len(screen))'
  BY <1>7 DEF RunFrom
<1> QED
  BY <1>7, <1>9, <1>10, <1>11, <1>12, <1>13, <1>14 DEF Placed, RunFrom

(* and out of the buffer onto the screen.                                   *)
LEMMA PlacedFlush ==
    ASSUME TypeOK, Placed, RunFrom(screen, 0), UNCHANGED <<chan, batch>>,
           screen' = screen \o buf, buf' = <<>>
    PROVE  Placed' /\ Got' = Got /\ RunFrom(screen', 0)
<1>1. /\ Len(screen) \in Nat /\ Len(buf) \in Nat /\ buf \in ItemSeq /\ screen \in ItemSeq
      /\ Len(chan) \in Nat
  BY PipeTypes
<1>2. RunFrom(screen \o buf, 0) /\ Len(screen \o buf) = Len(screen) + Len(buf)
  BY <1>1, RunOn DEF ItemSeq, Placed
<1>3. Len(buf') = 0 /\ RunFrom(buf, Len(screen))'
  BY EmptySeq DEF RunFrom
<1>4. Held' = Held
  BY <1>1, <1>2, <1>3 DEF Held
<1>5. \A i \in 1..(Len(chan) + 1) : Before(i)' = Before(i)
  BY <1>4 DEF Before
<1>6. Shipped' = Shipped
  BY <1>1, <1>5 DEF Shipped
<1>7. Got' = Got
  BY <1>6 DEF Got
<1>8. \A i \in DOMAIN chan : i \in 1..(Len(chan) + 1)
  BY <1>1, PipeTypes, LenProperties
<1>9. \A i \in DOMAIN chan' : chan'[i] /= <<>> /\ RunFrom(chan'[i], Before(i)')
  BY <1>5, <1>8 DEF Placed
<1>10. RunFrom(batch, Shipped)'
  BY <1>6 DEF Placed, RunFrom
<1>11. \A i, j \in 1..(Len(chan') + 1) : i <= j => Before(i)' <= Before(j)'
  BY <1>5 DEF Placed
<1> QED
  BY <1>2, <1>3, <1>7, <1>9, <1>10, <1>11 DEF Placed, RunFrom

-----------------------------------------------------------------------------
(* A step that leaves the wire alone and keeps what the pipe holds in its   *)
(* place keeps the stream.                                                  *)
LEMMA FlowOn ==
    ASSUME Flow, UNCHANGED <<printed, sent, wire, phase>>,
           client' = "run" => client = "run", reader' # "gone" => reader # "gone",
           sink' = "open" => sink = "open",
           Threads', Screened', phase # "live" => Empty',
           sink' = "open" => Placed' /\ (phase = "live" => Got' = Got)
    PROVE  Flow'
<1>1. Sending'
  BY DEF Flow, Sending, Own
<1>2. \A i : (Own(i)' <=> Own(i)) /\ (IsBlock(i)' <=> IsBlock(i))
  BY DEF Own, IsBlock
<1>3. \A i, n : OwnAs(i, n)' <=> OwnAs(i, n)
  BY <1>2 DEF OwnAs
<1>4. \A i : Parts(i) => Parts(i)'
  BY <1>2, <1>3 DEF Parts, RunFrom
<1>5. Captured'
  BY <1>2, <1>4 DEF Flow, Captured
<1>6. Caught'
  BY <1>2, <1>3 DEF Flow, Caught
<1> QED
  BY <1>1, <1>5, <1>6 DEF Flow

\* A calm step leaves the stream as it is.
LEMMA FlowCalm == ASSUME Flow, Calm PROVE Flow'
<1>1. Threads' /\ Screened' /\ (phase # "live" => Empty')
  BY DEF Calm, Flow, Threads, Screened, RunFrom, Captured, Empty
<1>2. Held' = Held
  BY DEF Calm, Held
<1>3. \A i : Before(i)' = Before(i)
  BY <1>2 DEF Calm, Before
<1>4. Shipped' = Shipped
  BY <1>3 DEF Calm, Shipped
<1>5. Got' = Got
  BY <1>4 DEF Calm, Got
<1>6. sink = "open" => Placed'
  BY <1>3, <1>4 DEF Calm, Flow, Placed, RunFrom
<1> QED
  BY <1>1, <1>5, <1>6, FlowOn DEF Calm

(* The pipe's places depend on the pipe alone. *)
LEMMA PlacedStill ==
    ASSUME Placed, UNCHANGED <<batch, chan, buf, screen>>
    PROVE  Placed' /\ Got' = Got
<1>2. Held' = Held
  BY DEF Held
<1>3. \A i : Before(i)' = Before(i)
  BY <1>2 DEF Before
<1>4. Shipped' = Shipped
  BY <1>3 DEF Shipped
<1> QED
  BY <1>3, <1>4 DEF Got, Placed, RunFrom

(* The screen is the lowest place of the pipe. *)
LEMMA ScreenLowest == TypeOK /\ Placed => Len(screen) <= Got
<1> SUFFICES ASSUME TypeOK, Placed PROVE Len(screen) <= Got
  OBVIOUS
<1>1. 1 \in 1..(Len(chan) + 1) /\ Len(chan) + 1 \in 1..(Len(chan) + 1) /\ 1 <= Len(chan) + 1
  BY PipeTypes
<1>2. Before(1) <= Shipped
  BY <1>1 DEF Placed, Shipped
<1>3. Before(1) = Held /\ Shipped \in Nat /\ Got = Shipped + Len(batch)
  BY PlaceTypes DEF Before
<1> QED
  BY <1>2, <1>3, PipeTypes DEF Held

(* The coalescer. *)
LEMMA FlowCoalescer ==
    ASSUME TypeOK, TypeOK', Flow, Coalescer
    PROVE  Flow'
<1>0. /\ UNCHANGED <<printed, sent, wire, phase, client, reader, sink, batch>>
      /\ coalescer = "run"
  BY DEF Coalescer, CoalescerFeed, CoalescerDue, CoalescerEnds, tmuxVars, readVars
<1>1. Empty => buf = <<>> /\ screen = <<>> /\ chan = <<>>
  BY DEF Empty
<1>2. RunFrom(screen, 0) /\ Len(screen) <= sent
  BY DEF Flow, Screened
<1>3. /\ Len(screen) \in Nat /\ Len(buf) \in Nat /\ sent \in Nat
      /\ screen \in ItemSeq /\ buf \in ItemSeq /\ Held = Len(screen) + Len(buf)
  BY PipeTypes DEF Held
<1>5. Placed' => Len(screen') <= Got'
  <2>1. (TypeOK /\ Placed => Len(screen) <= Got)'
    BY ScreenLowest, PTL
  <2> QED
    BY <2>1
<1>7. ASSUME Placed', Got' = Got, sink = "open", phase = "live" PROVE Len(screen') <= sent
  <2>1. screen' \in ItemSeq
    BY DEF TypeOK
  <2>2. Len(screen') \in Nat
    BY <2>1, LenProperties DEF ItemSeq
  <2>3. Got \in Nat /\ Got <= sent
    BY <1>7, PlaceTypes DEF Flow, Caught
  <2> QED
    BY <1>3, <1>5, <1>7, <2>2, <2>3
<1>4. CASE CoalescerFeed
  <2>1. phase = "live" /\ chan # <<>> /\ chan' = Tail(chan)
    BY <1>1, <1>4 DEF CoalescerFeed, Flow, Captured
  <2>2. CASE sink # "open"
    <3>1. screen' = screen
      BY <1>4, <2>2 DEF CoalescerFeed, Flush
    <3>2. Threads' /\ Screened'
      BY <1>0, <2>2, <3>1 DEF Flow, Threads, Screened, RunFrom
    <3> QED
      BY <1>0, <2>1, <2>2, <3>2, FlowOn
  <2>3. CASE sink = "open"
    <3>1. /\ \/ screen' = screen /\ buf' = buf \o Head(chan)
             \/ screen' = screen \o (buf \o Head(chan)) /\ buf' = <<>>
          /\ coalescer' = "run"
      BY <1>0, <1>4, <2>3 DEF CoalescerFeed, Flush
    <3>2. Placed' /\ Got' = Got /\ RunFrom(screen', 0)
      BY <1>0, <1>2, <2>1, <2>3, <3>1, PlacedFeed DEF Flow
    <3>3. Len(screen') <= sent
      BY <1>7, <2>1, <2>3, <3>2
    <3>4. Threads'
      BY <1>0, <2>3, <3>1 DEF Flow, Threads
    <3> QED
      BY <1>0, <2>1, <3>2, <3>3, <3>4, FlowOn DEF Screened
  <2> QED
    BY <2>2, <2>3
<1>6. ASSUME CoalescerDue \/ CoalescerEnds PROVE Flow'
  <2>0. chan = <<>> /\ UNCHANGED <<chan, batch>> /\ buf' = <<>>
        /\ screen' = (IF sink = "open" THEN screen \o buf ELSE screen)
    BY <1>0, <1>6 DEF CoalescerDue, CoalescerEnds, Flush, readVars
  <2>1. Threads'
    BY <1>0, <1>6, <2>0 DEF CoalescerDue, CoalescerEnds, Flush, Flow, Threads, tmuxVars
  <2>2. CASE sink # "open"
    <3>1. Screened' /\ (phase # "live" => Empty')
      BY <1>0, <2>0, <2>2 DEF Flow, Screened, RunFrom, Captured, Empty
    <3> QED
      BY <1>0, <1>6, <2>1, <2>2, <3>1, FlowOn DEF CoalescerDue, CoalescerEnds, tmuxVars
  <2>3. CASE sink = "open"
    <3>1. Placed' /\ Got' = Got /\ RunFrom(screen', 0)
      BY <1>2, <2>0, <2>3, PlacedFlush DEF Flow
    <3>2. phase # "live" => Empty' /\ screen' = screen
      <4>1. phase # "live" => Empty
        BY DEF Flow, Captured
      <4>2. Empty => screen' = <<>>
        BY <1>1, <2>0
      <4> QED
        BY <1>1, <2>0, <4>1, <4>2 DEF Empty
    <3>3. Len(screen') <= sent
      <4>1. CASE phase = "live"
        BY <1>7, <2>3, <3>1, <4>1
      <4>2. CASE phase # "live"
        BY <1>2, <3>2, <4>2
      <4> QED
        BY <4>1, <4>2
    <3> QED
      BY <1>0, <1>6, <2>1, <2>3, <3>1, <3>2, <3>3, FlowOn
         DEF CoalescerDue, CoalescerEnds, tmuxVars, Screened
  <2> QED
    BY <2>2, <2>3
<1> QED
  BY <1>4, <1>6 DEF Coalescer

(* The reader's steps that take no line. *)
LEMMA FlowReader ==
    ASSUME TypeOK, TypeOK', Flow, ReaderDry \/ ReaderEOF \/ ReaderSendFails \/ ReaderSend
    PROVE  Flow'
<1>0. UNCHANGED <<printed, sent, wire, phase, client, sink, screen, buf, coalescer>>
  BY DEF ReaderDry, ReaderEOF, ReaderSendFails, ReaderSend, tmuxVars, sinkVars
<1>1. Screened' /\ reader # "gone"
  BY <1>0 DEF Flow, Screened, RunFrom, ReaderDry, ReaderEOF, ReaderSendFails, ReaderSend
<1>2. CASE ReaderDry \/ ReaderEOF
  <2>1. UNCHANGED <<batch, chan>>
    BY <1>2 DEF ReaderDry, ReaderEOF
  <2>2. Placed => Placed' /\ Got' = Got
    BY <1>0, <2>1, PlacedStill
  <2>3. Threads'
    BY <1>0, <1>2, <2>1 DEF ReaderDry, ReaderEOF, Flow, Threads
  <2>4. phase # "live" => Empty'
    BY <1>0, <2>1 DEF Flow, Captured, Empty
  <2> QED
    BY <1>0, <1>1, <2>2, <2>3, <2>4, FlowOn DEF Flow
<1>3. CASE ReaderSendFails
  <2>1. sink # "open" /\ chan' = chan /\ batch' = <<>> /\ reader' = "tail"
    BY <1>3 DEF ReaderSendFails, Flow, Threads
  <2>2. Threads'
    BY <1>0, <2>1 DEF Threads
  <2>3. phase # "live" => Empty'
    BY <1>0, <2>1 DEF Flow, Captured, Empty
  <2> QED
    BY <1>0, <1>1, <2>1, <2>2, <2>3, FlowOn
<1>4. CASE ReaderSend
  <2>1. batch # <<>> /\ chan' = Append(chan, batch) /\ batch' = <<>> /\ reader' = "read" /\ coalescer = "run"
    BY <1>4 DEF ReaderSend, Flow, Threads
  <2>2. phase = "live"
    BY <2>1 DEF Flow, Captured, Empty
  <2>3. Threads'
    BY <1>0, <2>1 DEF Threads
  <2>4. Placed => Placed' /\ Got' = Got
    BY <1>0, <2>1, PlacedShip
  <2> QED
    BY <1>0, <1>1, <2>1, <2>2, <2>3, <2>4, FlowOn DEF Flow
<1> QED
  BY <1>2, <1>3, <1>4

(* Its last act closes the pipe that is already empty, unless the sink went *)
(* first.                                                                   *)
LEMMA FlowReaderEnds ==
    ASSUME TypeOK, TypeOK', Flow, ReaderEnds
    PROVE  Flow'
<1>0. /\ UNCHANGED <<printed, sent, phase, client, sink, screen, buf, coalescer>>
      /\ wire' = <<>> /\ batch' = <<>> /\ reader' = "gone" /\ reader = "tail" /\ chan' = TailChunk
  BY DEF ReaderEnds, sinkVars
<1>1. Screened'
  BY <1>0 DEF Flow, Screened, RunFrom
<1>2. phase # "live" => Empty'
  BY <1>0 DEF Flow, Captured, Empty, TailChunk
<1>3. CASE sink # "open"
  <2>1. DOMAIN wire' = {}
    BY <1>0, NoItems
  <2>2. Sending' /\ Threads'
    BY <1>0, <1>3, <2>1 DEF Flow, Sending, Threads
  <2>3. Captured' /\ Caught'
    BY <1>0, <1>2, <1>3, <2>1 DEF Captured, Caught
  <2> QED
    BY <1>0, <1>1, <1>3, <2>2, <2>3 DEF Flow
<1>4. CASE sink = "open"
  <2>1. wire = <<>> /\ client # "run" /\ coalescer = "run"
    BY <1>0, <1>4 DEF Flow, Threads, TypeOK
  <2>2. Threads'
    BY <1>0, <2>1 DEF Threads
  <2>3. Placed => Placed' /\ Got' = Got
    <3>1. CASE batch = <<>>
      BY <1>0, <3>1, PlacedStill DEF TailChunk
    <3>2. CASE batch # <<>>
      BY <1>0, <2>1, <3>2, PlacedShip DEF TailChunk
    <3> QED
      BY <3>1, <3>2
  <2> QED
    BY <1>0, <1>1, <1>2, <1>4, <2>1, <2>2, <2>3, FlowOn DEF Flow
<1> QED
  BY <1>3, <1>4

(* A line goes onto the wire: what was on it keeps its place, and what comes *)
(* is the pane's next item, or none of its own.                             *)
LEMMA FlowPush ==
    ASSUME TypeOK, Flow, NEW x \in LineType, wire' = Append(wire, x), client = "run", reader # "gone",
           UNCHANGED <<phase, batch, chan, buf, screen, sink, coalescer, reader, client>>,
           printed'["own"] \in Nat, sent' = printed'["own"],
           \/ x.t = "out" /\ x.item.pane = "own" /\ x.item.n = sent + 1 /\ sent' = sent + 1
           \/ sent' = sent /\ ~(x.t = "out" /\ x.item.pane = "own"),
           x.t = "block" /\ x.n = 0 => sent' = sent /\ RunFrom(x.items, 0) /\ Len(x.items) = sent
    PROVE  Flow'
<1>0. PICK e \in Nat : e = Len(wire) + 1
  BY Lines, LenProperties
<1>1. /\ \A i \in DOMAIN wire : i \in DOMAIN wire' /\ wire'[i] = wire[i] /\ i < e
      /\ e \in DOMAIN wire' /\ wire'[e] = x
      /\ \A i \in DOMAIN wire' : i \in DOMAIN wire \/ i = e
      /\ \A i \in DOMAIN wire' : i \in Nat
  BY <1>0, PushWire
<1>2. /\ sent \in Nat /\ sent' \in Nat /\ sent <= sent'
      /\ \A i \in DOMAIN wire : Own(i) => wire[i].item.n \in Nat /\ wire[i].item.n <= sent
  BY PipeTypes DEF Flow, Sending
<1>3. /\ \A i \in DOMAIN wire : (Own(i)' <=> Own(i)) /\ (IsBlock(i)' <=> IsBlock(i))
      /\ Own(e)' => wire'[e].item.n = sent + 1 /\ sent' = sent + 1
      /\ ~Own(e)' => sent' = sent
  BY <1>1 DEF Own, IsBlock
<1>4. /\ \A i \in DOMAIN wire : \A n : OwnAs(i, n) => OwnAs(i, n)'
      /\ \A n : n \in (sent + 1)..sent' => OwnAs(e, n)'
  BY <1>1, <1>2, <1>3 DEF OwnAs
<1>5. Sending'
  <2>1. \A i \in DOMAIN wire' : Own(i)' => wire'[i].item.n <= sent'
    BY <1>1, <1>2, <1>3
  <2>2. ASSUME NEW i \in DOMAIN wire', NEW j \in DOMAIN wire', i < j, Own(i)', Own(j)'
        PROVE  wire'[i].item.n < wire'[j].item.n
    <3>1. CASE j \in DOMAIN wire
      <4>1. i \in DOMAIN wire
        BY <1>0, <1>1, <2>2, <3>1
      <4> QED
        BY <1>1, <1>3, <2>2, <3>1, <4>1 DEF Flow, Sending
    <3>2. CASE j = e
      <4>1. i \in DOMAIN wire
        BY <1>0, <1>1, <2>2, <3>2
      <4>2. wire'[i].item.n \in Nat /\ wire'[i].item.n <= sent /\ wire'[j].item.n = sent + 1
        BY <1>1, <1>2, <1>3, <2>2, <3>2, <4>1
      <4> QED
        BY <1>2, <4>2
    <3> QED
      BY <1>1, <3>1, <3>2
  <2> QED
    BY <1>2, <2>1, <2>2 DEF Sending
<1>6. Threads' /\ (phase # "live" => Empty')
  BY DEF Flow, Threads, Captured, Empty
<1>7. Screened'
  <2>1. Len(screen) \in Nat /\ Len(screen) <= sent
    BY PipeTypes DEF Flow, Screened
  <2> QED
    BY <1>2, <2>1 DEF Flow, Screened, RunFrom
<1>8. sink' = "open" => Placed' /\ Got' = Got
  BY PlacedStill DEF Flow
<1>9. ASSUME NEW i \in DOMAIN wire, IsBlock(i), Parts(i) PROVE Parts(i)'
  <2>1. PICK m : m = Len(wire[i].items)
    OBVIOUS
  <2>2. /\ RunFrom(wire'[i].items, 0) /\ m = Len(wire'[i].items) /\ m <= sent
        /\ \A j \in DOMAIN wire : Own(j) => (wire[j].item.n > m <=> j > i)
        /\ \A n \in (m + 1)..sent : \E j \in DOMAIN wire : OwnAs(j, n)
    BY <1>1, <1>9, <2>1 DEF Parts
  <2>3. m \in Nat
    <3>1. wire[i].items \in ItemSeq
      BY <1>9, Lines DEF Line
    <3> QED
      BY <2>1, <3>1, LenProperties DEF ItemSeq
  <2>4. \A j \in DOMAIN wire' : Own(j)' => (wire'[j].item.n > m <=> j > i)
    BY <1>0, <1>1, <1>2, <1>3, <2>2, <2>3
  <2>5. ASSUME NEW n \in (m + 1)..sent' PROVE \E j \in DOMAIN wire' : OwnAs(j, n)'
    <3>1. CASE n \in (m + 1)..sent
      BY <1>1, <1>4, <2>2, <3>1
    <3>2. CASE n \in (sent + 1)..sent'
      BY <1>1, <1>4, <3>2
    <3> QED
      BY <1>2, <2>3, <3>1, <3>2
  <2> QED
    BY <1>2, <2>2, <2>3, <2>4, <2>5 DEF Parts, RunFrom
<1>10. ASSUME IsBlock(e)', x.n = 0 PROVE Parts(e)'
  <2>1. /\ x.t = "block" /\ sent' = sent /\ RunFrom(wire'[e].items, 0) /\ Len(wire'[e].items) = sent
        /\ ~Own(e)'
    BY <1>1, <1>10 DEF IsBlock, Own
  <2>2. \A j \in DOMAIN wire' : Own(j)' => (wire'[j].item.n > sent <=> j > e)
    BY <1>0, <1>1, <1>2, <1>3, <2>1
  <2>3. sent <= sent /\ \A n \in (sent + 1)..sent : FALSE
    BY <1>2
  <2>4. PICK m : m = Len(wire'[e].items)
    OBVIOUS
  <2>5. /\ m = sent /\ m <= sent'
        /\ \A n \in (m + 1)..sent' : \E j \in DOMAIN wire' : OwnAs(j, n)'
        /\ \A j \in DOMAIN wire' : Own(j)' => (wire'[j].item.n > m <=> j > e)
    BY <2>1, <2>2, <2>3, <2>4
  <2> QED
    BY <2>1, <2>4, <2>5 DEF Parts, RunFrom
<1>11. Captured'
  <2>1. ASSUME phase # "live", NEW i \in DOMAIN wire', IsBlock(i)', wire'[i].n = 0 PROVE Parts(i)'
    <3>1. CASE i \in DOMAIN wire
      BY <1>1, <1>3, <1>9, <2>1, <3>1 DEF Flow, Captured
    <3>2. CASE i = e
      BY <1>1, <1>10, <2>1, <3>2
    <3> QED
      BY <1>1, <3>1, <3>2
  <2> QED
    BY <1>6, <2>1 DEF Captured
<1>12. Caught'
  <2> SUFFICES ASSUME phase = "live", sink = "open"
               PROVE  /\ Got' <= sent' /\ \A i \in DOMAIN wire' : Own(i)' => wire'[i].item.n > Got'
                      /\ \A n \in (Got' + 1)..sent' : \E i \in DOMAIN wire' : OwnAs(i, n)'
    BY DEF Caught
  <2>1. /\ Got' = Got /\ Got \in Nat /\ Got <= sent
        /\ \A i \in DOMAIN wire : Own(i) => wire[i].item.n > Got
        /\ \A n \in (Got + 1)..sent : \E i \in DOMAIN wire : OwnAs(i, n)
    BY <1>8, PlaceTypes DEF Flow, Caught
  <2>2. ASSUME NEW n \in (Got + 1)..sent' PROVE \E j \in DOMAIN wire' : OwnAs(j, n)'
    <3>1. CASE n \in (Got + 1)..sent
      BY <1>1, <1>4, <2>1, <3>1
    <3>2. CASE n \in (sent + 1)..sent'
      BY <1>1, <1>4, <3>2
    <3> QED
      BY <1>2, <2>1, <3>1, <3>2
  <2>3. \A i \in DOMAIN wire' : Own(i)' => wire'[i].item.n > Got
    BY <1>1, <1>2, <1>3, <2>1
  <2> QED
    BY <1>2, <2>1, <2>2, <2>3
<1> QED
  BY <1>5, <1>6, <1>7, <1>8, <1>11, <1>12 DEF Flow

(* tmux prints. *)
LEMMA FlowPrint ==
    ASSUME TypeOK, TypeOK', Flow, NEW p \in Panes, TmuxPrint(p)
    PROVE  Flow'
<1>0. /\ UNCHANGED <<phase, batch, chan, buf, screen, sink, coalescer, reader, client>>
      /\ printed' = [printed EXCEPT ![p] = @ + 1]
  BY DEF TmuxPrint, readVars, sinkVars
<1>1. /\ printed["own"] \in Nat /\ printed'["own"] \in Nat /\ printed["own"] <= printed'["own"]
      /\ printed'["own"] = (IF p = "own" THEN printed["own"] + 1 ELSE printed["own"])
      /\ sent \in Nat
  <2>1. printed["own"] \in Nat /\ printed'["own"] \in Nat /\ sent \in Nat
    BY DEF TypeOK, Panes
  <2>2. printed'["own"] = (IF p = "own" THEN printed["own"] + 1 ELSE printed["own"])
    BY <1>0 DEF TypeOK, Panes
  <2> QED
    BY <2>1, <2>2
<1>2. CASE client = "run" /\ reader # "gone"
  <2> DEFINE x == Out(Item(p, printed[p] + 1))
  <2>1. /\ wire' = Append(wire, x) /\ x \in LineType
        /\ sent' = IF p = "own" THEN printed[p] + 1 ELSE sent
    BY <1>2, PrintIs DEF TmuxPrint
  <2>2. x.t = "out" /\ x.item.pane = p /\ x.item.n = printed[p] + 1
    BY DEF Out, Item
  <2>3. sent = printed["own"]
    BY <1>2 DEF Flow, Sending
  <2> HIDE DEF x
  <2>4. /\ sent' = printed'["own"]
        /\ \/ x.t = "out" /\ x.item.pane = "own" /\ x.item.n = sent + 1 /\ sent' = sent + 1
           \/ sent' = sent /\ ~(x.t = "out" /\ x.item.pane = "own")
    BY <1>1, <2>1, <2>2, <2>3
  <2>5. x.t # "block"
    BY <2>2
  <2> QED
    BY <1>0, <1>1, <1>2, <2>1, <2>4, <2>5, FlowPush
<1>3. CASE ~(client = "run" /\ reader # "gone")
  <2>1. wire' = wire /\ sent' = sent
    BY <1>3 DEF TmuxPrint
  <2>2. Placed => Placed' /\ Got' = Got
    BY <1>0, PlacedStill
  <2>3. Sending'
    BY <1>0, <1>1, <1>3, <2>1 DEF Flow, Sending, Own
  <2>4. Threads' /\ Screened' /\ (phase # "live" => Empty')
    BY <1>0, <2>1 DEF Flow, Threads, Screened, RunFrom, Captured, Empty
  <2>5. \A i : (Own(i)' <=> Own(i)) /\ (IsBlock(i)' <=> IsBlock(i))
    BY <2>1 DEF Own, IsBlock
  <2>6. \A i, n : OwnAs(i, n)' <=> OwnAs(i, n)
    BY <2>1, <2>5 DEF OwnAs
  <2>7. \A i : Parts(i) => Parts(i)'
    BY <2>1, <2>5, <2>6 DEF Parts, RunFrom
  <2>8. Captured'
    BY <1>0, <2>1, <2>4, <2>5, <2>7 DEF Flow, Captured
  <2>9. Caught'
    BY <1>0, <2>1, <2>2, <2>5, <2>6 DEF Flow, Caught
  <2> QED
    BY <1>0, <2>2, <2>3, <2>4, <2>8, <2>9 DEF Flow
<1> QED
  BY <1>2, <1>3

(* tmux answers. *)
LEMMA FlowAnswer ==
    ASSUME IInv, Aimed, Flow, TmuxAnswer
    PROVE  Flow'
<1>0. /\ TypeOK /\ client = "run"
      /\ UNCHANGED <<printed, sent, reader, phase, batch, chan, coalescer, buf, screen, sink, client>>
  BY AnswerIs DEF IInv
<1>1. CASE wire' = wire
  <2>1. Placed => Placed' /\ Got' = Got
    BY <1>0, PlacedStill
  <2>2. Threads' /\ Screened' /\ (phase # "live" => Empty')
    BY <1>0, <1>1 DEF Flow, Threads, Screened, RunFrom, Captured, Empty
  <2> QED
    BY <1>0, <1>1, <2>1, <2>2, FlowOn DEF Flow
<1>2. ASSUME reader # "gone", NEW x \in LineType, wire' = Append(wire, x), x.t = "block",
             x.n = 0 => x.items = Printed("own")
      PROVE  Flow'
  <2>1. printed["own"] \in Nat /\ sent = printed["own"]
    BY <1>0, <1>2, PipeTypes DEF Flow, Sending
  <2>2. RunFrom(Printed("own"), 0) /\ Len(Printed("own")) = printed["own"]
    BY <2>1 DEF Printed, RunFrom
  <2>3. sent' = printed'["own"] /\ printed'["own"] \in Nat /\ sent' = sent
    BY <1>0, <2>1
  <2>4. ~(x.t = "out" /\ x.item.pane = "own")
    BY <1>2
  <2>5. x.n = 0 => RunFrom(x.items, 0) /\ Len(x.items) = sent
    BY <1>2, <2>1, <2>2
  <2> QED
    BY <1>0, <1>2, <2>3, <2>4, <2>5, FlowPush
<1> QED
  BY <1>1, <1>2, AnswerIs

(* The reader takes a line. *)
LEMMA PlacedBatch ==
    ASSUME Placed, UNCHANGED <<chan, buf, screen>>, RunFrom(batch', Shipped)
    PROVE  Placed' /\ Got' = Shipped + Len(batch')
<1>2. Held' = Held
  BY DEF Held
<1>3. \A i : Before(i)' = Before(i)
  BY <1>2 DEF Before
<1>4. Shipped' = Shipped
  BY <1>3 DEF Shipped
<1> QED
  BY <1>3, <1>4 DEF Got, Placed, RunFrom

\* The reader's control line takes output off the wire in order and without a gap.
LEMMA FlowLine ==
    ASSUME IInv, Aimed, Flow, ReaderLine
    PROVE  Flow'
<1>0. /\ TypeOK /\ reader = "read" /\ wire # <<>> /\ wire' = Tail(wire)
      /\ reader' \in {"read", "send"} /\ (reader' = "send" => batch' # <<>>)
      /\ UNCHANGED <<printed, sent, chan, buf, screen, sink, coalescer, client>>
  BY DEF ReaderLine, IInv, sinkVars
<1>1. /\ \A i \in DOMAIN wire' : i \in Nat \ {0} /\ i + 1 \in DOMAIN wire /\ wire'[i] = wire[i + 1]
      /\ \A i \in DOMAIN wire : i \in Nat /\ (i = 1 \/ (i - 1 \in DOMAIN wire' /\ wire'[i - 1] = wire[i]))
      /\ Head(wire) = wire[1] /\ 1 \in DOMAIN wire
  BY <1>0, PullWire
<1>2. /\ \A i \in DOMAIN wire' : (Own(i)' <=> Own(i + 1)) /\ (IsBlock(i)' <=> IsBlock(i + 1))
      /\ \A i \in DOMAIN wire' : \A n : OwnAs(i, n)' <=> OwnAs(i + 1, n)
      /\ \A i \in DOMAIN wire : \A n : i # 1 /\ OwnAs(i, n) => OwnAs(i - 1, n)'
  BY <1>1 DEF Own, IsBlock, OwnAs
<1>3. /\ sent \in Nat /\ \A i \in DOMAIN wire : Own(i) => wire[i].item.n \in Nat
      /\ batch \in ItemSeq
  BY <1>0, PipeTypes
<1>4. Sending'
  <2>1. client' = "run" /\ reader' /= "gone" => sent' = printed'["own"]
    BY <1>0 DEF Flow, Sending
  <2>2. \A i \in DOMAIN wire' : Own(i)' => wire'[i].item.n <= sent'
    BY <1>0, <1>1, <1>2 DEF Flow, Sending
  <2>3. ASSUME NEW i \in DOMAIN wire', NEW j \in DOMAIN wire', i < j, Own(i)', Own(j)'
        PROVE  wire'[i].item.n < wire'[j].item.n
    BY <1>1, <1>2, <2>3 DEF Flow, Sending
  <2> QED
    BY <1>0, <2>1, <2>2, <2>3 DEF Flow, Sending
<1>5. Threads' /\ Screened'
  BY <1>0 DEF Flow, Threads, Screened, RunFrom
<1>6. ASSUME phase = "live", phase' = "live", batch' = batch, ~Own(1)
      PROVE  Flow'
  <2>1. sink = "open" => Placed' /\ Got' = Got
    BY <1>0, <1>6, PlacedStill DEF Flow
  <2>2. Caught'
    <3> SUFFICES ASSUME sink = "open"
                 PROVE  /\ Got' <= sent /\ \A i \in DOMAIN wire' : Own(i)' => wire'[i].item.n > Got'
                        /\ \A n \in (Got' + 1)..sent : \E i \in DOMAIN wire' : OwnAs(i, n)'
      BY <1>0 DEF Caught
    <3>1. \A i \in DOMAIN wire' : Own(i)' => wire'[i].item.n > Got
      BY <1>0, <1>1, <1>2, <1>6 DEF Flow, Caught
    <3>2. ASSUME NEW n \in (Got + 1)..sent PROVE \E i \in DOMAIN wire' : OwnAs(i, n)'
      <4>1. PICK i \in DOMAIN wire : OwnAs(i, n)
        BY <1>0, <1>6 DEF Flow, Caught
      <4>2. i # 1
        BY <1>6, <4>1 DEF OwnAs
      <4> QED
        BY <1>1, <1>2, <4>1, <4>2
    <3> QED
      BY <1>0, <1>6, <2>1, <3>1, <3>2 DEF Flow, Caught
  <2>3. Captured'
    BY <1>6 DEF Captured
  <2> QED
    BY <1>0, <1>4, <1>5, <2>1, <2>2, <2>3 DEF Flow
<1>7. CASE Paints(Head(wire)) /\ batch' = Append(batch, Head(wire).item) /\ phase' = phase
  <2>1. phase = "live" /\ Own(1)
    <3>1. phase = "live" /\ wire[1].t = "out" /\ lead \in {"any", wire[1].item.pane}
      BY <1>1, <1>7 DEF Paints
    <3>2. CASE transport = "pty"
      BY <1>1, <3>1, <3>2 DEF Aimed
    <3>3. CASE transport # "pty"
      <4>1. transport = "control"
        BY <1>0, <3>3, TransportsAssumption DEF TypeOK
      <4> QED
        BY <3>1, <4>1 DEF Aimed, Own
    <3> QED
      BY <3>1, <3>2, <3>3
  <2>2. Captured' /\ (sink # "open" => Caught')
    BY <1>0, <1>7, <2>1 DEF Captured, Caught
  <2>3. CASE sink # "open"
    BY <1>0, <1>4, <1>5, <2>2, <2>3 DEF Flow
  <2>4. CASE sink = "open"
    <3>1. /\ Placed /\ Got <= sent /\ Got \in Nat /\ Shipped \in Nat /\ Got = Shipped + Len(batch)
          /\ \A i \in DOMAIN wire : Own(i) => wire[i].item.n > Got
          /\ \A n \in (Got + 1)..sent : \E i \in DOMAIN wire : OwnAs(i, n)
          /\ Len(batch) \in Nat
      BY <1>0, <2>1, <2>4, PlaceTypes, PipeTypes DEF Flow, Caught
    <3>2. wire[1].item.n = Got + 1 /\ Got + 1 <= sent
      <4>1. wire[1].item.n \in Nat /\ wire[1].item.n > Got /\ wire[1].item.n <= sent
        BY <1>1, <1>3, <2>1, <3>1 DEF Flow, Sending
      <4>2. PICK i \in DOMAIN wire : OwnAs(i, Got + 1)
        BY <1>3, <3>1, <4>1
      <4>3. i # 1 => wire[1].item.n < Got + 1
        BY <1>1, <2>1, <4>2 DEF Flow, Sending, OwnAs
      <4> QED
        BY <1>3, <3>1, <4>1, <4>2, <4>3 DEF OwnAs
    <3>3. Head(wire).item = Item("own", Shipped + Len(batch) + 1)
      <4>1. wire[1].item \in [pane : Panes, n : 1..MaxWork] /\ wire[1].item.pane = "own"
        BY <1>0, <1>1, <2>1, Lines DEF Own
      <4> QED
        BY <1>1, <3>1, <3>2, <4>1 DEF Item
    <3>4. Head(wire).item \in [pane : Panes, n : 1..MaxWork]
      BY <1>0, <1>1, <2>1, Lines DEF Own
    <3>5. RunFrom(batch', Shipped) /\ Len(batch') = Len(batch) + 1
      BY <1>3, <1>7, <3>1, <3>3, <3>4, RunMore DEF ItemSeq, Placed
    <3>6. Placed' /\ Got' = Got + 1
      BY <1>0, <3>1, <3>5, PlacedBatch
    <3>7. \A i \in DOMAIN wire' : Own(i)' => wire'[i].item.n > Got + 1
      <4> SUFFICES ASSUME NEW i \in DOMAIN wire', Own(i)' PROVE wire'[i].item.n > Got + 1
        OBVIOUS
      <4>1. Own(i + 1) /\ 1 < i + 1 /\ i + 1 \in DOMAIN wire /\ wire'[i] = wire[i + 1]
        BY <1>1, <1>2
      <4> QED
        BY <1>1, <1>3, <2>1, <3>1, <3>2, <4>1 DEF Flow, Sending
    <3>8. ASSUME NEW n \in (Got + 2)..sent PROVE \E i \in DOMAIN wire' : OwnAs(i, n)'
      <4>1. PICK i \in DOMAIN wire : OwnAs(i, n)
        BY <3>1
      <4>2. i # 1
        BY <3>1, <3>2, <4>1 DEF OwnAs
      <4> QED
        BY <1>1, <1>2, <4>1, <4>2
    <3>9. (Got + 1) + 1 = Got + 2
      BY <3>1
    <3>10. Caught'
      BY <1>0, <3>2, <3>6, <3>7, <3>8, <3>9 DEF Caught
    <3> QED
      BY <1>4, <1>5, <2>2, <3>6, <3>10 DEF Flow
  <2> QED
    BY <2>3, <2>4
<1>8. ASSUME phase # "live", phase' # "live", batch' = batch
      PROVE  Flow'
  <2>1. sink = "open" => Placed'
    BY <1>0, <1>8, PlacedStill DEF Flow
  <2>2. Empty'
    BY <1>0, <1>8 DEF Flow, Captured, Empty
  <2>3. ASSUME NEW i \in DOMAIN wire', IsBlock(i)', wire'[i].n = 0 PROVE Parts(i)'
    <3>1. /\ i \in Nat \ {0} /\ i + 1 \in DOMAIN wire /\ wire'[i] = wire[i + 1] /\ Parts(i + 1)
      BY <1>1, <1>2, <1>8, <2>3 DEF Flow, Captured
    <3>2. PICK m : m = Len(wire[i + 1].items)
      OBVIOUS
    <3>3. /\ RunFrom(wire'[i].items, 0) /\ m = Len(wire'[i].items) /\ m <= sent
          /\ \A j \in DOMAIN wire : Own(j) => (wire[j].item.n > m <=> j > i + 1)
          /\ \A n \in (m + 1)..sent : \E j \in DOMAIN wire : OwnAs(j, n)
      BY <3>1, <3>2 DEF Parts
    <3>4. m \in Nat
      <4>1. wire[i + 1].items \in ItemSeq
        BY <1>0, <1>2, <2>3, <3>1, Lines DEF Line
      <4> QED
        BY <3>2, <4>1, LenProperties DEF ItemSeq
    <3>5. \A j \in DOMAIN wire' : Own(j)' => (wire'[j].item.n > m <=> j > i)
      BY <1>1, <1>2, <3>1, <3>3
    <3>6. ASSUME NEW n \in (m + 1)..sent PROVE \E j \in DOMAIN wire' : OwnAs(j, n)'
      <4>1. PICK j \in DOMAIN wire : OwnAs(j, n)
        BY <3>3
      <4>2. n > m
        BY <1>3, <3>4
      <4>3. j > i + 1
        BY <3>3, <4>1, <4>2 DEF OwnAs
      <4>4. j # 1
        BY <1>1, <3>1, <4>3
      <4> QED
        BY <1>1, <1>2, <4>1, <4>4
    <3> QED
      BY <1>0, <3>3, <3>5, <3>6 DEF Parts, RunFrom
  <2>4. Captured' /\ Caught'
    BY <1>8, <2>2, <2>3 DEF Captured, Caught
  <2> QED
    BY <1>0, <1>4, <1>5, <2>1, <2>4 DEF Flow
<1>9. CASE Head(wire).t = "block" /\ phase = "capture" /\ SyncBlock(Head(wire))
  <2>1. Head(wire).n = 0
    BY <1>0, <1>9, HeadIsDue DEF IInv, Due
  <2>2. Empty /\ Parts(1) /\ IsBlock(1)
    BY <1>1, <1>9, <2>1 DEF Flow, Captured, IsBlock
  <2>3. phase' = "live" /\ batch' = <<>> \o wire[1].items
    BY <1>1, <1>9, <2>2 DEF SyncBlock, NextPhase, Replay, Empty
  <2>4. wire[1].items \in ItemSeq
    BY <1>0, <1>1, <2>2, Lines DEF Line
  <2>5. batch' = wire[1].items
    BY <2>3, <2>4, ConcatEmptySeq DEF ItemSeq
  <2>6. PICK m : m = Len(wire[1].items)
    OBVIOUS
  <2>7. /\ RunFrom(batch', 0) /\ m = Len(batch') /\ m <= sent /\ m \in Nat
        /\ \A j \in DOMAIN wire : Own(j) => (wire[j].item.n > m <=> j > 1)
        /\ \A n \in (m + 1)..sent : \E j \in DOMAIN wire : OwnAs(j, n)
    BY <2>2, <2>4, <2>5, <2>6, LenProperties DEF Parts, ItemSeq
  <2>8. Shipped = 0
    BY <2>2, EmptySeq DEF Empty, Shipped, Before, Held
  <2>9. sink = "open" => Placed' /\ Got' = m
    BY <1>0, <2>7, <2>8, PlacedBatch DEF Flow
  <2>10. \A i \in DOMAIN wire' : Own(i)' => wire'[i].item.n > m
    BY <1>1, <1>2, <2>7
  <2>11. ASSUME NEW n \in (m + 1)..sent PROVE \E i \in DOMAIN wire' : OwnAs(i, n)'
    <3>1. PICK j \in DOMAIN wire : OwnAs(j, n)
      BY <2>7
    <3>2. j # 1
      BY <2>2, <3>1 DEF OwnAs, Own, IsBlock
    <3> QED
      BY <1>1, <1>2, <3>1, <3>2
  <2>12. Captured' /\ Caught'
    BY <1>0, <2>3, <2>7, <2>9, <2>10, <2>11 DEF Captured, Caught
  <2> QED
    BY <1>0, <1>4, <1>5, <2>9, <2>12 DEF Flow
<1>10. CASE Head(wire).t = "out" /\ ~Paints(Head(wire)) /\ phase' = phase /\ batch' = batch
  <2>1. CASE phase = "live"
    <3>1. lead \in {"any", "own"}
      BY <1>0 DEF TypeOK, Aimed, Panes
    <3>2. ~Own(1)
      BY <1>1, <1>10, <2>1, <3>1 DEF Paints, Own
    <3> QED
      BY <1>6, <1>10, <2>1, <3>2
  <2> QED
    BY <1>8, <1>10, <2>1
<1>11. CASE Head(wire).t = "block" /\ phase = "live" /\ phase' = phase /\ batch' = batch
  BY <1>1, <1>6, <1>11 DEF Own
<1>12. CASE Head(wire).t = "block" /\ phase \in {"greeting", "meta"} /\ SyncBlock(Head(wire))
  <2>1. phase' # "live" /\ batch' = batch
    BY <1>12 DEF SyncBlock, NextPhase
  <2> QED
    BY <1>8, <1>12, <2>1
<1>13. \/ Paints(Head(wire)) /\ batch' = Append(batch, Head(wire).item) /\ phase' = phase
       \/ Head(wire).t = "out" /\ ~Paints(Head(wire)) /\ phase' = phase /\ batch' = batch
       \/ Head(wire).t = "block" /\ phase /= "live" /\ SyncBlock(Head(wire))
       \/ Head(wire).t = "block" /\ phase = "live" /\ phase' = phase /\ batch' = batch
  BY DEF ReaderLine
<1>14. phase \in {"greeting", "meta", "capture", "live"}
  BY <1>0 DEF TypeOK
<1> QED
  BY <1>7, <1>9, <1>10, <1>11, <1>12, <1>13, <1>14

-----------------------------------------------------------------------------
(* Together with the order of the commands, which says which block is the   *)
(* capture, the stream is inductive.                                        *)
StreamInv == IInv /\ Aimed /\ Flow

\* The stream's invariant at the start.
LEMMA StreamInit == Init => StreamInv
<1> SUFFICES ASSUME Init PROVE StreamInv
  OBVIOUS
<1>1. IInv
  BY InitHolds
<1>2. /\ DOMAIN <<>> = {} /\ Len(<<>>) = 0
      /\ batch = <<>> /\ chan = <<>> /\ buf = <<>> /\ screen = <<>> /\ sent = 1
      /\ printed["own"] = 1 /\ reader = "read" /\ client = "run" /\ coalescer = "run" /\ lead = "any"
      /\ active = "own" /\ sink = "open"
  BY NoItems DEF Init, Panes
<1>3. Held = 0
  BY <1>2 DEF Held
<1>4. /\ \A i \in 1..(Len(chan) + 1) : i = 1 /\ Before(i) = 0
      /\ Shipped = 0 /\ Got = 0
  BY <1>2, <1>3 DEF Before, Shipped, Got
<1>5. Placed /\ Threads /\ Screened
  BY <1>2, <1>4 DEF Placed, RunFrom, Threads, Screened
<1>6. CASE transport = "control"
  <2>1. wire = <<Block(Cmd("hello", -2), <<>>)>> /\ phase = "greeting"
    BY <1>6 DEF Init, Start, ControlStart
  <2>2. DOMAIN wire = {1} /\ wire[1].t = "block" /\ wire[1].n = -2
    BY <2>1 DEF Block, Cmd
  <2>3. ~Own(1) /\ wire[1].n # 0 /\ wire[1].n # -1
    BY <2>2 DEF Own
  <2>4. Aimed
    BY <1>2, <1>6, <2>1, <2>2, <2>3 DEF Aimed
  <2>5. Sending /\ Captured /\ Caught
    BY <1>2, <2>1, <2>2, <2>3 DEF Sending, Captured, Caught, Empty
  <2> QED
    BY <1>1, <1>5, <2>4, <2>5 DEF StreamInv, Flow
<1>7. CASE transport = "pty"
  <2>1. wire = <<Out(Item("own", 1))>> /\ phase = "live" /\ cmds = <<>>
    BY <1>7 DEF Init, Start, PtyStart
  <2>2. DOMAIN wire = {1} /\ wire[1].t = "out" /\ wire[1].item.n = 1 /\ Own(1)
    BY <2>1 DEF Out, Item, Own
  <2>3. Aimed
    BY <1>2, <1>7, <2>1, <2>2 DEF Aimed, IsBlock
  <2>4. Sending /\ Captured
    BY <1>2, <2>1, <2>2 DEF Sending, Captured
  <2>5. Caught
    BY <1>2, <1>4, <2>2 DEF Caught, OwnAs
  <2> QED
    BY <1>1, <1>5, <2>3, <2>4, <2>5 DEF StreamInv, Flow
<1> QED
  BY <1>6, <1>7, TransportsAssumption DEF Init

\* Every step preserves the stream's invariant.
LEMMA StreamStep == Splits \subseteq {"late"} /\ StreamInv /\ [Next]_vars => StreamInv'
<1> SUFFICES ASSUME Splits \subseteq {"late"}, StreamInv, [Next]_vars PROVE StreamInv'
  OBVIOUS
<1>1. IInv'
  BY StepHolds DEF StreamInv
<1>2. IInv /\ Aimed /\ Flow /\ TypeOK /\ TypeOK'
  BY <1>1 DEF StreamInv, IInv
<1>3. Aimed'
  BY <1>2, AimedStep
<1>4. ASSUME Calm PROVE Flow'
  BY <1>2, <1>4, FlowCalm
<1>5. ASSUME NEW p \in Panes, TmuxPrint(p) PROVE Flow'
  BY <1>2, <1>5, FlowPrint
<1>6. ASSUME TmuxAnswer PROVE Flow'
  BY <1>2, <1>6, FlowAnswer
<1>7. ASSUME ReaderLine PROVE Flow'
  BY <1>2, <1>7, FlowLine
<1>8. ASSUME ReaderDry \/ ReaderEOF \/ ReaderSendFails \/ ReaderSend PROVE Flow'
  BY <1>2, <1>8, FlowReader
<1>9. ASSUME ReaderEnds PROVE Flow'
  BY <1>2, <1>9, FlowReaderEnds
<1>10. ASSUME Coalescer PROVE Flow'
  BY <1>2, <1>10, FlowCoalescer
<1>11. Flow'
  BY <1>2, <1>4, <1>5, <1>6, <1>7, <1>8, <1>9, <1>10, PipeCases DEF Reader
<1> QED
  BY <1>1, <1>3, <1>11 DEF StreamInv

\* The stream's invariant holds in every behaviour.
LEMMA StreamHolds == ASSUME Splits \subseteq {"late"} PROVE Spec => []StreamInv
<1>1. StreamInv /\ [Next]_vars => StreamInv'
  BY StreamStep
<1> QED
  BY <1>1, StreamInit, PTL DEF Spec

(* Of a pane whose window no tool has split before the sync is answered:    *)
(* all that the client put on the wire is on the terminal once the bridge's *)
(* threads have ended with the sink still open.                             *)
THEOREM BurstArrives == ASSUME Splits \subseteq {"late"} PROVE Spec => []TailArrives
<1>1. StreamInv => TailArrives
  <2> SUFFICES ASSUME StreamInv, coalescer = "gone", sink = "open", phase = "live"
               PROVE  Len(screen) = sent
    BY DEF TailArrives
  <2>1. TypeOK /\ Placed /\ Threads /\ Caught
    BY DEF StreamInv, IInv, Flow
  <2>2. chan = <<>> /\ buf = <<>> /\ batch = <<>> /\ wire = <<>>
    BY <2>1 DEF Threads
  <2>3. Len(<<>>) = 0 /\ DOMAIN <<>> = {}
    BY NoItems
  <2>4. Len(screen) \in Nat /\ sent \in Nat
    BY <2>1, PipeTypes
  <2>5. Held = Len(screen)
    BY <2>2, <2>3, <2>4 DEF Held
  <2>6. Got = Len(screen)
    BY <2>2, <2>3, <2>4, <2>5 DEF Got, Shipped, Before
  <2>7. Got <= sent /\ \A n \in (Got + 1)..sent : FALSE
    BY <2>1, <2>2, <2>3 DEF Caught
  <2> QED
    BY <2>4, <2>6, <2>7
<1> QED
  BY <1>1, StreamHolds, PTL

(* The screen only grows, and by what the pane has printed. *)
LEMMA StreamShows ==
    ASSUME StreamInv, StreamInv', [Next]_vars
    PROVE  [Stream!PaneOutputs \/ Stream!Show]_<<printed["own"], screen>>
<1>1. TypeOK /\ TypeOK'
  BY DEF StreamInv, IInv
<1>2. CASE Coalescer
  <2>1. printed' = printed
    BY <1>2 DEF Coalescer, CoalescerFeed, CoalescerDue, CoalescerEnds, tmuxVars
  <2>2. \/ screen' = screen
        \/ screen' = screen \o buf
        \/ chan # <<>> /\ screen' = screen \o (buf \o Head(chan))
    BY <1>2 DEF Coalescer, CoalescerFeed, CoalescerDue, CoalescerEnds, Flush
  <2>3. Len(screen) <= Len(screen')
    <3>1. /\ screen \in ItemSeq /\ buf \in ItemSeq /\ (chan # <<>> => Head(chan) \in ItemSeq)
          /\ Len(screen) \in Nat /\ Len(buf) \in Nat
      BY <1>1, PipeTypes, HeadTail
    <3>2. ASSUME NEW more \in ItemSeq, screen' = screen \o more PROVE Len(screen) <= Len(screen')
      <4>1. Len(more) \in Nat /\ Len(screen \o more) = Len(screen) + Len(more)
        BY <3>1, ConcatProperties, LenProperties DEF ItemSeq
      <4> QED
        BY <3>1, <3>2, <4>1
    <3>3. chan # <<>> => buf \o Head(chan) \in ItemSeq
      BY <3>1, ConcatType DEF ItemSeq
    <3> QED
      BY <2>2, <3>1, <3>2, <3>3
  <2>4. screen' \in ItemSeq /\ RunFrom(screen', 0) /\ Len(screen') <= sent' /\ sent' <= printed'["own"]
    BY <1>1 DEF StreamInv, Flow, Screened, Sending, RunFrom, TypeOK
  <2>5. Len(screen') \in Nat /\ sent' \in Nat /\ printed'["own"] \in Nat /\ DOMAIN screen' = 1..Len(screen')
    BY <1>1, <2>4, LenProperties DEF ItemSeq, TypeOK, Panes
  <2>6. Len(screen') \in Len(screen)..printed["own"]
    BY <1>1, <2>1, <2>3, <2>4, <2>5, PipeTypes
  <2>7. screen' = Stream!Prefix(Len(screen'))
    <3>1. screen' = [i \in 1..Len(screen') |-> screen'[i]]
      BY <2>4, <2>5, LenProperties DEF ItemSeq
    <3>2. \A i \in 1..Len(screen') : screen'[i] = Stream!Item(i)
      BY <2>4, <2>5 DEF RunFrom, Item, Stream!Item
    <3> QED
      BY <3>1, <3>2 DEF Stream!Prefix
  <2> QED
    BY <2>1, <2>6, <2>7 DEF Stream!Show
<1>3. ASSUME NEW p \in Panes, TmuxPrint(p)
      PROVE  [Stream!PaneOutputs \/ Stream!Show]_<<printed["own"], screen>>
  <2>1. screen' = screen /\ printed' = [printed EXCEPT ![p] = @ + 1]
    BY <1>3 DEF TmuxPrint, sinkVars
  <2>2. printed'["own"] = printed["own"] + 1 \/ printed'["own"] = printed["own"]
    BY <1>1, <2>1 DEF TypeOK, Panes
  <2> QED
    BY <2>1, <2>2 DEF Stream!PaneOutputs
<1>4. CASE TmuxAnswer \/ Reader \/ Calm
  <2>1. printed' = printed /\ screen' = screen
    BY <1>4 DEF TmuxAnswer, Reader, ReaderLine, ReaderDry, ReaderEOF, ReaderSend, ReaderSendFails,
       ReaderEnds, Calm, tmuxVars, sinkVars
  <2> QED
    BY <2>1
<1> QED
  BY <1>1, <1>2, <1>3, <1>4, PipeCases

(* For the same panes: the bridge implements the stream that the terminal   *)
(* is promised, through the sync, the batches, the channel and the          *)
(* coalescer, whoever of the threads, the client and the sink ends first.   *)
THEOREM PipeImplementsStream == ASSUME Splits \subseteq {"late"} PROVE Spec => ShowsThePane
<1>1. Init => Stream!Init
  BY DEF Init, Stream!Init, Panes
<1>2. StreamInv /\ StreamInv' /\ [Next]_vars => [Stream!PaneOutputs \/ Stream!Show]_<<printed["own"], screen>>
  BY StreamShows
<1> QED
  BY <1>1, <1>2, StreamHolds, PTL DEF Spec, ShowsThePane, Stream!Spec

=============================================================================
