------------------------- MODULE CommandQueue_proofs -------------------------
(***************************************************************************)
(* What a command at the end of a queue, or the handling of its head, does *)
(* to where the queue leads and to the grab, for queues of any length.     *)
(***************************************************************************)
EXTENDS CommandQueue, SequenceTheorems, FiniteSetTheorems, TLAPS

(* Commands are well typed. *)
LEMMA CmdType ==
  ASSUME NEW Ws
  PROVE  /\ \A op \in CreateOps \cup {"Frame", "Destroy"}, w \in Ws : Cmd(op, w) \in Commands(Ws)
         /\ \A w \in Ws \cup {NoWin} : Cmd("SetGrab", w) \in Commands(Ws)
BY DEF Cmd, Commands

(* Only a SetGrab may name no window. *)
LEMMA CmdWindow ==
  ASSUME NEW Ws, NEW c \in Commands(Ws), c.op # "SetGrab"
  PROVE  c.win \in Ws
BY DEF Commands

(* A command at the end of the queue changes nothing before it. *)
LEMMA ShownBeforeAppend ==
  ASSUME NEW Ws, NEW q \in Seq(Commands(Ws)), NEW c \in Commands(Ws), NEW W, NEW w, NEW n \in 0 .. Len(q)
  PROVE  Shown(Append(q, c), W, w, n) <=> Shown(q, W, w, n)
BY DEF Shown

(* What the last command does to the screen. *)
LEMMA ShownAfterAppend ==
  ASSUME NEW Ws, NEW q \in Seq(Commands(Ws)), NEW c \in Commands(Ws), NEW W, NEW w
  PROVE  Shown(Append(q, c), W, w, Len(Append(q, c))) <=>
           Creates(c, w) \/ (Shown(q, W, w, Len(q)) /\ ~Destroys(c, w))
<1> DEFINE r == Append(q, c)  n == Len(q)
<1>1. Len(r) = n + 1 /\ n \in Nat /\ r[n + 1] = c /\ \A j \in 1 .. n : r[j] = q[j]
  OBVIOUS
<1>2. Creates(c, w) => ~Destroys(c, w)
  BY DEF Creates, Destroys, Paints, CreateOps
<1>3. ASSUME Shown(r, W, w, n + 1), ~Creates(c, w)
      PROVE  Shown(q, W, w, n) /\ ~Destroys(c, w)
  BY <1>1, <1>3 DEF Shown
<1>4. ASSUME Shown(q, W, w, n), ~Destroys(c, w)
      PROVE  Shown(r, W, w, n + 1)
  BY <1>1, <1>4 DEF Shown
<1>5. ASSUME Creates(c, w)
      PROVE  Shown(r, W, w, n + 1)
  <2>1. n + 1 \in 1 .. n + 1 /\ (n + 1) + 1 .. n + 1 = {}
    BY <1>1
  <2> QED BY <1>1, <1>5, <2>1 DEF Shown
<1> HIDE DEF r, n
<1> QED BY <1>1, <1>2, <1>3, <1>4, <1>5 DEF r, n

(* What handling the head of the queue does to the screen leaves the rest  *)
(* of the queue with the same effect.                                      *)
LEMMA ShownTail ==
  ASSUME NEW Ws, NEW q \in Seq(Commands(Ws)), q # <<>>, NEW W, NEW V, NEW w, NEW n \in 0 .. Len(q) - 1,
         w \in V <=> Creates(Head(q), w) \/ (w \in W /\ ~Destroys(Head(q), w))
  PROVE  Shown(Tail(q), V, w, n) <=> Shown(q, W, w, n + 1)
<1> DEFINE t == Tail(q)
<1>1. Len(t) = Len(q) - 1 /\ Len(q) \in Nat /\ Head(q) = q[1] /\ \A j \in 1 .. Len(t) : t[j] = q[j + 1]
  OBVIOUS
<1>2. Creates(q[1], w) => ~Destroys(q[1], w)
  BY DEF Creates, Destroys, Paints, CreateOps
<1> HIDE DEF t
<1>3. ASSUME Shown(t, V, w, n) PROVE Shown(q, W, w, n + 1)
  <2>1. CASE w \in V /\ \A j \in 1 .. n : ~Destroys(t[j], w)
    <3>1. \A j \in 2 .. n + 1 : ~Destroys(q[j], w)
      <4> SUFFICES ASSUME NEW j \in 2 .. n + 1 PROVE ~Destroys(q[j], w)
        OBVIOUS
      <4> j - 1 \in 1 .. n /\ t[j - 1] = q[j]
        BY <1>1
      <4> QED BY <2>1
    <3>2. CASE Creates(q[1], w)
      <4> 1 \in 1 .. n + 1 /\ 1 + 1 = 2
        OBVIOUS
      <4> QED BY <3>1, <3>2 DEF Shown
    <3>3. CASE w \in W /\ ~Destroys(q[1], w)
      BY <3>1, <3>3 DEF Shown
    <3> QED BY <1>1, <2>1, <3>2, <3>3
  <2>2. CASE \E i \in 1 .. n : Creates(t[i], w) /\ \A j \in i + 1 .. n : ~Destroys(t[j], w)
    <3> PICK i \in 1 .. n : Creates(t[i], w) /\ \A j \in i + 1 .. n : ~Destroys(t[j], w)
      BY <2>2
    <3>1. i + 1 \in 1 .. n + 1 /\ Creates(q[i + 1], w)
      BY <1>1
    <3>2. ASSUME NEW j \in (i + 1) + 1 .. n + 1 PROVE ~Destroys(q[j], w)
      <4> j - 1 \in i + 1 .. n /\ t[j - 1] = q[j]
        BY <1>1
      <4> QED OBVIOUS
    <3> QED BY <3>1, <3>2 DEF Shown
  <2> QED BY <1>3, <2>1, <2>2 DEF Shown
<1>4. ASSUME Shown(q, W, w, n + 1) PROVE Shown(t, V, w, n)
  <2>1. ASSUME NEW m \in 0 .. n, \A j \in m + 2 .. n + 1 : ~Destroys(q[j], w)
        PROVE  \A j \in m + 1 .. n : ~Destroys(t[j], w)
    <3> SUFFICES ASSUME NEW j \in m + 1 .. n PROVE ~Destroys(t[j], w)
      OBVIOUS
    <3> j + 1 \in m + 2 .. n + 1 /\ t[j] = q[j + 1]
      BY <1>1
    <3> QED BY <2>1
  <2>2. CASE w \in W /\ \A j \in 1 .. n + 1 : ~Destroys(q[j], w)
    <3>1. w \in V
      BY <1>1, <2>2
    <3>2. \A j \in 0 + 1 .. n : ~Destroys(t[j], w)
      <4> 0 \in 0 .. n /\ \A j \in 0 + 2 .. n + 1 : j \in 1 .. n + 1
        OBVIOUS
      <4> QED BY <2>1, <2>2
    <3> QED BY <3>1, <3>2 DEF Shown
  <2>3. CASE \E i \in 1 .. n + 1 : Creates(q[i], w) /\ \A j \in i + 1 .. n + 1 : ~Destroys(q[j], w)
    <3> PICK i \in 1 .. n + 1 : Creates(q[i], w) /\ \A j \in i + 1 .. n + 1 : ~Destroys(q[j], w)
      BY <2>3
    <3>1. \A j \in (i - 1) + 1 .. n : ~Destroys(t[j], w)
      BY <2>1, i - 1 \in 0 .. n, (i - 1) + 2 = i + 1
    <3>2. CASE i = 1
      <4> w \in V
        BY <1>1, <3>2
      <4> QED BY <3>1, <3>2 DEF Shown
    <3>3. CASE i > 1
      <4> i - 1 \in 1 .. n /\ t[i - 1] = q[i]
        BY <1>1, <3>3
      <4> QED BY <3>1 DEF Shown
    <3> QED BY <3>2, <3>3
  <2> QED BY <1>4, <2>2, <2>3 DEF Shown
<1> QED BY <1>3, <1>4 DEF t

(* Appending a command that creates only what is not there, and paints     *)
(* only what is there, moves the target from C to D.                       *)
LEMMA LeadsAppend ==
  ASSUME NEW Ws, NEW q \in Seq(Commands(Ws)), NEW c \in Commands(Ws), NEW W, NEW C, NEW D,
         Leads(Ws, q, W, C),
         \A w \in Ws : Creates(c, w) => w \notin C,
         \A w \in Ws : Paints(c, w) => w \in C,
         \A w \in Ws : w \in D <=> Creates(c, w) \/ (w \in C /\ ~Destroys(c, w))
  PROVE  Leads(Ws, Append(q, c), W, D)
<1> DEFINE r == Append(q, c)
<1>1. Len(r) = Len(q) + 1 /\ Len(q) \in Nat /\ r[Len(r)] = c /\ \A j \in 1 .. Len(q) : r[j] = q[j]
  OBVIOUS
<1>2. \A w \in Ws : Shown(r, W, w, Len(r)) <=> w \in D
  BY ShownAfterAppend DEF Leads
<1>3. ASSUME NEW i \in 1 .. Len(r), NEW w \in Ws PROVE Fits(r, W, i, w)
  <2>1. i - 1 \in 0 .. Len(q)
    BY <1>1
  <2>2. Shown(r, W, w, i - 1) <=> Shown(q, W, w, i - 1)
    BY <2>1, ShownBeforeAppend
  <2>3. CASE i \in 1 .. Len(q)
    <3>1. Fits(q, W, i, w) /\ r[i] = q[i]
      BY <1>1, <2>3 DEF Leads
    <3> QED BY <2>2, <3>1 DEF Fits
  <2>4. CASE i = Len(r)
    <3>1. i - 1 = Len(q) /\ r[i] = c
      BY <1>1, <2>4
    <3>2. Shown(q, W, w, Len(q)) <=> w \in C
      BY DEF Leads
    <3> QED BY <2>2, <3>1, <3>2 DEF Fits
  <2> QED BY <1>1, <2>3, <2>4
<1> HIDE DEF r
<1>4. Leads(Ws, r, W, D)
  BY <1>2, <1>3 DEF Leads
<1> QED BY <1>4 DEF r

(* Handling the head of the queue moves the screen and keeps the target. *)
LEMMA LeadsTail ==
  ASSUME NEW Ws, NEW q \in Seq(Commands(Ws)), q # <<>>, NEW W, NEW V, NEW C,
         Leads(Ws, q, W, C),
         \A w \in Ws : w \in V <=> Creates(Head(q), w) \/ (w \in W /\ ~Destroys(Head(q), w))
  PROVE  Leads(Ws, Tail(q), V, C)
<1> DEFINE t == Tail(q)
<1>1. Len(t) = Len(q) - 1 /\ Len(q) \in Nat \ {0} /\ \A j \in 1 .. Len(t) : t[j] = q[j + 1]
  OBVIOUS
<1>2. ASSUME NEW w \in Ws PROVE Shown(t, V, w, Len(t)) <=> w \in C
  <2>1. Len(t) \in 0 .. Len(q) - 1 /\ Len(t) + 1 = Len(q)
    BY <1>1
  <2>2. Shown(t, V, w, Len(t)) <=> Shown(q, W, w, Len(t) + 1)
    BY <2>1, ShownTail
  <2> QED BY <2>1, <2>2 DEF Leads
<1>3. ASSUME NEW i \in 1 .. Len(t), NEW w \in Ws PROVE Fits(t, V, i, w)
  <2>1. i - 1 \in 0 .. Len(q) - 1 /\ (i - 1) + 1 = i /\ i + 1 \in 1 .. Len(q) /\ (i + 1) - 1 = i
    BY <1>1
  <2>2. Shown(t, V, w, i - 1) <=> Shown(q, W, w, i)
    BY <2>1, ShownTail
  <2>3. Fits(q, W, i + 1, w) /\ t[i] = q[i + 1]
    BY <1>1, <2>1 DEF Leads
  <2> QED BY <2>1, <2>2, <2>3 DEF Fits
<1> HIDE DEF t
<1>4. Leads(Ws, t, V, C)
  BY <1>2, <1>3 DEF Leads
<1> QED BY <1>4 DEF t

(* A grab command is nothing to the screen. *)
LEMMA LeadsSetGrab ==
  ASSUME NEW Ws, NEW q \in Seq(Commands(Ws)), NEW W, NEW C, Leads(Ws, q, W, C), NEW w \in Ws \cup {NoWin}
  PROVE  Leads(Ws, Append(q, Cmd("SetGrab", w)), W, C)
<1> DEFINE c == Cmd("SetGrab", w)
<1>1. c \in Commands(Ws)
  BY CmdType
<1>2. c.op = "SetGrab"
  BY DEF Cmd
<1>3. \A v \in Ws : ~Creates(c, v) /\ ~Destroys(c, v) /\ ~Paints(c, v)
  BY <1>2 DEF Creates, Destroys, Paints, CreateOps
<1> HIDE DEF c
<1>4. Leads(Ws, Append(q, c), W, C)
  BY <1>1, <1>3, LeadsAppend
<1> QED BY <1>4 DEF c

(* A frame for a window that will be there. *)
LEMMA LeadsFrame ==
  ASSUME NEW Ws, NEW q \in Seq(Commands(Ws)), NEW W, NEW C, Leads(Ws, q, W, C), NEW w \in Ws, w \in C
  PROVE  Leads(Ws, Append(q, Cmd("Frame", w)), W, C)
<1> DEFINE c == Cmd("Frame", w)
<1>1. c \in Commands(Ws)
  BY CmdType
<1>2. c.op = "Frame" /\ c.win = w
  BY DEF Cmd
<1>3. \A v \in Ws : ~Creates(c, v) /\ ~Destroys(c, v) /\ (Paints(c, v) => v \in C)
  BY <1>2 DEF Creates, Destroys, Paints, CreateOps
<1> HIDE DEF c
<1>4. Leads(Ws, Append(q, c), W, C)
  BY <1>1, <1>2, <1>3, LeadsAppend
<1> QED BY <1>4 DEF c

(* The creation of a window that will not be there. *)
LEMMA LeadsCreate ==
  ASSUME NEW Ws, NEW q \in Seq(Commands(Ws)), NEW W, NEW C, Leads(Ws, q, W, C),
         NEW w \in Ws, w \notin C, NEW op \in CreateOps
  PROVE  Leads(Ws, Append(q, Cmd(op, w)), W, C \cup {w})
<1> DEFINE c == Cmd(op, w)
<1>1. c \in Commands(Ws)
  BY CmdType
<1>2. c.op \in CreateOps /\ c.win = w
  BY DEF Cmd
<1>3. \A v \in Ws : (Creates(c, v) <=> v = w) /\ ~Destroys(c, v) /\ ~Paints(c, v)
  BY <1>2 DEF Creates, Destroys, Paints, CreateOps
<1> HIDE DEF c
<1>4. Leads(Ws, Append(q, c), W, C \cup {w})
  BY <1>1, <1>3, LeadsAppend
<1> QED BY <1>4 DEF c

(* A window's end, which may find no window. *)
LEMMA LeadsDestroy ==
  ASSUME NEW Ws, NEW q \in Seq(Commands(Ws)), NEW W, NEW C, Leads(Ws, q, W, C), NEW w \in Ws
  PROVE  Leads(Ws, Append(q, Cmd("Destroy", w)), W, C \ {w})
<1> DEFINE c == Cmd("Destroy", w)
<1>1. c \in Commands(Ws)
  BY CmdType
<1>2. c.op = "Destroy" /\ c.win = w
  BY DEF Cmd
<1>3. \A v \in Ws : ~Creates(c, v) /\ (Destroys(c, v) <=> v = w) /\ ~Paints(c, v)
  BY <1>2 DEF Creates, Destroys, Paints, CreateOps
<1> HIDE DEF c
<1>4. Leads(Ws, Append(q, c), W, C \ {w})
  BY <1>1, <1>3, LeadsAppend
<1> QED BY <1>4 DEF c

(* The changes in a queue are finitely many. *)
LEMMA ChangesFinite ==
  ASSUME NEW Ws, NEW q \in Seq(Commands(Ws)), NEW W, NEW w
  PROVE  IsFiniteSet(Changes(q, W, w)) /\ Cardinality(Changes(q, W, w)) \in Nat
<1>1. IsFiniteSet(1 .. Len(q))
  BY FS_Interval
<1>2. Changes(q, W, w) \in SUBSET (1 .. Len(q))
  BY DEF Changes
<1> QED BY <1>1, <1>2, FS_Subset, FS_CardinalityType

(* A command at the end of the queue is one more change, or none. *)
LEMMA ChangesAppend ==
  ASSUME NEW Ws, NEW q \in Seq(Commands(Ws)), NEW c \in Commands(Ws), NEW W, NEW C, NEW w \in Ws,
         Leads(Ws, q, W, C)
  PROVE  Cardinality(Changes(Append(q, c), W, w)) =
           IF Creates(c, w) \/ (Destroys(c, w) /\ w \in C)
           THEN Cardinality(Changes(q, W, w)) + 1 ELSE Cardinality(Changes(q, W, w))
<1> DEFINE r == Append(q, c)
           old == Changes(q, W, w)
           new == Changes(r, W, w)
           n == Len(q) + 1
           changes == Creates(c, w) \/ (Destroys(c, w) /\ w \in C)
<1>1. Len(r) = n /\ n \in Nat /\ n - 1 = Len(q) /\ r[n] = c /\ \A j \in 1 .. Len(q) : r[j] = q[j]
  OBVIOUS
<1>2. ASSUME NEW i \in 1 .. n PROVE Shown(r, W, w, i - 1) <=> Shown(q, W, w, i - 1)
  BY <1>1, <1>2, i - 1 \in 0 .. Len(q), ShownBeforeAppend
<1> HIDE DEF r
<1>3. ASSUME NEW i \in 1 .. Len(q) PROVE i \in new <=> i \in old
  BY <1>1, <1>2, <1>3 DEF Changes
<1>4. n \in new <=> changes
  <2>1. n \in 1 .. n /\ (Shown(q, W, w, n - 1) <=> w \in C)
    BY <1>1 DEF Leads
  <2> QED BY <1>1, <1>2, <2>1 DEF Changes
<1>5. old \subseteq 1 .. Len(q) /\ new \subseteq 1 .. n /\ n \notin 1 .. Len(q)
      /\ \A i \in 1 .. n : i = n \/ i \in 1 .. Len(q)
  BY <1>1 DEF Changes
<1>6. IsFiniteSet(old)
  BY ChangesFinite
<1> HIDE DEF old, new, n, changes
<1>7. CASE changes
  <2>1. new = old \cup {n} /\ n \notin old
    BY <1>3, <1>4, <1>5, <1>7
  <2>2. Cardinality(new) = Cardinality(old) + 1
    BY <1>6, <2>1, FS_AddElement
  <2> QED BY <1>7, <2>2 DEF r, old, new, changes
<1>8. CASE ~changes
  <2>1. new = old
    BY <1>3, <1>4, <1>5, <1>8
  <2> QED BY <1>8, <2>1 DEF r, old, new, changes
<1> QED BY <1>7, <1>8

(* A command that is no change. *)
LEMMA ChangesPlainAppend ==
  ASSUME NEW Ws, NEW q \in Seq(Commands(Ws)), NEW c \in Commands(Ws), NEW W, NEW C, NEW w \in Ws,
         Leads(Ws, q, W, C), ~Creates(c, w), ~Destroys(c, w)
  PROVE  Cardinality(Changes(Append(q, c), W, w)) = Cardinality(Changes(q, W, w))
<1> DEFINE new == Cardinality(Changes(Append(q, c), W, w))
           old == Cardinality(Changes(q, W, w))
<1>1. new = IF Creates(c, w) \/ (Destroys(c, w) /\ w \in C) THEN old + 1 ELSE old
  BY ChangesAppend
<1> HIDE DEF new, old
<1>2. new = old
  BY <1>1
<1> QED BY <1>2 DEF new, old

(* The head of the queue is one change less once handled, if it was one. *)
LEMMA ChangesTail ==
  ASSUME NEW Ws, NEW q \in Seq(Commands(Ws)), q # <<>>, NEW W, NEW V, NEW w,
         w \in V <=> Creates(Head(q), w) \/ (w \in W /\ ~Destroys(Head(q), w))
  PROVE  LET inTail == Cardinality(Changes(Tail(q), V, w))
             inAll  == Cardinality(Changes(q, W, w))
         IN  IF Creates(Head(q), w) \/ (Destroys(Head(q), w) /\ w \in W)
             THEN inAll > 0 /\ inTail = inAll - 1 ELSE inTail = inAll
<1> DEFINE t == Tail(q)
           inTail == Changes(t, V, w)
           inAll == Changes(q, W, w)
           rest == inAll \ {1}
           f == [i \in inTail |-> i + 1]
<1>1. Len(t) = Len(q) - 1 /\ Len(q) \in Nat \ {0} /\ Head(q) = q[1] /\ \A j \in 1 .. Len(t) : t[j] = q[j + 1]
  OBVIOUS
<1>2. ASSUME NEW i \in 1 .. Len(t) PROVE i \in inTail <=> i + 1 \in inAll
  <2>1. i - 1 \in 0 .. Len(q) - 1 /\ (i - 1) + 1 = i /\ (i + 1) - 1 = i /\ i + 1 \in 1 .. Len(q)
    BY <1>1
  <2>2. Shown(t, V, w, i - 1) <=> Shown(q, W, w, i)
    BY <2>1, ShownTail
  <2> QED BY <1>1, <2>1, <2>2 DEF Changes
<1>3. 1 \in inAll <=> Creates(Head(q), w) \/ (Destroys(Head(q), w) /\ w \in W)
  <2>1. 1 \in 1 .. Len(q) /\ (Shown(q, W, w, 1 - 1) <=> w \in W)
    BY <1>1 DEF Shown
  <2> QED BY <1>1, <2>1 DEF Changes
<1>4. inTail \subseteq 1 .. Len(t) /\ inAll \subseteq 1 .. Len(q)
  BY DEF Changes
<1>5. IsFiniteSet(inAll) /\ Cardinality(inAll) \in Nat /\ IsFiniteSet(inTail)
  <2>1. t \in Seq(Commands(Ws))
    OBVIOUS
  <2> HIDE DEF t
  <2> QED BY <2>1, ChangesFinite
<1> HIDE DEF t, inTail, inAll
<1>6. ExistsBijection(inTail, rest)
  <2>1. f \in [inTail -> rest]
    BY <1>1, <1>2, <1>4
  <2>2. \A i, j \in inTail : f[i] = f[j] => i = j
    BY <1>4
  <2>3. ASSUME NEW j \in rest PROVE \E i \in inTail : f[i] = j
    <3>1. j - 1 \in 1 .. Len(t) /\ (j - 1) + 1 = j
      BY <1>1, <1>4
    <3>2. j - 1 \in inTail
      BY <1>2, <3>1
    <3> QED BY <3>1, <3>2
  <2> HIDE DEF f
  <2>4. f \in Bijection(inTail, rest)
    BY <2>1, <2>2, <2>3 DEF Bijection, Injection, Surjection, IsInjective
  <2> QED BY <2>4 DEF ExistsBijection
<1>7. Cardinality(rest) = Cardinality(inTail)
  BY <1>5, <1>6, FS_Bijection
<1>8. Cardinality(rest) = IF 1 \in inAll THEN Cardinality(inAll) - 1 ELSE Cardinality(inAll)
  BY <1>5, FS_RemoveElement
<1>9. 1 \in inAll => Cardinality(inAll) > 0
  <2>1. ASSUME 1 \in inAll PROVE Cardinality(rest) \in Nat
    BY <1>5, FS_RemoveElement, FS_CardinalityType
  <2> QED BY <1>5, <1>8, <2>1
<1>10. IF 1 \in inAll THEN Cardinality(inAll) > 0 /\ Cardinality(inTail) = Cardinality(inAll) - 1
       ELSE Cardinality(inTail) = Cardinality(inAll)
  BY <1>7, <1>8, <1>9
<1> QED BY <1>3, <1>10 DEF t, inTail, inAll

(* Popups may come, other records may go. *)
LEMMA HeldRecords ==
  ASSUME NEW Ws, NEW q, NEW G, NEW L, NEW P, NEW M, NEW Q, Held(Ws, q, G, L, P), L \cap P \subseteq M, P \subseteq Q
  PROVE  Held(Ws, q, G, M, Q)
BY DEF Held

(* A command may come with the end of the popups it destroys. *)
LEMMA HeldAppend ==
  ASSUME NEW Ws, NEW q \in Seq(Commands(Ws)), NEW c \in Commands(Ws), NEW G, NEW L, NEW M, NEW P,
         Held(Ws, q, G, L, P),
         \A w \in Ws : Grabs(c, w) => w \in M \cap P,
         \A w \in L \cap P : w \in M \/ Destroys(c, w)
  PROVE  Held(Ws, Append(q, c), G, M, P)
<1> DEFINE r == Append(q, c)
<1>1. Len(r) = Len(q) + 1 /\ Len(q) \in Nat /\ r[Len(r)] = c /\ \A j \in 1 .. Len(q) : r[j] = q[j]
  OBVIOUS
<1> HIDE DEF r
<1>2. ASSUME NEW w \in P, NEW n \in 0 .. Len(q), w \in L \/ TakenAway(q, w, n)
      PROVE  w \in M \/ TakenAway(r, w, n)
  <2>1. CASE w \in L /\ w \notin M
    <3>1. Destroys(c, w) /\ Len(r) \in n + 1 .. Len(r)
      BY <1>1, <2>1
    <3> QED BY <1>1, <3>1 DEF TakenAway
  <2>2. CASE TakenAway(q, w, n)
    <3>1. PICK j \in n + 1 .. Len(q) : Destroys(q[j], w) \/ (q[j].op = "SetGrab" /\ q[j].win # w)
      BY <2>2 DEF TakenAway
    <3>2. j \in 1 .. Len(q) /\ j \in n + 1 .. Len(r)
      BY <1>1
    <3> QED BY <1>1, <3>1, <3>2 DEF TakenAway
  <2> QED BY <1>2, <2>1, <2>2
<1>3. G # NoWin => G \in P /\ (G \in M \/ TakenAway(r, G, 0))
  BY <1>1, <1>2 DEF Held
<1>4. ASSUME NEW i \in 1 .. Len(r), NEW w \in Ws, Grabs(r[i], w)
      PROVE  w \in P /\ (w \in M \/ TakenAway(r, w, i))
  <2>1. CASE i \in 1 .. Len(q)
    <3>1. Grabs(q[i], w)
      BY <1>1, <1>4, <2>1 DEF Grabs
    <3>2. w \in P /\ (w \in L \/ TakenAway(q, w, i))
      BY <2>1, <3>1 DEF Held
    <3> QED BY <1>1, <1>2, <2>1, <3>2
  <2>2. CASE i = Len(r)
    BY <1>1, <1>4, <2>2
  <2> QED BY <1>1, <2>1, <2>2
<1>5. Held(Ws, r, G, M, P)
  BY <1>3, <1>4 DEF Held
<1> QED BY <1>5 DEF r

(* AppKit handles the head of the queue. *)
LEMMA HeldTail ==
  ASSUME NEW Ws, NEW q \in Seq(Commands(Ws)), q # <<>>, NEW G \in Ws \cup {NoWin}, NEW H, NEW L, NEW P,
         Held(Ws, q, G, L, P),
         H = IF Head(q).op = "SetGrab" THEN Head(q).win
             ELSE IF Destroys(Head(q), G) THEN NoWin ELSE G
  PROVE  Held(Ws, Tail(q), H, L, P)
<1> DEFINE t == Tail(q)
<1>1. Len(t) = Len(q) - 1 /\ Len(q) \in Nat \ {0} /\ Head(q) = q[1] /\ q[1] \in Commands(Ws)
      /\ \A j \in 1 .. Len(t) : t[j] = q[j + 1]
  OBVIOUS
<1> HIDE DEF t
<1>2. ASSUME NEW w, NEW n \in 0 .. Len(t), TakenAway(q, w, n + 1)
      PROVE  TakenAway(t, w, n)
  <2>1. PICK j \in n + 2 .. Len(q) : Destroys(q[j], w) \/ (q[j].op = "SetGrab" /\ q[j].win # w)
    BY <1>2, (n + 1) + 1 = n + 2 DEF TakenAway
  <2>2. j - 1 \in n + 1 .. Len(t) /\ t[j - 1] = q[j]
    BY <1>1
  <2> QED BY <2>1, <2>2 DEF TakenAway
<1>3. ASSUME H # NoWin PROVE H \in P /\ (H \in L \/ TakenAway(t, H, 0))
  <2>1. CASE q[1].op = "SetGrab"
    <3>1. H = q[1].win /\ H \in Ws
      BY <1>1, <1>3, <2>1 DEF Commands, CreateOps
    <3>2. H \in P /\ (H \in L \/ TakenAway(q, H, 1))
      BY <1>1, <2>1, <3>1 DEF Held, Grabs
    <3> QED BY <1>1, <1>2, <3>2
  <2>2. CASE q[1].op # "SetGrab"
    <3>1. H = G /\ ~Destroys(q[1], G)
      BY <1>1, <1>3, <2>2
    <3>2. G \in P /\ (G \in L \/ TakenAway(q, G, 0))
      BY <1>3, <3>1 DEF Held
    <3>3. ASSUME TakenAway(q, G, 0) PROVE TakenAway(q, G, 1)
      <4>1. PICK j \in 1 .. Len(q) : Destroys(q[j], G) \/ (q[j].op = "SetGrab" /\ q[j].win # G)
        BY <3>3 DEF TakenAway
      <4>2. j # 1
        BY <2>2, <3>1, <4>1
      <4>3. j \in 1 + 1 .. Len(q)
        BY <1>1, <4>2
      <4> QED BY <4>1, <4>3 DEF TakenAway
    <3> QED BY <1>1, <1>2, <3>1, <3>2, <3>3
  <2> QED BY <2>1, <2>2
<1>4. ASSUME NEW i \in 1 .. Len(t), NEW w \in Ws, Grabs(t[i], w)
      PROVE  w \in P /\ (w \in L \/ TakenAway(t, w, i))
  <2>1. i + 1 \in 1 .. Len(q) /\ q[i + 1] = t[i] /\ i \in 0 .. Len(t)
    BY <1>1
  <2>2. w \in P /\ (w \in L \/ TakenAway(q, w, i + 1))
    BY <1>4, <2>1 DEF Held
  <2> QED BY <1>2, <2>1, <2>2
<1>5. Held(Ws, t, H, L, P)
  BY <1>3, <1>4 DEF Held
<1> QED BY <1>5 DEF t

(* A command that names no window to grab. *)
LEMMA HeldPlainAppend ==
  ASSUME NEW Ws, NEW q \in Seq(Commands(Ws)), NEW G, NEW L, NEW P, Held(Ws, q, G, L, P),
         NEW op \in CreateOps \cup {"Frame", "Destroy"}, NEW v \in Ws
  PROVE  Held(Ws, Append(q, Cmd(op, v)), G, L, P)
<1> DEFINE c == Cmd(op, v)
<1>1. c \in Commands(Ws)
  BY CmdType
<1>2. \A w \in Ws : ~Grabs(c, w)
  BY DEF Cmd, CreateOps, Grabs
<1> HIDE DEF c
<1>3. Held(Ws, Append(q, c), G, L, P)
  BY <1>1, <1>2, HeldAppend
<1> QED BY <1>3 DEF c

(* A command that grabs only what will be there. *)
LEMMA AnchoredAppend ==
  ASSUME NEW Ws, NEW q \in Seq(Commands(Ws)), NEW c \in Commands(Ws), NEW W, NEW G,
         Anchored(Ws, q, W, G),
         \A w \in Ws : Grabs(c, w) => Shown(q, W, w, Len(q))
  PROVE  Anchored(Ws, Append(q, c), W, G)
<1> DEFINE r == Append(q, c)
<1>1. Len(r) = Len(q) + 1 /\ Len(q) \in Nat /\ r[Len(r)] = c /\ \A j \in 1 .. Len(q) : r[j] = q[j]
  OBVIOUS
<1>2. ASSUME NEW i \in 1 .. Len(r), NEW w \in Ws, Grabs(r[i], w) PROVE Shown(r, W, w, i - 1)
  <2>1. i - 1 \in 0 .. Len(q)
    BY <1>1
  <2>2. Shown(r, W, w, i - 1) <=> Shown(q, W, w, i - 1)
    BY <2>1, ShownBeforeAppend
  <2>3. CASE i \in 1 .. Len(q)
    <3>1. Grabs(q[i], w)
      BY <1>1, <1>2, <2>3
    <3> QED BY <2>2, <2>3, <3>1 DEF Anchored
  <2>4. CASE i = Len(r)
    <3>1. i - 1 = Len(q) /\ Grabs(c, w)
      BY <1>1, <1>2, <2>4
    <3> QED BY <2>2, <3>1
  <2> QED BY <1>1, <2>3, <2>4
<1> HIDE DEF r
<1>3. Anchored(Ws, r, W, G)
  BY <1>2 DEF Anchored
<1> QED BY <1>3 DEF r

(* AppKit handles the head of the queue: a Destroy ends the grab with the  *)
(* window.                                                                 *)
LEMMA AnchoredTail ==
  ASSUME NEW Ws, NEW q \in Seq(Commands(Ws)), q # <<>>, NEW W, NEW V, NEW G \in Ws \cup {NoWin}, NEW H,
         Anchored(Ws, q, W, G),
         \A w \in Ws : w \in V <=> Creates(Head(q), w) \/ (w \in W /\ ~Destroys(Head(q), w)),
         H = IF Head(q).op = "SetGrab" THEN Head(q).win
             ELSE IF Destroys(Head(q), G) THEN NoWin ELSE G
  PROVE  Anchored(Ws, Tail(q), V, H)
<1> DEFINE t == Tail(q)
<1>1. Len(t) = Len(q) - 1 /\ Len(q) \in Nat \ {0} /\ Head(q) = q[1] /\ q[1] \in Commands(Ws)
      /\ \A j \in 1 .. Len(t) : t[j] = q[j + 1]
  OBVIOUS
<1>2. ASSUME NEW i \in 1 .. Len(t), NEW w \in Ws, Grabs(t[i], w) PROVE Shown(t, V, w, i - 1)
  <2>1. i - 1 \in 0 .. Len(q) - 1 /\ (i - 1) + 1 = i /\ i + 1 \in 1 .. Len(q) /\ (i + 1) - 1 = i
    BY <1>1
  <2>2. Grabs(q[i + 1], w)
    BY <1>1, <1>2
  <2>3. Shown(q, W, w, i)
    BY <2>1, <2>2 DEF Anchored
  <2>4. Shown(t, V, w, i - 1) <=> Shown(q, W, w, i)
    BY <2>1, ShownTail
  <2> QED BY <2>3, <2>4
<1>3. ASSUME H # NoWin PROVE H \in V
  <2>1. CASE q[1].op = "SetGrab"
    <3>1. H = q[1].win /\ H \in Ws
      BY <1>1, <1>3, <2>1 DEF Commands, CreateOps
    <3>2. Shown(q, W, H, 1 - 1)
      BY <1>1, <2>1, <3>1 DEF Anchored, Grabs
    <3>3. H \in W
      BY <3>2 DEF Shown
    <3>4. ~Destroys(q[1], H)
      BY <2>1 DEF Destroys
    <3> QED BY <1>1, <3>1, <3>3, <3>4
  <2>2. CASE q[1].op # "SetGrab"
    <3>1. H = G /\ ~Destroys(q[1], G) /\ G \in Ws
      BY <1>1, <1>3, <2>2
    <3> QED BY <1>1, <1>3, <3>1 DEF Anchored
  <2> QED BY <2>1, <2>2
<1> HIDE DEF t
<1>4. Anchored(Ws, t, V, H)
  BY <1>2, <1>3 DEF Anchored
<1> QED BY <1>4 DEF t

(* A command that names no window to grab. *)
LEMMA AnchoredPlainAppend ==
  ASSUME NEW Ws, NEW q \in Seq(Commands(Ws)), NEW W, NEW G, Anchored(Ws, q, W, G),
         NEW op \in CreateOps \cup {"Frame", "Destroy"}, NEW v \in Ws
  PROVE  Anchored(Ws, Append(q, Cmd(op, v)), W, G)
<1> DEFINE c == Cmd(op, v)
<1>1. c \in Commands(Ws)
  BY CmdType
<1>2. \A w \in Ws : ~Grabs(c, w)
  BY DEF Cmd, CreateOps, Grabs
<1> HIDE DEF c
<1>3. Anchored(Ws, Append(q, c), W, G)
  BY <1>1, <1>2, AnchoredAppend
<1> QED BY <1>3 DEF c
=============================================================================
