--------------------------- MODULE SessionProofs ---------------------------
(***************************************************************************)
(* Proofs about Session: the reference counts of the debug sessions and    *)
(* the list, for any number of processes, threads, sessions, terminations  *)
(* and nested calls.                                                       *)
(*                                                                         *)
(* The frames of a thread are numbered from the outermost one (Outer), so  *)
(* that a call and a return leave the numbers of the frames below alone:   *)
(* every action but ExitSelf changes the holders of an item at one place.  *)
(***************************************************************************)
EXTENDS Session, SequenceTheorems, FiniteSetTheorems, TLAPS

SessionType ==
  /\ item \in [Items -> ItemType]
  /\ list \in Seq(Items)
  /\ alive \subseteq Procs
  /\ stack \in [Actors -> Seq(FrameType)]
  /\ deletes \in [Items -> Nat] /\ leaked \in [Items -> Nat]
  /\ terms \in 0 .. MaxTerms
  /\ wild \in BOOLEAN

\* What an item is before, during and after its session.
ItemInv ==
  \A i \in Items :
    /\ item[i].st = "unused" => item[i] = Unused /\ deletes[i] = 0 /\ leaked[i] = 0
    /\ item[i].st # "unused" => item[i].debugger \in Procs /\ item[i].debugged \in Procs
    /\ item[i].active => item[i].chan # "none" /\ deletes[i] = 0

\* The steps that work on an item, and those of dbg_delayed_term_event.
Working == {"chan_set", "activate", "filter", "chan", "put", "put0", "deact",
            "release", "unlist", "unlist0", "kill", "report"}
WorkerPC == {"chan", "deact", "release", "unlist", "unlist0", "put", "put0", "done"}

\* What a frame of thread t knows of its item.
FrameOK(t, f) ==
  /\ f.pc \in Working => f.item # NoItem
  /\ f.item # NoItem => item[f.item].st # "unused"
  /\ f.item # NoItem /\ f.pc # "chan_set" => item[f.item].chan # "none"
  /\ f.pc \in {"release", "unlist", "unlist0"} => ~item[f.item].active
  /\ f.pc = "unlist0" => deletes[f.item] > 1
  /\ t \in Workers => f.pc \in WorkerPC /\ f.next = "done"
FrameInv == \A t \in Actors : \A d \in 1 .. Len(stack[t]) : FrameOK(t, Outer(stack[t], d))

\* dbg_attach_call has the new item for itself until it has activated it.
CreateInv ==
  \A t \in Actors : \A d \in 1 .. Len(stack[t]) :
    Outer(stack[t], d).pc \in {"chan_set", "activate"} =>
      LET i == Outer(stack[t], d).item
      IN  ~item[i].active /\ deletes[i] = 0 /\ Holders(i) = {<<t, d>>}

\* ref_count counts the holders.
CountInv == RefsExact /\ \A i \in Items : IsFiniteSet(Holders(i))

\* An item whose count has reached zero after one dbg_delete_item has no
\* holder left, before it is destroyed and after.
Dead(i) ==
  \/ item[i].st = "gone"
  \/ \E t \in Actors : \E d \in 1 .. Len(stack[t]) :
       Outer(stack[t], d).pc = "put0" /\ Outer(stack[t], d).item = i
DeadInv ==
  \A i \in Items : Dead(i) /\ deletes[i] <= 1 => Holders(i) = {} /\ deletes[i] = 1

\* The list has an item once, and those that are destroyed not at all.
ListInv ==
  /\ \A k \in 1 .. Len(list) : item[list[k]].st # "unused"
  /\ \A k, l \in 1 .. Len(list) : list[k] = list[l] => k = l
  /\ \A i \in Items : item[i].st = "gone" /\ deletes[i] <= 1 =>
       \A k \in 1 .. Len(list) : list[k] # i

SessionInv ==
  /\ SessionType /\ ItemInv /\ FrameInv
  /\ CreateInv /\ CountInv /\ DeadInv /\ ListInv

-----------------------------------------------------------------------------
\* Stacks.

Kept(t, n) ==
  /\ n \in Nat /\ n >= 1
  /\ \A u \in Actors : u # t => stack'[u] = stack[u]
  /\ Len(stack[t]) \in Nat /\ Len(stack[t]) <= n /\ Len(stack[t]) >= n - 1
  /\ \A d \in 1 .. n - 1 : Outer(stack'[t], d) = Outer(stack[t], d)

\* Frame n, the innermost one of t or the next one, becomes f; the thread may
\* also call dbg_process_terminated from there.
Moved(t, n, f) ==
  /\ Kept(t, n)
  /\ Len(stack'[t]) \in Nat /\ Len(stack'[t]) >= n
  /\ Outer(stack'[t], n) = f
  /\ \A d \in n + 1 .. Len(stack'[t]) :
       t \notin Workers /\ Outer(stack'[t], d).pc = "loop" /\ Outer(stack'[t], d).item = NoItem

\* Frame n returns.
Popped(t, n) == Kept(t, n) /\ Len(stack[t]) = n /\ Len(stack'[t]) = n - 1

LEMMA TopIs ==
  ASSUME SessionType, NEW t \in Actors, stack[t] # << >>
  PROVE  /\ Len(stack[t]) \in Nat /\ Len(stack[t]) >= 1
         /\ Top(t) = Outer(stack[t], Len(stack[t])) /\ Top(t) \in FrameType
<1>1. stack[t] \in Seq(FrameType)
  BY DEF SessionType
<1>2. Head(stack[t]) \in FrameType /\ Head(stack[t]) = stack[t][1]
  BY <1>1, HeadTailProperties
<1>3. Len(stack[t]) \in Nat /\ Len(stack[t]) >= 1
  BY <1>1
<1> QED BY <1>2, <1>3 DEF Top, Outer

LEMMA PutMoves ==
  ASSUME SessionType, NEW t \in Actors, stack[t] # << >>, NEW f \in FrameType,
         Put(t, f)
  PROVE  stack' \in [Actors -> Seq(FrameType)] /\ Moved(t, Len(stack[t]), f)
<1> DEFINE n == Len(stack[t])
           s == Tail(stack[t])
           r == <<f>> \o s
<1>1. stack[t] \in Seq(FrameType) /\ stack \in [Actors -> Seq(FrameType)]
  BY DEF SessionType
<1>2. /\ n \in Nat /\ n >= 1 /\ s \in Seq(FrameType) /\ Len(s) = n - 1
      /\ \A k \in 1 .. n - 1 : s[k] = stack[t][k + 1]
  <2>1. s \in Seq(FrameType) /\ Len(s) = n - 1 /\ \A k \in 1 .. Len(s) : s[k] = stack[t][k + 1]
    BY <1>1, HeadTailProperties
  <2> QED BY <1>1, <2>1
<1>3. <<f>> \in Seq(FrameType) /\ Len(<<f>>) = 1 /\ <<f>>[1] = f
  OBVIOUS
<1> HIDE DEF s
<1>4. /\ r \in Seq(FrameType) /\ Len(r) = n
      /\ r[1] = f /\ \A k \in 2 .. n : r[k] = stack[t][k]
  <2>1. /\ r \in Seq(FrameType) /\ Len(r) = Len(<<f>>) + Len(s)
        /\ \A k \in 1 .. Len(<<f>>) + Len(s) :
             r[k] = IF k <= Len(<<f>>) THEN <<f>>[k] ELSE s[k - Len(<<f>>)]
    BY <1>2, <1>3, ConcatProperties
  <2>2. /\ Len(r) = n
        /\ \A k \in 1 .. n : r[k] = IF k <= 1 THEN <<f>>[k] ELSE s[k - 1]
    BY <1>2, <1>3, <2>1
  <2>3. ASSUME NEW k \in 2 .. n PROVE r[k] = stack[t][k]
    <3>1. k \in 1 .. n /\ ~(k <= 1) /\ k - 1 \in 1 .. n - 1 /\ (k - 1) + 1 = k
      BY <1>2
    <3> QED BY <1>2, <2>2, <3>1
  <2> QED BY <1>2, <1>3, <2>1, <2>2, <2>3
<1>5. stack' = [stack EXCEPT ![t] = r]
  BY DEF Put, s
<1> HIDE DEF r
<1>6. stack'[t] = r /\ \A u \in Actors : u # t => stack'[u] = stack[u]
  BY <1>1, <1>5
<1>7. stack' \in [Actors -> Seq(FrameType)]
  BY <1>1, <1>4, <1>5
<1>8. ASSUME NEW d \in 1 .. n - 1 PROVE Outer(stack'[t], d) = Outer(stack[t], d)
  <2>1. n + 1 - d \in 2 .. n
    BY <1>2
  <2> QED BY <1>4, <1>6, <2>1 DEF Outer
<1>9. Outer(stack'[t], n) = f
  <2>1. n + 1 - n = 1 BY <1>2
  <2> QED BY <1>4, <1>6, <2>1 DEF Outer
<1> QED BY <1>2, <1>4, <1>6, <1>7, <1>8, <1>9 DEF Moved, Kept

LEMMA PushMoves ==
  ASSUME SessionType, NEW t \in Actors, t \notin Workers, stack[t] # << >>,
         NEW f \in FrameType, NEW g \in FrameType, g.pc = "loop", g.item = NoItem,
         stack' = [stack EXCEPT ![t] = <<g, f>> \o Tail(@)]
  PROVE  stack' \in [Actors -> Seq(FrameType)] /\ Moved(t, Len(stack[t]), f)
<1> DEFINE n == Len(stack[t])
           s == Tail(stack[t])
           r == <<g, f>> \o s
<1>1. stack[t] \in Seq(FrameType) /\ stack \in [Actors -> Seq(FrameType)]
  BY DEF SessionType
<1>2. /\ n \in Nat /\ n >= 1 /\ s \in Seq(FrameType) /\ Len(s) = n - 1
      /\ \A k \in 1 .. n - 1 : s[k] = stack[t][k + 1]
  <2>1. s \in Seq(FrameType) /\ Len(s) = n - 1 /\ \A k \in 1 .. Len(s) : s[k] = stack[t][k + 1]
    BY <1>1, HeadTailProperties
  <2> QED BY <1>1, <2>1
<1>3. <<g, f>> \in Seq(FrameType) /\ Len(<<g, f>>) = 2 /\ <<g, f>>[1] = g /\ <<g, f>>[2] = f
  OBVIOUS
<1> HIDE DEF s
<1>4. /\ r \in Seq(FrameType) /\ Len(r) = n + 1
      /\ r[1] = g /\ r[2] = f /\ \A k \in 3 .. n + 1 : r[k] = stack[t][k - 1]
  <2>1. /\ r \in Seq(FrameType) /\ Len(r) = Len(<<g, f>>) + Len(s)
        /\ \A k \in 1 .. Len(<<g, f>>) + Len(s) :
             r[k] = IF k <= Len(<<g, f>>) THEN <<g, f>>[k] ELSE s[k - Len(<<g, f>>)]
    BY <1>2, <1>3, ConcatProperties
  <2>2. /\ Len(r) = n + 1
        /\ \A k \in 1 .. n + 1 : r[k] = IF k <= 2 THEN <<g, f>>[k] ELSE s[k - 2]
    BY <1>2, <1>3, <2>1
  <2>3. ASSUME NEW k \in 3 .. n + 1 PROVE r[k] = stack[t][k - 1]
    <3>1. k \in 1 .. n + 1 /\ ~(k <= 2) /\ k - 2 \in 1 .. n - 1 /\ (k - 2) + 1 = k - 1
      BY <1>2
    <3> QED BY <1>2, <2>2, <3>1
  <2>4. 1 \in 1 .. n + 1 /\ 2 \in 1 .. n + 1
    BY <1>2
  <2> QED BY <1>2, <1>3, <2>1, <2>2, <2>3, <2>4
<1>5. stack' = [stack EXCEPT ![t] = r]
  BY DEF s
<1> HIDE DEF r
<1>6. stack'[t] = r /\ \A u \in Actors : u # t => stack'[u] = stack[u]
  BY <1>1, <1>5
<1>7. stack' \in [Actors -> Seq(FrameType)]
  BY <1>1, <1>4, <1>5
<1>8. ASSUME NEW d \in 1 .. n - 1 PROVE Outer(stack'[t], d) = Outer(stack[t], d)
  <2>1. (n + 1) + 1 - d \in 3 .. n + 1 /\ ((n + 1) + 1 - d) - 1 = n + 1 - d
    BY <1>2
  <2>2. r[(n + 1) + 1 - d] = stack[t][n + 1 - d]
    BY <1>4, <2>1
  <2> QED BY <1>4, <1>6, <2>2 DEF Outer
<1>9. Outer(stack'[t], n) = f /\ Outer(stack'[t], n + 1) = g
  <2>1. (n + 1) + 1 - n = 2 /\ (n + 1) + 1 - (n + 1) = 1 BY <1>2
  <2>2. r[(n + 1) + 1 - n] = f /\ r[(n + 1) + 1 - (n + 1)] = g
    BY <1>4, <2>1
  <2> QED BY <1>4, <1>6, <2>2 DEF Outer
<1>10. Len(stack'[t]) = n + 1
  BY <1>4, <1>6
<1>11. \A d \in n + 1 .. Len(stack'[t]) :
         t \notin Workers /\ Outer(stack'[t], d).pc = "loop" /\ Outer(stack'[t], d).item = NoItem
  <2>1. \A d \in n + 1 .. n + 1 : d = n + 1
    BY <1>2
  <2> QED BY <1>9, <1>10, <2>1
<1>12. Kept(t, n)
  BY ONLY <1>2, <1>6, <1>8 DEF Kept
<1> QED BY ONLY <1>2, <1>7, <1>9, <1>10, <1>11, <1>12 DEF Moved

LEMMA StartMoves ==
  ASSUME SessionType, NEW t \in Actors, stack[t] = << >>, NEW f \in FrameType,
         Start(t, f)
  PROVE  stack' \in [Actors -> Seq(FrameType)] /\ Moved(t, 1, f)
<1>1. stack \in [Actors -> Seq(FrameType)] /\ <<f>> \in Seq(FrameType)
  BY DEF SessionType
<1>2. stack'[t] = <<f>> /\ \A u \in Actors : u # t => stack'[u] = stack[u]
  BY <1>1 DEF Start
<1>3. stack' \in [Actors -> Seq(FrameType)]
  BY <1>1 DEF Start
<1>4. Len(stack'[t]) = 1 /\ Len(stack[t]) = 0 /\ stack'[t][1] = f
  BY <1>2
<1> QED BY <1>2, <1>3, <1>4 DEF Moved, Kept, Outer

LEMMA StartTwoMoves ==
  ASSUME SessionType, NEW t \in Actors, t \notin Workers, stack[t] = << >>,
         NEW f \in FrameType, NEW g \in FrameType, g.pc = "loop", g.item = NoItem,
         stack' = [stack EXCEPT ![t] = <<g, f>>]
  PROVE  stack' \in [Actors -> Seq(FrameType)] /\ Moved(t, 1, f)
<1>1. stack \in [Actors -> Seq(FrameType)] /\ <<g, f>> \in Seq(FrameType)
  BY DEF SessionType
<1>2. stack'[t] = <<g, f>> /\ \A u \in Actors : u # t => stack'[u] = stack[u]
  BY <1>1
<1>3. stack' \in [Actors -> Seq(FrameType)]
  BY <1>1
<1>4. Len(stack'[t]) = 2 /\ Len(stack[t]) = 0 /\ stack'[t][1] = g /\ stack'[t][2] = f
  BY <1>2
<1>5. Outer(stack'[t], 1) = f /\ Outer(stack'[t], 2) = g
  BY <1>4 DEF Outer
<1>6. \A d \in 1 + 1 .. Len(stack'[t]) : d = 2
  BY <1>4
<1> QED BY <1>2, <1>3, <1>4, <1>5, <1>6 DEF Moved, Kept

LEMMA PopMoves ==
  ASSUME SessionType, NEW t \in Actors, stack[t] # << >>,
         stack' = [stack EXCEPT ![t] = Tail(@)]
  PROVE  stack' \in [Actors -> Seq(FrameType)] /\ Popped(t, Len(stack[t]))
<1> DEFINE n == Len(stack[t])
           s == Tail(stack[t])
<1>1. stack[t] \in Seq(FrameType) /\ stack \in [Actors -> Seq(FrameType)]
  BY DEF SessionType
<1>2. /\ n \in Nat /\ n >= 1 /\ s \in Seq(FrameType) /\ Len(s) = n - 1
      /\ \A k \in 1 .. n - 1 : s[k] = stack[t][k + 1]
  <2>1. s \in Seq(FrameType) /\ Len(s) = n - 1 /\ \A k \in 1 .. Len(s) : s[k] = stack[t][k + 1]
    BY <1>1, HeadTailProperties
  <2> QED BY <1>1, <2>1
<1>3. stack' = [stack EXCEPT ![t] = s]
  OBVIOUS
<1> HIDE DEF s
<1>4. stack'[t] = s /\ \A u \in Actors : u # t => stack'[u] = stack[u]
  BY <1>1, <1>3
<1>5. stack' \in [Actors -> Seq(FrameType)]
  BY <1>1, <1>2, <1>3
<1>6. ASSUME NEW d \in 1 .. n - 1 PROVE Outer(stack'[t], d) = Outer(stack[t], d)
  <2>1. n - d \in 1 .. n - 1 /\ (n - d) + 1 = n + 1 - d /\ (n - 1) + 1 - d = n - d
    BY <1>2
  <2> QED BY <1>2, <1>4, <2>1 DEF Outer
<1> QED BY <1>2, <1>4, <1>5, <1>6 DEF Popped, Kept

-----------------------------------------------------------------------------
\* Holders.

LEMMA HoldersAre ==
  ASSUME NEW i, NEW u, NEW d
  PROVE  <<u, d>> \in Holders(i) <=>
           /\ u \in Actors /\ d \in 1 .. Len(stack[u])
           /\ Holds(Outer(stack[u], d)) /\ Outer(stack[u], d).item = i
<1>1. <<u, d>> \in Holders(i) <=> \E v \in Actors : <<u, d>> \in {v} \X HeldBy(v, i)
  BY DEF Holders
<1>2. \A v : <<u, d>> \in {v} \X HeldBy(v, i) <=> u = v /\ d \in HeldBy(v, i)
  OBVIOUS
<1>3. <<u, d>> \in Holders(i) <=> u \in Actors /\ d \in HeldBy(u, i)
  BY <1>1, <1>2
<1> QED BY <1>3 DEF HeldBy

LEMMA HoldersArePairs ==
  ASSUME NEW i, NEW x \in Holders(i)
  PROVE  \E u \in Actors : \E d \in 1 .. Len(stack[u]) : x = <<u, d>>
<1>1. PICK v \in Actors : x \in {v} \X HeldBy(v, i)
  BY DEF Holders
<1>2. \E d \in HeldBy(v, i) : x = <<v, d>>
  BY <1>1
<1> QED BY <1>2 DEF HeldBy

\* The same of the next state.
LEMMA HoldersAreNext ==
  ASSUME NEW i
  PROVE  /\ \A u, d : <<u, d>> \in Holders(i)' <=>
              /\ u \in Actors /\ d \in 1 .. Len(stack'[u])
              /\ Holds(Outer(stack'[u], d)) /\ Outer(stack'[u], d).item = i
         /\ \A x \in Holders(i)' :
              \E u \in Actors : \E d \in 1 .. Len(stack'[u]) : x = <<u, d>>
<1>1. ASSUME NEW u, NEW d
      PROVE  (<<u, d>> \in Holders(i) <=>
               /\ u \in Actors /\ d \in 1 .. Len(stack[u])
               /\ Holds(Outer(stack[u], d)) /\ Outer(stack[u], d).item = i)'
  BY HoldersAre, PTL
<1>2. (\A x \in Holders(i) : \E u \in Actors : \E d \in 1 .. Len(stack[u]) : x = <<u, d>>)'
  <2>1. \A x \in Holders(i) : \E u \in Actors : \E d \in 1 .. Len(stack[u]) : x = <<u, d>>
    BY HoldersArePairs
  <2> QED BY <2>1, PTL
<1> QED BY <1>1, <1>2 DEF Outer, Holds

LEMMA MovedHolders ==
  ASSUME NEW t \in Actors, NEW n, NEW f, Moved(t, n, f), NEW i, NEW x
  PROVE  x \in Holders(i)' <=>
           IF x = <<t, n>> THEN Holds(f) /\ f.item = i ELSE x \in Holders(i)
<1> DEFINE m == Len(stack'[t])
<1>1. /\ n \in Nat /\ n >= 1 /\ m \in Nat /\ m >= n
      /\ Len(stack[t]) \in Nat /\ Len(stack[t]) <= n /\ Len(stack[t]) >= n - 1
      /\ Outer(stack'[t], n) = f
      /\ \A d \in 1 .. n - 1 : Outer(stack'[t], d) = Outer(stack[t], d)
      /\ \A u \in Actors : u # t => stack'[u] = stack[u]
  BY DEF Moved, Kept
<1>2. \A d \in n + 1 .. m : ~Holds(Outer(stack'[t], d))
  BY DEF Moved, Holds
<1>3. \A d : d \in 1 .. m /\ d # n /\ d \notin n + 1 .. m => d \in 1 .. n - 1
  BY <1>1
<1>4. \A d : d \in 1 .. Len(stack[t]) /\ d # n => d \in 1 .. n - 1
  BY <1>1
<1>5. \A d \in 1 .. n - 1 : d \in 1 .. m /\ d \in 1 .. Len(stack[t]) /\ d # n
  BY <1>1
<1>6. CASE x = <<t, n>>
  <2>1. n \in 1 .. m BY <1>1
  <2> QED BY <1>1, <1>6, <2>1, HoldersAreNext
<1>7. ASSUME x # <<t, n>>, x \in Holders(i)' PROVE x \in Holders(i)
  <2>0. PICK u \in Actors : \E d \in 1 .. Len(stack'[u]) : x = <<u, d>>
    BY <1>7, HoldersAreNext
  <2>1. PICK d \in 1 .. Len(stack'[u]) : x = <<u, d>>
    BY <2>0
  <2>2. Holds(Outer(stack'[u], d)) /\ Outer(stack'[u], d).item = i
    BY <1>7, <2>1, HoldersAreNext
  <2>3. CASE u # t
    BY <1>1, <2>1, <2>2, <2>3, HoldersAre
  <2>4. CASE u = t
    <3>1. d \in 1 .. n - 1
      BY <1>2, <1>3, <1>7, <2>1, <2>2, <2>4
    <3> QED BY <1>1, <1>5, <2>1, <2>2, <2>4, <3>1, HoldersAre
  <2> QED BY <2>3, <2>4
<1>8. ASSUME x # <<t, n>>, x \in Holders(i) PROVE x \in Holders(i)'
  <2>0. PICK u \in Actors : \E d \in 1 .. Len(stack[u]) : x = <<u, d>>
    BY <1>8, HoldersArePairs
  <2>1. PICK d \in 1 .. Len(stack[u]) : x = <<u, d>>
    BY <2>0
  <2>2. Holds(Outer(stack[u], d)) /\ Outer(stack[u], d).item = i
    BY <1>8, <2>1, HoldersAre
  <2>3. CASE u # t
    BY <1>1, <2>1, <2>2, <2>3, HoldersAreNext
  <2>4. CASE u = t
    <3>1. d \in 1 .. n - 1
      BY <1>4, <1>8, <2>1, <2>4
    <3> QED BY <1>1, <1>5, <2>1, <2>2, <2>4, <3>1, HoldersAreNext
  <2> QED BY <2>3, <2>4
<1> QED BY <1>6, <1>7, <1>8

LEMMA PoppedHolders ==
  ASSUME NEW t \in Actors, NEW n, Popped(t, n), NEW i, NEW x
  PROVE  x \in Holders(i)' <=> x # <<t, n>> /\ x \in Holders(i)
<1>1. /\ n \in Nat /\ n >= 1 /\ Len(stack[t]) = n /\ Len(stack'[t]) = n - 1
      /\ \A d \in 1 .. n - 1 : Outer(stack'[t], d) = Outer(stack[t], d)
      /\ \A u \in Actors : u # t => stack'[u] = stack[u]
  BY DEF Popped, Kept
<1>2. \A d : d \in 1 .. n /\ d # n => d \in 1 .. n - 1
  BY <1>1
<1>3. \A d \in 1 .. n - 1 : d \in 1 .. n /\ d # n
  BY <1>1
<1>4. ASSUME x \in Holders(i)' PROVE x # <<t, n>> /\ x \in Holders(i)
  <2>0. PICK u \in Actors : \E d \in 1 .. Len(stack'[u]) : x = <<u, d>>
    BY <1>4, HoldersAreNext
  <2>1. PICK d \in 1 .. Len(stack'[u]) : x = <<u, d>>
    BY <2>0
  <2>2. Holds(Outer(stack'[u], d)) /\ Outer(stack'[u], d).item = i
    BY <1>4, <2>1, HoldersAreNext
  <2>3. CASE u # t
    BY <1>1, <2>1, <2>2, <2>3, HoldersAre
  <2>4. CASE u = t
    BY <1>1, <1>3, <2>1, <2>2, <2>4, HoldersAre
  <2> QED BY <2>3, <2>4
<1>5. ASSUME x # <<t, n>>, x \in Holders(i) PROVE x \in Holders(i)'
  <2>0. PICK u \in Actors : \E d \in 1 .. Len(stack[u]) : x = <<u, d>>
    BY <1>5, HoldersArePairs
  <2>1. PICK d \in 1 .. Len(stack[u]) : x = <<u, d>>
    BY <2>0
  <2>2. Holds(Outer(stack[u], d)) /\ Outer(stack[u], d).item = i
    BY <1>5, <2>1, HoldersAre
  <2>3. CASE u # t
    BY <1>1, <2>1, <2>2, <2>3, HoldersAreNext
  <2>4. CASE u = t
    BY <1>1, <1>2, <1>5, <2>1, <2>2, <2>4, HoldersAreNext
  <2> QED BY <2>3, <2>4
<1> QED BY <1>4, <1>5

-----------------------------------------------------------------------------
\* What a step of one frame preserves.

LEMMA OuterType ==
  ASSUME SessionType, NEW u \in Actors, NEW d \in 1 .. Len(stack[u])
  PROVE  Outer(stack[u], d) \in FrameType
<1>1. stack[u] \in Seq(FrameType) BY DEF SessionType
<1>2. Len(stack[u]) + 1 - d \in 1 .. Len(stack[u]) BY <1>1
<1> QED BY <1>1, <1>2 DEF Outer

\* Where the frames of the next state come from.
LEMMA MovedFrames ==
  ASSUME NEW t \in Actors, NEW n, NEW f, Moved(t, n, f),
         NEW u \in Actors, NEW d \in 1 .. Len(stack'[u])
  PROVE  \/ u = t /\ d = n /\ Outer(stack'[u], d) = f
         \/ /\ u \notin Workers
            /\ Outer(stack'[u], d).pc = "loop" /\ Outer(stack'[u], d).item = NoItem
         \/ /\ <<u, d>> # <<t, n>> /\ d \in 1 .. Len(stack[u])
            /\ Outer(stack'[u], d) = Outer(stack[u], d)
<1>1. CASE u # t
  BY <1>1 DEF Moved, Kept
<1>2. CASE u = t /\ d = n
  BY <1>2 DEF Moved
<1>3. CASE u = t /\ d # n
  <2>1. /\ n \in Nat /\ n >= 1 /\ Len(stack'[t]) \in Nat
        /\ Len(stack[t]) \in Nat /\ Len(stack[t]) >= n - 1
    BY DEF Moved, Kept
  <2>2. d \in n + 1 .. Len(stack'[t]) \/ (d \in 1 .. n - 1 /\ d \in 1 .. Len(stack[t]))
    BY <1>3, <2>1
  <2> QED BY <1>3, <2>2 DEF Moved, Kept
<1> QED BY <1>1, <1>2, <1>3

LEMMA PoppedFrames ==
  ASSUME NEW t \in Actors, NEW n, Popped(t, n),
         NEW u \in Actors, NEW d \in 1 .. Len(stack'[u])
  PROVE  /\ <<u, d>> # <<t, n>> /\ d \in 1 .. Len(stack[u])
         /\ Outer(stack'[u], d) = Outer(stack[u], d)
<1>1. CASE u # t
  BY <1>1 DEF Popped, Kept
<1>2. CASE u = t
  <2>1. n \in Nat /\ n >= 1 /\ Len(stack'[t]) = n - 1 /\ Len(stack[t]) = n
    BY DEF Popped, Kept
  <2>2. d \in 1 .. n - 1 /\ d \in 1 .. n /\ d # n
    BY <1>2, <2>1
  <2> QED BY <1>2, <2>1, <2>2 DEF Popped, Kept
<1> QED BY <1>1, <1>2

\* Items advance: they are not taken back, and activated only by a frame that
\* has the item for itself.
Mono(t, n) ==
  \A i \in Items :
    /\ item[i].st # "unused" => item'[i].st # "unused"
    /\ item[i].chan # "none" => item'[i].chan # "none"
    /\ item'[i].active => item[i].active \/ Holders(i) = {<<t, n>>}
    /\ deletes[i] \in Nat /\ deletes'[i] \in Nat /\ deletes'[i] >= deletes[i]

LEMMA FrameKept ==
  ASSUME SessionType, FrameInv, NEW t, NEW n, Mono(t, n),
         NEW u \in Actors, NEW d \in 1 .. Len(stack[u]), <<u, d>> # <<t, n>>,
         NEW g, g = Outer(stack[u], d)
  PROVE  FrameOK(u, g)'
<1>0. g \in FrameType /\ FrameOK(u, g)
  BY OuterType DEF FrameInv
<1>1. g.item = NoItem \/ g.item \in Items
  BY <1>0 DEF FrameType
<1>2. CASE g.item = NoItem
  <2>1. g.pc \notin Working
    BY <1>0, <1>2 DEF FrameOK
  <2> QED BY <1>0, <1>2, <2>1 DEF FrameOK, Working
<1>3. CASE g.item \in Items
  <2>1. g.pc \in {"release", "unlist", "unlist0"} => ~item'[g.item].active
    <3>1. SUFFICES ASSUME g.pc \in {"release", "unlist", "unlist0"} PROVE ~item'[g.item].active
      OBVIOUS
    <3>2. Holds(g)
      BY <1>3, <3>1, SessionAssumption DEF Holds
    <3>3. <<u, d>> \in Holders(g.item) /\ ~item[g.item].active
      BY <1>0, <3>1, <3>2, HoldersAre DEF FrameOK
    <3> QED BY <1>3, <3>3 DEF Mono
  <2>2. deletes[g.item] > 1 => deletes'[g.item] > 1
    BY <1>3 DEF Mono
  <2>3. /\ item[g.item].st # "unused" => item'[g.item].st # "unused"
        /\ item[g.item].chan # "none" => item'[g.item].chan # "none"
    BY <1>3 DEF Mono
  <2> QED BY <1>0, <2>1, <2>2, <2>3 DEF FrameOK
<1> QED BY <1>1, <1>2, <1>3

LEMMA FrameMoved ==
  ASSUME SessionType, FrameInv, NEW t \in Actors, NEW n, NEW f, Moved(t, n, f),
         FrameOK(t, f)', Mono(t, n)
  PROVE  FrameInv'
<1>1. SUFFICES ASSUME NEW u \in Actors, NEW d \in 1 .. Len(stack'[u])
               PROVE  FrameOK(u, Outer(stack[u], d))'
  BY DEF FrameInv
<1> DEFINE g == Outer(stack'[u], d)
<1>2. SUFFICES ASSUME NEW h, h = g PROVE FrameOK(u, h)'
  BY DEF FrameOK, Outer
<1>3. CASE u = t /\ d = n /\ g = f
  BY <1>2, <1>3
<1>4. CASE u \notin Workers /\ g.pc = "loop" /\ g.item = NoItem
  BY <1>2, <1>4 DEF FrameOK, Working
<1>5. CASE <<u, d>> # <<t, n>> /\ d \in 1 .. Len(stack[u]) /\ g = Outer(stack[u], d)
  BY <1>2, <1>5, FrameKept
<1> QED BY <1>3, <1>4, <1>5, MovedFrames

LEMMA FramePopped ==
  ASSUME SessionType, FrameInv, NEW t \in Actors, NEW n, Popped(t, n), Mono(t, n)
  PROVE  FrameInv'
<1>1. SUFFICES ASSUME NEW u \in Actors, NEW d \in 1 .. Len(stack'[u])
               PROVE  FrameOK(u, Outer(stack[u], d))'
  BY DEF FrameInv
<1> DEFINE g == Outer(stack'[u], d)
<1>2. SUFFICES ASSUME NEW h, h = g PROVE FrameOK(u, h)'
  BY DEF FrameOK, Outer
<1>3. <<u, d>> # <<t, n>> /\ d \in 1 .. Len(stack[u]) /\ g = Outer(stack[u], d)
  BY PoppedFrames
<1> QED BY <1>2, <1>3, FrameKept

Creating == {"chan_set", "activate"}

\* The frame holds what it held before, or has just found or made.
Gains(t, n, f) ==
  Holds(f) => <<t, n>> \in Holders(f.item) \/ item[f.item].active
                 \/ item[f.item].st = "unused"

\* dbg_delete_item is for an item the caller holds.
DeletesOwn(t, n) ==
  \A i \in Items : deletes'[i] # deletes[i] => <<t, n>> \in Holders(i)

LEMMA CreateKept ==
  ASSUME SessionType, FrameInv, CreateInv, NEW t \in Actors, NEW n, Mono(t, n),
         DeletesOwn(t, n),
         NEW u \in Actors, NEW d \in 1 .. Len(stack[u]), <<u, d>> # <<t, n>>,
         NEW i, i = Outer(stack[u], d).item, Outer(stack[u], d).pc \in Creating
  PROVE  /\ i \in Items /\ ~item[i].active /\ ~item'[i].active /\ deletes'[i] = 0
         /\ Holders(i) = {<<u, d>>} /\ item[i].st # "unused"
<1>1. ~item[i].active /\ deletes[i] = 0 /\ Holders(i) = {<<u, d>>}
  BY DEF CreateInv, Creating
<1>2. Outer(stack[u], d) \in FrameType /\ FrameOK(u, Outer(stack[u], d))
  BY OuterType DEF FrameInv
<1>3. i \in Items /\ item[i].st # "unused"
  BY <1>2 DEF FrameOK, FrameType, Creating, Working
<1>4. deletes'[i] = deletes[i]
  BY <1>1, <1>3 DEF DeletesOwn
<1> QED BY <1>1, <1>3, <1>4 DEF Mono

LEMMA CreateNext ==
  ASSUME ASSUME NEW u \in Actors, NEW d \in 1 .. Len(stack'[u]),
                Outer(stack'[u], d).pc \in Creating,
                NEW i, i = Outer(stack'[u], d).item
         PROVE  /\ ~item'[i].active /\ deletes'[i] = 0
                /\ Holders(i)' = {<<u, d>>}
  PROVE  CreateInv'
BY DEF CreateInv, Creating, Holders, HeldBy, Outer, Holds

LEMMA CreateMoved ==
  ASSUME SessionType, FrameInv, CreateInv,
         NEW t \in Actors, NEW n, NEW f, Moved(t, n, f), Mono(t, n),
         DeletesOwn(t, n), Gains(t, n, f),
         f.pc \in Creating => /\ ~item'[f.item].active /\ deletes'[f.item] = 0
                              /\ Holders(f.item) \subseteq {<<t, n>>} /\ f.item # NoItem
  PROVE  CreateInv'
<1>1. SUFFICES ASSUME NEW u \in Actors, NEW d \in 1 .. Len(stack'[u]),
                      Outer(stack'[u], d).pc \in Creating,
                      NEW i, i = Outer(stack'[u], d).item
               PROVE  /\ ~item'[i].active /\ deletes'[i] = 0
                      /\ Holders(i)' = {<<u, d>>}
  BY CreateNext
<1>2. CASE u = t /\ d = n /\ Outer(stack'[u], d) = f
  <2>1. /\ ~item'[i].active /\ deletes'[i] = 0
        /\ Holders(i) \subseteq {<<t, n>>} /\ f.item = i /\ i # NoItem
    BY <1>1, <1>2
  <2>2. Holds(f)
    BY <1>1, <1>2, <2>1 DEF Holds, Creating
  <2>3. \A x : x \in Holders(i)' <=> IF x = <<t, n>> THEN TRUE ELSE x \in Holders(i)
    BY <2>1, <2>2, MovedHolders
  <2> QED BY <1>2, <2>1, <2>3
<1>3. CASE Outer(stack'[u], d).pc = "loop"
  BY <1>1, <1>3 DEF Creating
<1>4. CASE /\ <<u, d>> # <<t, n>> /\ d \in 1 .. Len(stack[u])
           /\ Outer(stack'[u], d) = Outer(stack[u], d)
  <2>1. /\ ~item[i].active /\ ~item'[i].active /\ deletes'[i] = 0
        /\ Holders(i) = {<<u, d>>} /\ item[i].st # "unused"
    BY <1>1, <1>4, CreateKept
  <2>2. ~(Holds(f) /\ f.item = i)
    BY <1>4, <2>1 DEF Gains
  <2>3. \A x : x \in Holders(i)' <=> IF x = <<t, n>> THEN FALSE ELSE x \in Holders(i)
    BY <2>2, MovedHolders
  <2> QED BY <1>4, <2>1, <2>3
<1> QED BY <1>2, <1>3, <1>4, MovedFrames

LEMMA CreatePopped ==
  ASSUME SessionType, FrameInv, CreateInv,
         NEW t \in Actors, NEW n, Popped(t, n), Mono(t, n), DeletesOwn(t, n)
  PROVE  CreateInv'
<1>1. SUFFICES ASSUME NEW u \in Actors, NEW d \in 1 .. Len(stack'[u]),
                      Outer(stack'[u], d).pc \in Creating,
                      NEW i, i = Outer(stack'[u], d).item
               PROVE  /\ ~item'[i].active /\ deletes'[i] = 0
                      /\ Holders(i)' = {<<u, d>>}
  BY CreateNext
<1>2. /\ <<u, d>> # <<t, n>> /\ d \in 1 .. Len(stack[u])
      /\ Outer(stack'[u], d) = Outer(stack[u], d)
  BY PoppedFrames
<1>3. /\ ~item'[i].active /\ deletes'[i] = 0 /\ Holders(i) = {<<u, d>>}
  BY <1>1, <1>2, CreateKept
<1>4. \A x : x \in Holders(i)' <=> x # <<t, n>> /\ x \in Holders(i)
  BY PoppedHolders
<1> QED BY <1>2, <1>3, <1>4

\* How many references frame n of t, or frame f, has to item i.
Had(t, n, i) == IF <<t, n>> \in Holders(i) THEN 1 ELSE 0
Has(f, i) == IF Holds(f) /\ f.item = i THEN 1 ELSE 0

LEMMA MovedCount ==
  ASSUME NEW t \in Actors, NEW n, NEW f, Moved(t, n, f), NEW i, IsFiniteSet(Holders(i))
  PROVE  /\ IsFiniteSet(Holders(i)')
         /\ Cardinality(Holders(i)) \in Nat /\ Cardinality(Holders(i)') \in Nat
         /\ Cardinality(Holders(i)') + Had(t, n, i)
              = Cardinality(Holders(i)) + Has(f, i)
<1> DEFINE p == <<t, n>>
           H == Holders(i)
           K == Holders(i)'
<1>1. \A x : x \in K <=> IF x = p THEN Holds(f) /\ f.item = i ELSE x \in H
  BY MovedHolders
<1>2. CASE Holds(f) /\ f.item = i
  <2>1. K = H \cup {p}
    BY <1>1, <1>2
  <2>2. /\ IsFiniteSet(K)
        /\ Cardinality(K) = IF p \in H THEN Cardinality(H) ELSE Cardinality(H) + 1
    BY <2>1, FS_AddElement
  <2>3. Cardinality(H) \in Nat /\ Cardinality(K) \in Nat
    BY <2>2, FS_CardinalityType
  <2> QED BY <1>2, <2>2, <2>3 DEF Had, Has
<1>3. CASE ~(Holds(f) /\ f.item = i)
  <2>1. K = H \ {p}
    BY <1>1, <1>3
  <2>2. /\ IsFiniteSet(K)
        /\ Cardinality(K) = IF p \in H THEN Cardinality(H) - 1 ELSE Cardinality(H)
    <3>1. /\ IsFiniteSet(H \ {p})
          /\ Cardinality(H \ {p}) = IF p \in H THEN Cardinality(H) - 1 ELSE Cardinality(H)
      <4> HIDE DEF H, p
      <4>1. IsFiniteSet(H) BY DEF H
      <4> QED BY <4>1, FS_RemoveElement
    <3> HIDE DEF H, K, p
    <3> QED BY <2>1, <3>1
  <2>3. Cardinality(H) \in Nat /\ Cardinality(K) \in Nat
    BY <2>2, FS_CardinalityType
  <2> QED BY <1>3, <2>2, <2>3 DEF Had, Has
<1> QED BY <1>2, <1>3

\* The count of item i follows the step of frame n, which then has item i as f
\* says; the list's reference and those that leak are accounted for.
Counted(t, n, f, i) ==
  /\ item[i].st = "live"
  /\ item'[i].refs + deletes'[i] - leaked'[i] - Has(f, i)
       = item[i].refs + deletes[i] - leaked[i] - Had(t, n, i)

\* dbg_new_item
CountedNew(t, n, f, i) ==
  /\ Holders(i) = {} /\ Holds(f) /\ f.item = i
  /\ item'[i].refs = 2 /\ deletes'[i] = 0 /\ leaked'[i] = 0

LEMMA CountMoved ==
  ASSUME SessionType, SessionType', CountInv, NEW t \in Actors, NEW n, NEW f, Moved(t, n, f),
         \A i \in Items : item'[i].st = "live" =>
           Counted(t, n, f, i) \/ CountedNew(t, n, f, i)
  PROVE  CountInv'
<1>1. ASSUME NEW i \in Items
      PROVE  /\ IsFiniteSet(Holders(i)')
             /\ item'[i].st = "live" =>
                  item'[i].refs = Cardinality(Holders(i)') + 1 - deletes'[i] + leaked'[i]
  <2>1. /\ IsFiniteSet(Holders(i)')
        /\ Cardinality(Holders(i)) \in Nat /\ Cardinality(Holders(i)') \in Nat
        /\ Cardinality(Holders(i)') + Had(t, n, i)
             = Cardinality(Holders(i)) + Has(f, i)
    BY MovedCount DEF CountInv
  <2>2. /\ Had(t, n, i) \in Int /\ Has(f, i) \in Int
        /\ deletes[i] \in Int /\ deletes'[i] \in Int /\ leaked[i] \in Int /\ leaked'[i] \in Int
        /\ item[i].refs \in Int /\ item'[i].refs \in Int
    BY DEF Had, Has, SessionType, ItemType
  <2>3. ASSUME item'[i].st = "live", Counted(t, n, f, i)
        PROVE  item'[i].refs = Cardinality(Holders(i)') + 1 - deletes'[i] + leaked'[i]
    <3>1. item[i].refs = Cardinality(Holders(i)) + 1 - deletes[i] + leaked[i]
      BY <2>3 DEF CountInv, RefsExact, Counted
    <3>2. item'[i].refs + deletes'[i] - leaked'[i] - Has(f, i)
            = item[i].refs + deletes[i] - leaked[i] - Had(t, n, i)
      BY <2>3 DEF Counted
    <3>3. item'[i].refs + deletes'[i] - leaked'[i] - Has(f, i)
            = Cardinality(Holders(i)) + 1 - Had(t, n, i)
      BY <2>1, <2>2, <3>1, <3>2
    <3>4. item'[i].refs + deletes'[i] - leaked'[i] = Cardinality(Holders(i)') + 1
      BY <2>1, <2>2, <3>3
    <3> QED BY <2>1, <2>2, <3>4
  <2>4. ASSUME item'[i].st = "live", CountedNew(t, n, f, i)
        PROVE  item'[i].refs = Cardinality(Holders(i)') + 1 - deletes'[i] + leaked'[i]
    <3>1. Cardinality(Holders(i)) = 0 /\ <<t, n>> \notin Holders(i)
      BY <2>4, FS_EmptySet DEF CountedNew
    <3>2. Had(t, n, i) = 0 /\ Has(f, i) = 1
      BY <2>4, <3>1 DEF Had, Has, CountedNew
    <3> QED BY <2>1, <2>4, <3>1, <3>2 DEF CountedNew
  <2> QED BY <2>1, <2>3, <2>4
<1> QED BY <1>1 DEF CountInv, RefsExact

LEMMA CountPopped ==
  ASSUME CountInv, NEW t \in Actors, NEW n, Popped(t, n),
         UNCHANGED <<item, deletes, leaked>>, \A i \in Items : <<t, n>> \notin Holders(i)
  PROVE  CountInv'
<1>1. ASSUME NEW i \in Items PROVE Holders(i)' = Holders(i)
  BY PoppedHolders
<1> QED BY <1>1 DEF CountInv, RefsExact

LEMMA DeadKept ==
  ASSUME ItemInv, FrameInv, SessionType, DeadInv, NEW t, NEW n, Mono(t, n),
         NEW i \in Items, Dead(i),
         deletes'[i] <= 1
  PROVE  /\ Holders(i) = {} /\ ~item[i].active /\ item[i].st # "unused"
         /\ deletes'[i] = 1
<1>1. deletes[i] \in Nat /\ deletes'[i] \in Nat /\ deletes'[i] >= deletes[i]
  BY DEF Mono
<1>2. deletes[i] <= 1
  BY <1>1
<1>3. Holders(i) = {} /\ deletes[i] = 1
  BY <1>2 DEF DeadInv
<1>4. item[i].st # "unused"
  BY <1>3 DEF ItemInv
<1> QED BY <1>1, <1>3, <1>4 DEF ItemInv

LEMMA DeadMoved ==
  ASSUME SessionType, ItemInv, FrameInv, DeadInv,
         NEW t \in Actors, NEW n, NEW f, Moved(t, n, f), Mono(t, n), Gains(t, n, f),
         \A i \in Items : Dead(i)' /\ ~Dead(i) /\ deletes'[i] <= 1 =>
           Holders(i)' = {} /\ deletes'[i] = 1
  PROVE  DeadInv'
<1>1. ASSUME NEW i \in Items, Dead(i), deletes'[i] <= 1
      PROVE  Holders(i)' = {} /\ deletes'[i] = 1
  <2>1. Holders(i) = {} /\ ~item[i].active /\ item[i].st # "unused" /\ deletes'[i] = 1
    BY <1>1, DeadKept
  <2>2. ~(Holds(f) /\ f.item = i)
    BY <2>1 DEF Gains
  <2>3. \A x : x \in Holders(i)' <=> IF x = <<t, n>> THEN FALSE ELSE x \in Holders(i)
    BY <2>2, MovedHolders
  <2> QED BY <2>1, <2>3
<1> QED BY <1>1 DEF DeadInv

\* No frame begins to destroy an item, and none is destroyed.
LEMMA DeadSame ==
  ASSUME NEW t \in Actors, NEW n, NEW f, Moved(t, n, f), f.pc # "put0",
         NEW i, item'[i].st = "gone" => item[i].st = "gone", Dead(i)'
  PROVE  Dead(i)
<1>1. CASE item'[i].st = "gone"
  BY <1>1 DEF Dead
<1>2. ASSUME NEW u \in Actors, NEW d \in 1 .. Len(stack'[u]),
             Outer(stack'[u], d).pc = "put0", Outer(stack'[u], d).item = i
      PROVE  Dead(i)
  <2>1. /\ d \in 1 .. Len(stack[u])
        /\ Outer(stack'[u], d) = Outer(stack[u], d)
    BY <1>2, MovedFrames
  <2> QED BY <1>2, <2>1 DEF Dead
<1> QED BY <1>1, <1>2 DEF Dead, Outer

LEMMA DeadPopped ==
  ASSUME DeadInv, NEW t \in Actors, NEW n, Popped(t, n), UNCHANGED <<item, deletes>>
  PROVE  DeadInv'
<1>1. SUFFICES ASSUME NEW i \in Items, Dead(i)', deletes[i] <= 1
               PROVE  Holders(i)' = {} /\ deletes[i] = 1
  BY DEF DeadInv
<1>2. Dead(i)
  <2>1. CASE item[i].st = "gone"
    BY <2>1 DEF Dead
  <2>2. ASSUME NEW u \in Actors, NEW d \in 1 .. Len(stack'[u]),
               Outer(stack'[u], d).pc = "put0", Outer(stack'[u], d).item = i
        PROVE  Dead(i)
    BY <2>2, PoppedFrames DEF Dead
  <2> QED BY <1>1, <2>1, <2>2 DEF Dead, Outer
<1>3. Holders(i) = {} /\ deletes[i] = 1
  BY <1>1, <1>2 DEF DeadInv
<1> QED BY <1>3, PoppedHolders

LEMMA ListSame ==
  ASSUME SessionType, ListInv, NEW t, NEW n, Mono(t, n), list' = list,
         \A i \in Items : item'[i].st = "gone" => item[i].st = "gone"
  PROVE  ListInv'
<1>1. \A k \in 1 .. Len(list) : list[k] \in Items
  BY DEF SessionType
<1> QED BY <1>1 DEF ListInv, Mono

LEMMA TopHolds ==
  ASSUME SessionType, NEW t \in Actors, stack[t] # << >>, NEW i
  PROVE  <<t, Len(stack[t])>> \in Holders(i) <=> Holds(Top(t)) /\ Top(t).item = i
<1>1. Len(stack[t]) \in 1 .. Len(stack[t]) /\ Top(t) = Outer(stack[t], Len(stack[t]))
  BY TopIs
<1> QED BY <1>1, HoldersAre

LEMMA EmptyHolds ==
  ASSUME NEW t \in Actors, stack[t] = << >>, NEW i
  PROVE  <<t, 1>> \notin Holders(i)
<1>1. Len(stack[t]) = 0 /\ 1 \notin 1 .. 0
  OBVIOUS
<1> QED BY <1>1, HoldersAre

LEMMA TopOK ==
  ASSUME SessionInv, NEW t \in Actors, stack[t] # << >>
  PROVE  /\ Top(t) \in FrameType /\ FrameOK(t, Top(t))
         /\ Len(stack[t]) \in Nat /\ Len(stack[t]) >= 1
<1>1. SessionType /\ FrameInv
  BY DEF SessionInv
<1>2. /\ Len(stack[t]) \in 1 .. Len(stack[t]) /\ Top(t) = Outer(stack[t], Len(stack[t]))
      /\ Len(stack[t]) \in Nat /\ Len(stack[t]) >= 1 /\ Top(t) \in FrameType
  BY <1>1, TopIs
<1> QED BY <1>1, <1>2 DEF FrameInv

LEMMA MovedInv ==
  ASSUME SessionInv, SessionType', ItemInv', ListInv',
         NEW t \in Actors, NEW n, NEW f, Moved(t, n, f), Mono(t, n),
         FrameOK(t, f)', Gains(t, n, f), DeletesOwn(t, n),
         f.pc \in Creating => /\ ~item'[f.item].active /\ deletes'[f.item] = 0
                              /\ Holders(f.item) \subseteq {<<t, n>>} /\ f.item # NoItem,
         \A i \in Items : item'[i].st = "live" =>
           Counted(t, n, f, i) \/ CountedNew(t, n, f, i),
         \A i \in Items : Dead(i)' /\ ~Dead(i) /\ deletes'[i] <= 1 =>
           Holders(i)' = {} /\ deletes'[i] = 1
  PROVE  SessionInv'
<1> USE DEF SessionInv
<1>1. FrameInv' BY FrameMoved
<1>2. CreateInv' BY CreateMoved
<1>3. CountInv' BY CountMoved
<1>4. DeadInv' BY DeadMoved
<1> QED BY <1>1, <1>2, <1>3, <1>4

\* A step that moves references to no item.
LEMMA PlainInv ==
  ASSUME SessionInv, SessionType', UNCHANGED <<item, list, deletes, leaked>>,
         NEW t \in Actors, NEW n, NEW f, Moved(t, n, f),
         FrameOK(t, f), f.pc \notin Creating, f.pc # "put0",
         \A i \in Items : <<t, n>> \in Holders(i) <=> Holds(f) /\ f.item = i,
         f \in FrameType
  PROVE  SessionInv'
<1>1. SessionType /\ ItemInv /\ ListInv
  BY DEF SessionInv
<1>2. Mono(t, n)
  <2>1. \A i \in Items : deletes[i] \in Nat
    BY <1>1 DEF SessionType
  <2> QED BY <2>1 DEF Mono
<1>3. ItemInv' /\ ListInv' /\ FrameOK(t, f)'
  BY <1>1 DEF ItemInv, ListInv, FrameOK
<1>4. Gains(t, n, f)
  <2>1. Holds(f) => f.item \in Items
    BY DEF Holds, FrameType
  <2> QED BY <2>1 DEF Gains
<1>5. DeletesOwn(t, n)
  BY DEF DeletesOwn
<1>6. ASSUME NEW i \in Items, item'[i].st = "live" PROVE Counted(t, n, f, i)
  <2>1. Has(f, i) = Had(t, n, i)
    BY DEF Has, Had
  <2> QED BY <1>6, <2>1 DEF Counted
<1>7. \A i \in Items : Dead(i)' => Dead(i)
  BY DeadSame
<1> QED BY <1>2, <1>3, <1>4, <1>5, <1>6, <1>7, MovedInv

LEMMA PoppedInv ==
  ASSUME SessionInv, SessionType', UNCHANGED <<item, list, deletes, leaked>>,
         NEW t \in Actors, NEW n, Popped(t, n), \A i \in Items : <<t, n>> \notin Holders(i)
  PROVE  SessionInv'
<1>1. SessionType /\ ItemInv /\ ListInv /\ FrameInv /\ CreateInv /\ CountInv /\ DeadInv
  BY DEF SessionInv
<1>2. Mono(t, n)
  <2>1. \A i \in Items : deletes[i] \in Nat
    BY <1>1 DEF SessionType
  <2> QED BY <2>1 DEF Mono
<1>3. ItemInv' /\ ListInv'
  BY <1>1 DEF ItemInv, ListInv
<1>4. DeletesOwn(t, n)
  BY DEF DeletesOwn
<1>5. FrameInv' BY <1>1, <1>2, FramePopped
<1>6. CreateInv' BY <1>1, <1>2, <1>4, CreatePopped
<1>7. CountInv' BY <1>1, CountPopped
<1>8. DeadInv' BY <1>1, DeadPopped
<1> QED BY <1>3, <1>5, <1>6, <1>7, <1>8 DEF SessionInv

HoldPC == {"chan_set", "activate", "filter", "chan", "put", "deact", "release",
           "unlist", "unlist0", "kill", "report", "last"}

LEMMA HoldsIs ==
  ASSUME NEW f
  PROVE  Holds(f) <=> f.item # NoItem /\ f.pc \in HoldPC
BY DEF Holds, HoldPC

\* The innermost frame goes on, from a to b.
LEMMA GotoMoves ==
  ASSUME SessionInv, NEW t \in Actors, NEW a, NEW b \in FramePC, At(t, a), Goto(t, b)
  PROVE  \E f \in FrameType :
           /\ f = [Top(t) EXCEPT !.pc = b]
           /\ f.pc = b /\ f.item = Top(t).item /\ f.next = Top(t).next
           /\ Top(t) \in FrameType /\ FrameOK(t, Top(t)) /\ Top(t).pc = a
           /\ stack' \in [Actors -> Seq(FrameType)] /\ Moved(t, Len(stack[t]), f)
           /\ \A i : <<t, Len(stack[t])>> \in Holders(i) <=> Holds(Top(t)) /\ Top(t).item = i
<1>1. stack[t] # << >> /\ Top(t).pc = a /\ SessionType
  BY DEF At, SessionInv
<1>2. Top(t) \in FrameType /\ FrameOK(t, Top(t))
  BY <1>1, TopOK
<1> DEFINE f == [Top(t) EXCEPT !.pc = b]
<1>3. f \in FrameType /\ f.pc = b /\ f.item = Top(t).item /\ f.next = Top(t).next
  BY <1>2 DEF FrameType
<1>4. stack' \in [Actors -> Seq(FrameType)] /\ Moved(t, Len(stack[t]), f)
  BY <1>1, <1>3, PutMoves DEF Goto
<1>5. \A i : <<t, Len(stack[t])>> \in Holders(i) <=> Holds(Top(t)) /\ Top(t).item = i
  BY <1>1, TopHolds
<1> QED BY <1>1, <1>2, <1>3, <1>4, <1>5

LEMMA GotoPlain ==
  ASSUME SessionInv, NEW t \in Actors, NEW a \in FramePC, NEW b \in FramePC,
         At(t, a), Goto(t, b), UNCHANGED <<item, list, deletes, leaked>>,
         alive' \subseteq Procs, terms' \in 0 .. MaxTerms, wild' \in BOOLEAN,
         a # "chan_set", b \notin Creating, b \notin {"put0", "release", "unlist", "unlist0"},
         a \in HoldPC <=> b \in HoldPC, b \in Working => a \in Working,
         t \in Workers => b \in WorkerPC
  PROVE  SessionInv'
<1>1. PICK f \in FrameType :
        /\ f.pc = b /\ f.item = Top(t).item /\ f.next = Top(t).next
        /\ FrameOK(t, Top(t)) /\ Top(t).pc = a
        /\ stack' \in [Actors -> Seq(FrameType)] /\ Moved(t, Len(stack[t]), f)
        /\ \A i : <<t, Len(stack[t])>> \in Holders(i) <=> Holds(Top(t)) /\ Top(t).item = i
  BY GotoMoves
<1>2. SessionType'
  BY <1>1 DEF SessionInv, SessionType
<1>3. FrameOK(t, f)
  <2>1. f.pc \in Working => f.item # NoItem
    BY <1>1 DEF FrameOK
  <2>2. f.pc # "unlist0" /\ f.pc \notin {"release", "unlist", "unlist0"}
    BY <1>1
  <2>3. t \in Workers => f.pc \in WorkerPC /\ f.next = "done"
    BY <1>1 DEF FrameOK
  <2>4. f.item # NoItem => item[f.item].st # "unused" /\ item[f.item].chan # "none"
    BY <1>1 DEF FrameOK
  <2> QED BY <2>1, <2>2, <2>3, <2>4 DEF FrameOK
<1>4. Holds(f) <=> Holds(Top(t))
  BY <1>1, HoldsIs
<1> QED BY <1>1, <1>2, <1>3, <1>4, PlainInv

-----------------------------------------------------------------------------
\* The actions.

LEMMA NotWorker ==
  ASSUME SessionInv, NEW t \in Actors, NEW a, At(t, a), a \notin WorkerPC
  PROVE  t \notin Workers /\ t \in Threads
<1>1. FrameOK(t, Top(t)) /\ Top(t).pc = a
  BY TopOK DEF At
<1> QED BY <1>1 DEF FrameOK, Actors

LEMMA IdleIs ==
  ASSUME NEW t \in Threads
  PROVE  t \in Actors /\ t \notin Workers /\ Home[t] \in Procs
BY SessionAssumption DEF Actors

LEMMA FoundIs ==
  ASSUME SessionType, NEW p, NEW q, NEW i, i = dbg_find_item(p, q), i # NoItem
  PROVE  i \in Items /\ item[i].active
<1>1. \E k \in 1 .. Len(list) : FirstMatch(k, p, q)
  BY DEF dbg_find_item
<1> DEFINE m == CHOOSE k \in 1 .. Len(list) : FirstMatch(k, p, q)
<1>2. m \in 1 .. Len(list) /\ FirstMatch(m, p, q)
  BY <1>1
<1>3. i = list[m]
  BY <1>1 DEF dbg_find_item
<1> HIDE DEF m
<1>4. list[m] \in Items
  BY <1>2 DEF SessionType
<1> QED BY <1>2, <1>3, <1>4 DEF FirstMatch, Matches

\* Item i becomes r.
LEMMA ItemSet ==
  ASSUME SessionType, NEW i \in Items, NEW r \in ItemType, item' = [item EXCEPT ![i] = r]
  PROVE  /\ item' \in [Items -> ItemType] /\ item'[i] = r
         /\ \A j \in Items : j # i => item'[j] = item[j]
<1>1. item \in [Items -> ItemType]
  BY DEF SessionType
<1> HIDE DEF ItemType
<1> QED BY <1>1

\* dbg_find_item, with its reference, by frame n of t.
LEMMA FoundInv ==
  ASSUME SessionInv, NEW t \in Actors, t \notin Workers, NEW n, NEW f \in FrameType,
         Moved(t, n, f), stack' \in [Actors -> Seq(FrameType)],
         \A i \in Items : <<t, n>> \notin Holders(i),
         f.item \in Items, item[f.item].active, item' = Referenced(f.item),
         UNCHANGED <<list, deletes, leaked, alive, wild>>, terms' \in 0 .. MaxTerms,
         f.pc \in {"filter", "chan", "put", "kill", "report", "last"}
  PROVE  SessionInv'
<1> DEFINE i == f.item
<1>1. SessionType /\ ItemInv /\ ListInv
  BY DEF SessionInv
<1>2. /\ item[i] \in ItemType /\ item[i].refs + 1 \in Int
      /\ item' = [item EXCEPT ![i] = [item[i] EXCEPT !.refs = item[i].refs + 1]]
  BY <1>1 DEF SessionType, ItemType, Referenced
<1>3. /\ item'[i] = [item[i] EXCEPT !.refs = item[i].refs + 1]
      /\ \A j \in Items : j # i => item'[j] = item[j]
      /\ item' \in [Items -> ItemType]
  <2>1. [item[i] EXCEPT !.refs = item[i].refs + 1] \in ItemType
    BY <1>2 DEF ItemType
  <2> QED BY <1>1, <1>2, <2>1, ItemSet
<1>4. /\ item'[i].refs = item[i].refs + 1 /\ item'[i].st = item[i].st
      /\ item'[i].active = item[i].active /\ item'[i].chan = item[i].chan
      /\ item'[i].debugger = item[i].debugger /\ item'[i].debugged = item[i].debugged
  BY <1>2, <1>3 DEF ItemType
<1>5. SessionType'
  BY <1>1, <1>3 DEF SessionType
<1>6. item[i].st # "unused" /\ item[i].chan # "none"
  BY <1>1 DEF ItemInv, Unused
<1>7. ItemInv'
  <2>1. ASSUME NEW j \in Items, j # i
        PROVE  item'[j] = item[j] /\ deletes'[j] = deletes[j] /\ leaked'[j] = leaked[j]
    BY <1>3, <2>1
  <2> QED BY <1>1, <1>4, <1>6, <2>1 DEF ItemInv
<1>8. \A j \in Items : /\ item'[j].st = item[j].st /\ item'[j].chan = item[j].chan
                       /\ item'[j].active = item[j].active
  BY <1>3, <1>4
<1>9. Mono(t, n)
  BY <1>1, <1>8 DEF Mono, SessionType
<1>10. ListInv'
  BY <1>1, <1>8, <1>9, ListSame
<1>11. FrameOK(t, f)'
  <2>1. f.item # NoItem /\ item'[i].st # "unused" /\ item'[i].chan # "none"
    BY <1>4, <1>6, SessionAssumption
  <2> QED BY <2>1 DEF FrameOK
<1>12. Holds(f)
  BY SessionAssumption DEF Holds
<1>13. Gains(t, n, f) /\ DeletesOwn(t, n)
  BY DEF Gains, DeletesOwn
<1>14. ASSUME NEW j \in Items, item'[j].st = "live" PROVE Counted(t, n, f, j)
  <2>1. item[j].st = "live" /\ Had(t, n, j) = 0
    BY <1>8, <1>14 DEF Had
  <2>2. item'[j].refs = item[j].refs + Has(f, j) /\ Has(f, j) \in Int
    BY <1>3, <1>4, <1>12, <1>2 DEF Has, SessionType, ItemType
  <2>3. deletes[j] \in Int /\ leaked[j] \in Int /\ item[j].refs \in Int
    BY <1>1 DEF SessionType, ItemType
  <2> QED BY <2>1, <2>2, <2>3 DEF Counted
<1>15. ASSUME NEW j \in Items, Dead(j)' PROVE Dead(j)
  BY <1>8, <1>15, DeadSame
<1> QED BY <1>5, <1>7, <1>9, <1>10, <1>11, <1>13, <1>14, <1>15, MovedInv DEF Creating

LEMMA FrameIs ==
  ASSUME NEW pc \in FramePC, NEW q \in Procs, NEW i \in Items \cup {NoItem},
         NEW kill \in BOOLEAN, NEW next \in {"done", "refused", "loop", "exit", "died"}
  PROVE  /\ Frame(pc, q, i, kill, next) \in FrameType
         /\ Frame(pc, q, i, kill, next).pc = pc /\ Frame(pc, q, i, kill, next).item = i
         /\ Frame(pc, q, i, kill, next).next = next
BY DEF Frame, FrameType

\* A call begins with a dbg_find_item that finds a session.
LEMMA StartFound ==
  ASSUME SessionInv, NEW t \in Threads, stack[t] = << >>, NEW p, NEW q, NEW i,
         i = dbg_find_item(p, q), i # NoItem, item' = Referenced(i),
         NEW pc \in {"filter", "chan", "put", "last"}, NEW r \in Procs,
         NEW next \in {"done", "refused", "loop", "exit", "died"},
         Start(t, Frame(pc, r, i, FALSE, next)),
         UNCHANGED <<list, deletes, leaked, alive, wild>>, terms' \in 0 .. MaxTerms
  PROVE  SessionInv'
<1>1. SessionType /\ t \in Actors /\ t \notin Workers
  BY IdleIs DEF SessionInv
<1>2. i \in Items /\ item[i].active
  BY <1>1, FoundIs
<1>3. PICK f \in FrameType : /\ f = Frame(pc, r, i, FALSE, next)
                            /\ f.pc = pc /\ f.item = i
  <2>1. pc \in FramePC BY DEF FramePC
  <2>2. ASSUME NEW k \in BOOLEAN, k = FALSE
        PROVE  /\ Frame(pc, r, i, k, next) \in FrameType
               /\ Frame(pc, r, i, k, next).pc = pc /\ Frame(pc, r, i, k, next).item = i
    BY <1>2, <2>1, FrameIs
  <2> QED BY <2>2, Zenon
<1>4. stack' \in [Actors -> Seq(FrameType)] /\ Moved(t, 1, f)
  BY <1>1, <1>3, StartMoves
<1>5. \A j \in Items : <<t, 1>> \notin Holders(j)
  BY <1>1, EmptyHolds
<1>6. /\ f.item \in Items /\ item[f.item].active /\ item' = Referenced(f.item)
      /\ f.pc \in {"filter", "chan", "put", "kill", "report", "last"}
  BY <1>2, <1>3
<1>7. PICK n : n = 1
  OBVIOUS
<1>8. Moved(t, n, f) /\ \A j \in Items : <<t, n>> \notin Holders(j)
  BY <1>4, <1>5, <1>7
<1> QED BY <1>1, <1>4, <1>6, <1>8, FoundInv

\* A call begins without a session.
LEMMA StartPlain ==
  ASSUME SessionInv, NEW t \in Threads, stack[t] = << >>,
         NEW pc \in {"new", "loop", "last", "refused"}, NEW r \in Procs, NEW kill \in BOOLEAN,
         NEW next \in {"done", "refused", "loop", "exit", "died"},
         Start(t, Frame(pc, r, NoItem, kill, next)),
         UNCHANGED <<item, list, deletes, leaked, alive, wild>>, terms' \in 0 .. MaxTerms
  PROVE  SessionInv'
<1>1. SessionType /\ t \in Actors /\ t \notin Workers
  BY IdleIs DEF SessionInv
<1>2. PICK f \in FrameType : /\ f = Frame(pc, r, NoItem, kill, next)
                            /\ f.pc = pc /\ f.item = NoItem
  <2>1. pc \in FramePC BY DEF FramePC
  <2> QED BY <2>1, FrameIs
<1>3. stack' \in [Actors -> Seq(FrameType)] /\ Moved(t, 1, f)
  BY <1>1, <1>2, StartMoves
<1>4. \A j \in Items : <<t, 1>> \in Holders(j) <=> Holds(f) /\ f.item = j
  BY <1>1, <1>2, EmptyHolds DEF Holds
<1>5. SessionType'
  BY <1>1, <1>3 DEF SessionType
<1>6. FrameOK(t, f)
  BY <1>1, <1>2 DEF FrameOK, Working
<1> QED BY <1>1, <1>2, <1>3, <1>4, <1>5, <1>6, PlainInv DEF Creating

LEMMA LookupInv ==
  ASSUME SessionInv, NEW t \in Threads, Idle(t), NEW p, NEW q \in Procs,
         NEW pc \in {"filter", "chan", "put"}, Lookup(t, p, q, pc, "done")
  PROVE  SessionInv'
<1>1. PICK i : i = dbg_find_item(p, q)
  OBVIOUS
<1>2. /\ i # NoItem /\ item' = Referenced(i) /\ Start(t, Frame(pc, q, i, FALSE, "done"))
      /\ UNCHANGED <<list, deletes, leaked, alive, wild, terms>>
  BY <1>1 DEF Lookup
<1>3. stack[t] = << >> /\ terms' \in 0 .. MaxTerms
  BY <1>2 DEF Idle, SessionInv, SessionType
<1> QED BY <1>1, <1>2, <1>3, StartFound

LEMMA AttachInv ==
  ASSUME SessionInv, NEW t \in Threads, NEW q \in Procs, Attach(t, q)
  PROVE  SessionInv'
<1>1. PICK i : i = dbg_find_item(NoProc, q)
  OBVIOUS
<1>2. stack[t] = << >> /\ UNCHANGED <<list, deletes, leaked, alive, wild, terms>>
  BY DEF Attach, Idle
<1>3. terms' \in 0 .. MaxTerms
  BY <1>2 DEF SessionInv, SessionType
<1>4. CASE i = NoItem
  <2>1. item' = item /\ Start(t, Frame("new", q, NoItem, FALSE, "done"))
    BY <1>1, <1>4 DEF Attach
  <2>2. ASSUME NEW k \in BOOLEAN, k = FALSE PROVE SessionInv'
    <3>1. Start(t, Frame("new", q, NoItem, k, "done"))
      BY <2>1, <2>2
    <3> QED BY <1>2, <1>3, <2>1, <3>1, StartPlain
  <2> QED BY <2>2, Zenon
<1>5. CASE i # NoItem
  <2>1. item' = Referenced(i) /\ Start(t, Frame("put", q, i, FALSE, "refused"))
    BY <1>1, <1>5 DEF Attach
  <2> QED BY <1>1, <1>2, <1>3, <1>5, <2>1, StartFound
<1> QED BY <1>4, <1>5

LEMMA AttachInvalidInv ==
  ASSUME SessionInv, NEW t \in Threads, AttachInvalid(t)
  PROVE  SessionInv'
<1>1. /\ stack[t] = << >> /\ UNCHANGED <<item, list, deletes, leaked, alive, wild, terms>>
      /\ Start(t, Frame("refused", Home[t], NoItem, FALSE, "done"))
  BY DEF AttachInvalid, Idle
<1>2. terms' \in 0 .. MaxTerms /\ Home[t] \in Procs
  BY <1>1, IdleIs DEF SessionInv, SessionType
<1>3. ASSUME NEW k \in BOOLEAN, k = FALSE PROVE SessionInv'
  <2>1. Start(t, Frame("refused", Home[t], NoItem, k, "done"))
    BY <1>1, <1>3
  <2> QED BY <1>1, <1>2, <2>1, StartPlain
<1> QED BY <1>3, Zenon

LEMMA TermsNext ==
  ASSUME SessionType, terms < MaxTerms, terms' = terms + 1
  PROVE  terms' \in 0 .. MaxTerms
BY SessionAssumption DEF SessionType

LEMMA TerminateInv ==
  ASSUME SessionInv, NEW t \in Threads, NEW q \in Procs, NewNtTerminateProcess(t, q)
  PROVE  SessionInv'
<1>1. /\ stack[t] = << >> /\ UNCHANGED <<item, list, deletes, leaked, alive, wild>>
      /\ Start(t, Frame("loop", q, NoItem, TRUE, "loop"))
  BY DEF NewNtTerminateProcess, Idle
<1>2. terms' \in 0 .. MaxTerms
  BY TermsNext DEF SessionInv, NewNtTerminateProcess
<1>3. ASSUME NEW k \in BOOLEAN, k = TRUE PROVE SessionInv'
  <2>1. Start(t, Frame("loop", q, NoItem, k, "loop"))
    BY <1>1, <1>3
  <2> QED BY <1>1, <1>2, <2>1, StartPlain
<1> QED BY <1>3, Zenon

LEMMA TerminateTwoInv ==
  ASSUME SessionInv, NEW t \in Threads, NEW q \in Procs, NEW w \in Procs,
         dbg_terminate_process(t, q, w)
  PROVE  SessionInv'
<1> DEFINE g == Frame("loop", w, NoItem, FALSE, "loop")
<1>1. /\ stack[t] = << >> /\ UNCHANGED <<item, list, deletes, leaked, alive, wild>>
      /\ SessionType /\ t \in Actors /\ t \notin Workers
  BY IdleIs DEF dbg_terminate_process, Idle, SessionInv
<1>2. terms' \in 0 .. MaxTerms
  BY TermsNext DEF SessionInv, dbg_terminate_process
<1>3. PICK f \in FrameType : /\ f = Frame("loop", q, NoItem, TRUE, "loop")
                            /\ f.pc = "loop" /\ f.item = NoItem
  <2>1. /\ Frame("loop", q, NoItem, TRUE, "loop") \in FrameType
        /\ Frame("loop", q, NoItem, TRUE, "loop").pc = "loop"
        /\ Frame("loop", q, NoItem, TRUE, "loop").item = NoItem
    BY DEF Frame, FrameType, FramePC
  <2> QED BY <2>1
<1>4. g \in FrameType /\ g.pc = "loop" /\ g.item = NoItem
  BY DEF Frame, FrameType, FramePC
<1>5. stack' = [stack EXCEPT ![t] = <<g, f>>]
  BY <1>3 DEF dbg_terminate_process
<1> HIDE DEF g
<1>6. stack' \in [Actors -> Seq(FrameType)] /\ Moved(t, 1, f)
  BY <1>1, <1>3, <1>4, <1>5, StartTwoMoves
<1>7. \A j \in Items : <<t, 1>> \in Holders(j) <=> Holds(f) /\ f.item = j
  BY <1>1, <1>3, EmptyHolds DEF Holds
<1>8. SessionType'
  BY <1>1, <1>2, <1>6 DEF SessionType
<1>9. FrameOK(t, f)
  BY <1>1, <1>3 DEF FrameOK, Working
<1> QED BY <1>1, <1>3, <1>6, <1>7, <1>8, <1>9, PlainInv DEF Creating

LEMMA LastThreadInv ==
  ASSUME SessionInv, NEW t \in Threads, NEW u \in Threads, LastThreadExit(t, u)
  PROVE  SessionInv'
<1>1. PICK i : i = dbg_find_item(NoProc, Home[u])
  OBVIOUS
<1>2. /\ stack[t] = << >> /\ UNCHANGED <<list, deletes, leaked, alive, wild>>
      /\ Home[u] \in Procs
  BY IdleIs DEF LastThreadExit, Idle
<1>3. terms' \in 0 .. MaxTerms
  BY TermsNext DEF SessionInv, LastThreadExit
<1>4. CASE i = NoItem
  <2>1. item' = item /\ Start(t, Frame("last", Home[u], NoItem, FALSE, "died"))
    BY <1>1, <1>4 DEF LastThreadExit
  <2>2. ASSUME NEW k \in BOOLEAN, k = FALSE PROVE SessionInv'
    <3>1. Start(t, Frame("last", Home[u], NoItem, k, "died"))
      BY <2>1, <2>2
    <3> QED BY <1>2, <1>3, <2>1, <3>1, StartPlain
  <2> QED BY <2>2, Zenon
<1>5. CASE i # NoItem
  <2>1. PICK pc \in {"chan", "last"} :
          item' = Referenced(i) /\ Start(t, Frame(pc, Home[u], i, FALSE, "died"))
    BY <1>1, <1>5 DEF LastThreadExit
  <2> QED BY <1>1, <1>2, <1>3, <1>5, <2>1, StartFound
<1> QED BY <1>4, <1>5

LEMMA CallInv ==
  ASSUME SessionInv, NEW t \in Threads, Call(t)
  PROVE  SessionInv'
<1>1. ASSUME NEW q \in Procs, Report(t, q) PROVE SessionInv'
  BY <1>1, LookupInv DEF Report
<1>2. Home[t] \in Procs
  BY IdleIs
<1>3. CASE NewKiDispatchException(t) \/ load_image_notify_routine(t)
  BY <1>1, <1>2, <1>3
     DEF NewKiDispatchException, dbg_process_exception, load_image_notify_routine
<1>4. ASSUME NEW q \in Procs, NewNtCreateThread(t, q) \/ NewNtTerminateThread(t, q)
      PROVE  SessionInv'
  BY <1>1, <1>4 DEF NewNtCreateThread, NewNtTerminateThread
<1>5. ASSUME NEW q \in Procs,
             dbg_set_filter(t, q) \/ dbg_get_message(t, q) \/ dbg_countinue(t, q)
      PROVE  SessionInv'
  BY <1>5, LookupInv DEF dbg_set_filter, dbg_get_message, dbg_countinue
<1> QED BY <1>3, <1>4, <1>5, AttachInv, AttachInvalidInv, TerminateInv, TerminateTwoInv,
           LastThreadInv DEF Call

\* The steps that change no item.
LEMMA PlainSteps ==
  ASSUME SessionInv, NEW t \in Actors,
         \/ AttachRefused(t) \/ Answered(t) \/ LeaveChannel(t) \/ ReportSkipped(t)
  PROVE  SessionInv'
<1>1. SessionType
  BY DEF SessionInv
<1>2. CASE AttachRefused(t)
  <2>1. /\ At(t, "refused") /\ Goto(t, "done")
        /\ UNCHANGED <<item, list, deletes, leaked, alive, terms>> /\ wild' \in {wild, TRUE}
    BY <1>2 DEF AttachRefused
  <2>2. wild' \in BOOLEAN
    BY <1>1, <2>1, Zenon DEF SessionType
  <2>3. alive' \subseteq Procs /\ terms' \in 0 .. MaxTerms
    BY <1>1, <2>1 DEF SessionType
  <2>4. "refused" \in FramePC /\ "done" \in FramePC /\ "done" \notin Creating
        /\ "refused" \notin HoldPC /\ "done" \notin HoldPC /\ "done" \notin Working
        /\ "done" \in WorkerPC
    BY DEF FramePC, Creating, HoldPC, Working, WorkerPC
  <2> QED BY <2>1, <2>2, <2>3, <2>4, GotoPlain
<1>3. CASE Answered(t) \/ LeaveChannel(t)
  <2>1. PICK b : b = AfterChannel(t)
    OBVIOUS
  <2>2. b \in {"deact", "last", "put"} /\ (t \in Workers => b = "deact")
    <3>1. CASE t \in Workers
      <4>1. Top(t).next = "done"
        BY <1>3, <3>1, TopOK DEF FrameOK, At, Answered, LeaveChannel
      <4>2. ~(Top(t).next = "died")
        BY <4>1
      <4> QED BY <2>1, <3>1, <4>2 DEF AfterChannel
    <3>2. CASE t \notin Workers /\ Top(t).next = "died"
      BY <2>1, <3>2 DEF AfterChannel
    <3>3. CASE t \notin Workers /\ Top(t).next # "died"
      <4>1. ~(t \in Workers) /\ ~(Top(t).next = "died")
        BY <3>3
      <4> QED BY <2>1, <4>1 DEF AfterChannel
    <3> QED BY <3>1, <3>2, <3>3
  <2>3. /\ At(t, "chan") /\ Goto(t, b)
        /\ UNCHANGED <<item, list, deletes, leaked, alive, terms, wild>>
    <3>1. CASE Answered(t) BY <2>1, <3>1 DEF Answered
    <3>2. CASE LeaveChannel(t) BY <2>1, <3>2 DEF LeaveChannel
    <3> QED BY <1>3, <3>1, <3>2
  <2>4. alive' \subseteq Procs /\ terms' \in 0 .. MaxTerms /\ wild' \in BOOLEAN
    BY <1>1, <2>3 DEF SessionType
  <2>5. "chan" \in FramePC /\ b \in FramePC /\ b \notin Creating
        /\ "chan" \in HoldPC /\ b \in HoldPC /\ "chan" \in Working
        /\ (t \in Workers => b \in WorkerPC)
    BY <2>2 DEF FramePC, Creating, HoldPC, Working, WorkerPC
  <2>6. b \notin {"put0", "release", "unlist", "unlist0"}
    BY <2>2
  <2> QED BY <2>3, <2>4, <2>5, <2>6, GotoPlain
<1>4. CASE ReportSkipped(t)
  <2>1. /\ At(t, "report") /\ Goto(t, "put")
        /\ UNCHANGED <<item, list, deletes, leaked, alive, terms, wild>>
    BY <1>4 DEF ReportSkipped
  <2>2. alive' \subseteq Procs /\ terms' \in 0 .. MaxTerms /\ wild' \in BOOLEAN
    BY <1>1, <2>1 DEF SessionType
  <2>3. "report" \in FramePC /\ "put" \in FramePC /\ "put" \notin Creating
        /\ "report" \in HoldPC /\ "put" \in HoldPC /\ "report" \in Working
        /\ "put" \in WorkerPC
    BY DEF FramePC, Creating, HoldPC, Working, WorkerPC
  <2> QED BY <2>1, <2>2, <2>3, GotoPlain
<1> QED BY <1>2, <1>3, <1>4

LEMMA FindDebuggedInv ==
  ASSUME SessionInv, NEW t \in Actors, FindDebugged(t) \/ FindOwn(t)
  PROVE  SessionInv'
<1>1. /\ SessionType /\ UNCHANGED <<list, deletes, leaked, alive, terms, wild>>
      /\ At(t, "loop") \/ At(t, "own")
  BY DEF FindDebugged, FindOwn, SessionInv
<1>2. /\ alive' \subseteq Procs /\ terms' \in 0 .. MaxTerms /\ wild' \in BOOLEAN
      /\ t \notin Workers /\ stack[t] # << >>
  <2>1. alive' \subseteq Procs /\ terms' \in 0 .. MaxTerms /\ wild' \in BOOLEAN
    BY <1>1 DEF SessionType
  <2>2. "loop" \notin WorkerPC /\ "own" \notin WorkerPC
    BY DEF WorkerPC
  <2> QED BY <1>1, <2>1, <2>2, NotWorker DEF At
<1>3. /\ Top(t) \in FrameType /\ Top(t).pc \in {"loop", "own"}
      /\ \A i : <<t, Len(stack[t])>> \notin Holders(i)
  <2>1. Top(t) \in FrameType /\ Top(t).pc \in {"loop", "own"}
    BY <1>1, <1>2, TopOK DEF At
  <2>2. ~Holds(Top(t))
    BY <2>1 DEF Holds
  <2> QED BY <1>1, <1>2, <2>1, <2>2, TopHolds
\* A session is found ...
<1>4. ASSUME NEW p, NEW q, NEW i, i = dbg_find_item(p, q), i # NoItem, item' = Referenced(i),
             NEW f \in FrameType, f.item = i, f.pc \in {"kill", "report"}, Put(t, f)
      PROVE  SessionInv'
  <2>1. i \in Items /\ item[i].active
    BY <1>1, <1>4, FoundIs
  <2>2. stack' \in [Actors -> Seq(FrameType)] /\ Moved(t, Len(stack[t]), f)
    BY <1>1, <1>2, <1>4, PutMoves
  <2> QED BY <1>1, <1>2, <1>3, <1>4, <2>1, <2>2, FoundInv
\* ... or not.
<1>5. ASSUME NEW a, NEW b, <<a, b>> \in {<<"loop", "own">>, <<"own", "exit">>},
             At(t, a), Goto(t, b), item' = item
      PROVE  SessionInv'
  <2>1. a \in FramePC /\ b \in FramePC /\ b \notin Creating /\ a \notin HoldPC
        /\ b \notin HoldPC /\ b \notin Working /\ a # "chan_set"
        /\ b \notin {"put0", "release", "unlist", "unlist0"}
    BY <1>5 DEF FramePC, Creating, HoldPC, Working
  <2> QED BY <1>1, <1>2, <1>5, <2>1, GotoPlain
<1>6. CASE FindDebugged(t)
  <2>1. PICK i : i = dbg_find_item(Top(t).proc, NoProc)
    OBVIOUS
  <2>2. CASE i = NoItem
    BY <1>5, <1>6, <2>1, <2>2 DEF FindDebugged
  <2>3. CASE i # NoItem
    <3>1. i \in Items
      BY <1>1, <2>1, <2>3, FoundIs
    <3>2. PICK f \in FrameType : /\ f = [Top(t) EXCEPT !.pc = "kill", !.item = i]
                                /\ f.pc = "kill" /\ f.item = i
      <4>1. [Top(t) EXCEPT !.pc = "kill", !.item = i] \in FrameType
        BY <1>3, <3>1 DEF FrameType, FramePC
      <4> QED BY <1>3, <4>1 DEF FrameType
    <3>3. item' = Referenced(i) /\ Put(t, f)
      BY <1>6, <2>1, <2>3, <3>2 DEF FindDebugged
    <3> QED BY <1>4, <2>1, <2>3, <3>2, <3>3
  <2> QED BY <2>2, <2>3
<1>7. CASE FindOwn(t)
  <2>1. PICK i : i = dbg_find_item(NoProc, Top(t).proc)
    OBVIOUS
  <2>2. CASE i = NoItem
    BY <1>5, <1>7, <2>1, <2>2 DEF FindOwn
  <2>3. CASE i # NoItem
    <3>1. i \in Items
      BY <1>1, <2>1, <2>3, FoundIs
    <3>2. PICK f \in FrameType :
            /\ f = [Top(t) EXCEPT !.pc = "report", !.item = i, !.next = "exit"]
            /\ f.pc = "report" /\ f.item = i
      <4>1. [Top(t) EXCEPT !.pc = "report", !.item = i, !.next = "exit"] \in FrameType
        BY <1>3, <3>1 DEF FrameType, FramePC
      <4> QED BY <1>3, <4>1 DEF FrameType
    <3>3. item' = Referenced(i) /\ Put(t, f)
      BY <1>7, <2>1, <2>3, <3>2 DEF FindOwn
    <3> QED BY <1>4, <2>1, <2>3, <3>2, <3>3
  <2> QED BY <2>2, <2>3
<1> QED BY <1>6, <1>7

\* dbg_process_terminated is called from the innermost frame.
LEMMA PushPlain ==
  ASSUME SessionInv, NEW t \in Actors, t \notin Workers, stack[t] # << >>,
         NEW f \in FrameType, NEW g \in FrameType, g.pc = "loop", g.item = NoItem,
         stack' = [stack EXCEPT ![t] = <<g, f>> \o Tail(@)],
         UNCHANGED <<item, list, deletes, leaked, alive, terms, wild>>,
         f.item = Top(t).item, Top(t).pc # "chan_set",
         f.pc \in {"put", "died", "deact"}, f.pc # "died" => f.item # NoItem,
         Holds(f) <=> Holds(Top(t))
  PROVE  SessionInv'
<1>1. SessionType /\ FrameOK(t, Top(t))
  BY TopOK DEF SessionInv
<1>2. stack' \in [Actors -> Seq(FrameType)] /\ Moved(t, Len(stack[t]), f)
  BY <1>1, PushMoves
<1>3. SessionType'
  BY <1>1, <1>2 DEF SessionType
<1>4. FrameOK(t, f)
  <2>1. f.pc \in Working => f.item # NoItem
    BY DEF Working
  <2>2. f.item # NoItem => item[f.item].st # "unused" /\ item[f.item].chan # "none"
    BY <1>1 DEF FrameOK
  <2> QED BY <2>1, <2>2 DEF FrameOK
<1>5. \A i : <<t, Len(stack[t])>> \in Holders(i) <=> Holds(f) /\ f.item = i
  BY <1>1, TopHolds
<1> QED BY <1>2, <1>3, <1>4, <1>5, PlainInv DEF Creating

LEMMA ReportLastInv ==
  ASSUME SessionInv, NEW t \in Actors, ReportLast(t)
  PROVE  SessionInv'
<1>1. /\ stack[t] # << >> /\ Top(t).pc = "last" /\ Top(t) \in FrameType
      /\ UNCHANGED <<item, list, deletes, leaked, alive, terms, wild>>
  BY TopOK DEF ReportLast, At
<1>2. t \notin Workers
  <2>1. "last" \notin WorkerPC BY DEF WorkerPC
  <2> QED BY <2>1, NotWorker DEF ReportLast
<1>3. PICK b \in {"died", "put"} : b = IF Top(t).item = NoItem THEN "died" ELSE "put"
  OBVIOUS
<1>4. PICK f \in FrameType : /\ f = [Top(t) EXCEPT !.pc = b] /\ f.pc = b /\ f.item = Top(t).item
  <2>1. b \in FramePC BY <1>3 DEF FramePC
  <2>2. [Top(t) EXCEPT !.pc = b] \in FrameType BY <1>1, <2>1 DEF FrameType
  <2> QED BY <1>1, <2>2 DEF FrameType
<1>5. PICK g \in FrameType : /\ g = Frame("loop", Top(t).proc, NoItem, FALSE, "loop")
                            /\ g.pc = "loop" /\ g.item = NoItem
  <2>1. Top(t).proc \in Procs BY <1>1 DEF FrameType
  <2>2. /\ Frame("loop", Top(t).proc, NoItem, FALSE, "loop") \in FrameType
        /\ Frame("loop", Top(t).proc, NoItem, FALSE, "loop").pc = "loop"
        /\ Frame("loop", Top(t).proc, NoItem, FALSE, "loop").item = NoItem
    BY <2>1 DEF Frame, FrameType, FramePC
  <2> QED BY <2>2
<1>6. stack' = [stack EXCEPT ![t] = <<g, f>> \o Tail(@)]
  BY <1>3, <1>4, <1>5 DEF ReportLast
<1>7. Holds(f) <=> Holds(Top(t))
  BY <1>1, <1>3, <1>4 DEF Holds
<1>8. f.pc \in {"put", "died", "deact"} /\ (f.pc # "died" => f.item # NoItem)
  BY <1>3, <1>4
<1> QED BY <1>1, <1>2, <1>4, <1>5, <1>6, <1>7, <1>8, PushPlain

LEMMA NestedInv ==
  ASSUME SessionInv, NEW t \in Actors, At(t, "kill"), NEW q \in Procs, NestedTerminate(t, q),
         UNCHANGED <<item, list, deletes, leaked, alive, terms, wild>>
  PROVE  SessionInv'
<1>1. /\ stack[t] # << >> /\ Top(t).pc = "kill" /\ Top(t) \in FrameType /\ FrameOK(t, Top(t))
  BY TopOK DEF At
<1>2. t \notin Workers
  <2>1. "kill" \notin WorkerPC BY DEF WorkerPC
  <2> QED BY <2>1, NotWorker
<1>3. PICK f \in FrameType :
        f = [Top(t) EXCEPT !.pc = "deact"] /\ f.pc = "deact" /\ f.item = Top(t).item
  <2>1. "deact" \in FramePC BY DEF FramePC
  <2>2. [Top(t) EXCEPT !.pc = "deact"] \in FrameType BY <1>1, <2>1 DEF FrameType
  <2> QED BY <1>1, <2>2 DEF FrameType
<1>4. Top(t).item # NoItem
  BY <1>1 DEF FrameOK, Working
<1>6. PICK g \in FrameType : /\ g = Frame("loop", q, NoItem, TRUE, "loop")
                            /\ g.pc = "loop" /\ g.item = NoItem
  <2>1. /\ Frame("loop", q, NoItem, TRUE, "loop") \in FrameType
        /\ Frame("loop", q, NoItem, TRUE, "loop").pc = "loop"
        /\ Frame("loop", q, NoItem, TRUE, "loop").item = NoItem
    BY DEF Frame, FrameType, FramePC
  <2> QED BY <2>1
<1>7. stack' = [stack EXCEPT ![t] = <<g, f>> \o Tail(@)]
  BY <1>3, <1>6 DEF NestedTerminate
<1>8. Holds(f) <=> Holds(Top(t))
  BY <1>1, <1>3 DEF Holds
<1> QED BY <1>1, <1>2, <1>3, <1>4, <1>6, <1>7, <1>8, PushPlain

LEMMA KillInv ==
  ASSUME SessionInv, NEW t \in Actors, KillDebugged(t) \/ KillStray(t)
  PROVE  SessionInv'
<1>1. /\ At(t, "kill") /\ stack[t] # << >> /\ Top(t) \in FrameType /\ FrameOK(t, Top(t))
      /\ Top(t).pc = "kill"
      /\ UNCHANGED <<item, list, deletes, leaked, alive, terms, wild>>
  BY TopOK DEF KillDebugged, KillStray, At
<1>2. CASE KillDebugged(t)
  <2>1. item[Top(t).item].debugged \in Procs
    <3>1. Top(t).item # NoItem /\ item[Top(t).item].st # "unused"
      BY <1>1 DEF FrameOK, Working
    <3>2. Top(t).item \in Items
      BY <1>1, <3>1 DEF FrameType
    <3> QED BY <3>1, <3>2 DEF SessionInv, ItemInv
  <2>2. NestedTerminate(t, item[Top(t).item].debugged)
    BY <1>2 DEF KillDebugged, open_process_by_ptr
  <2> QED BY <1>1, <2>1, <2>2, NestedInv
<1>3. CASE KillStray(t)
  <2>1. PICK q \in {NoProc} \cup Procs :
          IF q = NoProc THEN Goto(t, "deact") ELSE NestedTerminate(t, q)
    BY <1>3 DEF KillStray, open_process_by_ptr
  <2>2. CASE q = NoProc
    <3>1. Goto(t, "deact")
      BY <2>1, <2>2
    <3>2. alive' \subseteq Procs /\ terms' \in 0 .. MaxTerms /\ wild' \in BOOLEAN
      BY <1>1 DEF SessionInv, SessionType
    <3>3. "kill" \in FramePC /\ "deact" \in FramePC /\ "deact" \notin Creating
          /\ "kill" \in HoldPC /\ "deact" \in HoldPC /\ "kill" \in Working
          /\ "deact" \in WorkerPC
      BY DEF FramePC, Creating, HoldPC, Working, WorkerPC
    <3> QED BY <1>1, <3>1, <3>2, <3>3, GotoPlain
  <2>3. CASE q # NoProc
    <3>1. q \in Procs /\ NestedTerminate(t, q)
      BY <2>1, <2>3
    <3> QED BY <1>1, <3>1, NestedInv
  <2> QED BY <2>2, <2>3
<1> QED BY <1>2, <1>3

LEMMA PopSteps ==
  ASSUME SessionInv, NEW t \in Actors, Return(t) \/ Died(t) \/ Exit(t)
  PROVE  SessionInv'
<1>1. /\ stack[t] # << >> /\ Top(t).pc \in {"done", "died", "exit"}
      /\ stack' = [stack EXCEPT ![t] = Tail(@)] /\ alive' \subseteq alive
      /\ UNCHANGED <<item, list, deletes, leaked, terms, wild>>
  <2>1. CASE Return(t) BY <2>1 DEF Return, At
  <2>2. CASE Died(t) BY <2>2 DEF Died, At
  <2>3. CASE Exit(t) BY <2>3 DEF Exit, At
  <2> QED BY <2>1, <2>2, <2>3
<1>2. SessionType
  BY DEF SessionInv
<1>3. stack' \in [Actors -> Seq(FrameType)] /\ Popped(t, Len(stack[t]))
  BY <1>1, <1>2, PopMoves
<1>4. SessionType'
  BY <1>1, <1>2, <1>3 DEF SessionType
<1>5. \A i : <<t, Len(stack[t])>> \notin Holders(i)
  BY <1>1, <1>2, TopHolds DEF Holds
<1> QED BY <1>1, <1>3, <1>4, <1>5, PoppedInv

LEMMA UnusedFree ==
  ASSUME SessionInv, NEW i \in Items, item[i].st = "unused"
  PROVE  Holders(i) = {}
<1>1. SUFFICES ASSUME NEW x \in Holders(i) PROVE FALSE
  OBVIOUS
<1>2. PICK u \in Actors : \E d \in 1 .. Len(stack[u]) : x = <<u, d>>
  BY HoldersArePairs
<1>3. PICK d \in 1 .. Len(stack[u]) : x = <<u, d>>
  BY <1>2
<1>4. Outer(stack[u], d).item = i /\ i # NoItem
  BY <1>3, HoldersAre, SessionAssumption
<1> QED BY <1>4 DEF SessionInv, FrameInv, FrameOK

LEMMA NewItemInv ==
  ASSUME SessionInv, NEW t \in Threads, At(t, "new"), NEW i \in Items,
         NewItem(t, i, Home[t], 2)
  PROVE  SessionInv'
<1> DEFINE n == Len(stack[t])
           r == [Unused EXCEPT !.st = "live", !.debugger = Home[t],
                               !.debugged = Top(t).proc, !.refs = 2]
<1>1. /\ SessionType /\ ItemInv /\ ListInv /\ t \in Actors /\ t \notin Workers
      /\ Home[t] \in Procs /\ stack[t] # << >> /\ Top(t).pc = "new" /\ Top(t) \in FrameType
  BY IdleIs, TopOK DEF SessionInv, At
<1>2. /\ item[i].st = "unused" /\ item' = [item EXCEPT ![i] = r] /\ list' = Append(list, i)
      /\ UNCHANGED <<alive, deletes, leaked, terms, wild>>
  BY DEF NewItem
<1>3. PICK f \in FrameType : /\ f = [Top(t) EXCEPT !.pc = "chan_set", !.item = i]
                            /\ f.pc = "chan_set" /\ f.item = i
  <2>1. "chan_set" \in FramePC BY DEF FramePC
  <2>2. [Top(t) EXCEPT !.pc = "chan_set", !.item = i] \in FrameType
    BY <1>1, <2>1 DEF FrameType
  <2> QED BY <1>1, <2>2 DEF FrameType
<1>4. stack' \in [Actors -> Seq(FrameType)] /\ Moved(t, n, f)
  BY <1>1, <1>3, PutMoves DEF NewItem
<1>5. Top(t).proc \in Procs
  BY <1>1 DEF FrameType
<1>6. /\ r.st = "live" /\ ~r.active /\ r.refs = 2 /\ r.chan = "none"
      /\ r.debugger \in Procs /\ r.debugged \in Procs /\ r \in ItemType
  <2>1. Unused \in ItemType
    BY DEF Unused, ItemType
  <2>2. ASSUME NEW k \in Int, k = 2 PROVE r \in ItemType
    BY <1>1, <1>5, <2>1, <2>2 DEF ItemType
  <2>3. /\ r.st = "live" /\ r.refs = 2 /\ r.chan = "none"
        /\ r.debugger = Home[t] /\ r.debugged = Top(t).proc
    BY DEF Unused
  <2>4. ~r.active
    BY Zenon DEF Unused
  <2> QED BY <1>1, <1>5, <2>2, <2>3, <2>4
<1> HIDE DEF r
<1>7. /\ item' \in [Items -> ItemType] /\ item'[i] = r
      /\ \A j \in Items : j # i => item'[j] = item[j]
  BY <1>1, <1>2, <1>6, ItemSet
<1>8. /\ list' \in Seq(Items) /\ Len(list') = Len(list) + 1 /\ list'[Len(list) + 1] = i
      /\ Len(list) \in Nat /\ \A k \in 1 .. Len(list) : list'[k] = list[k]
  <2>1. list \in Seq(Items) /\ Len(list) \in Nat
    BY <1>1 DEF SessionType
  <2>2. /\ Append(list, i) \in Seq(Items) /\ Len(Append(list, i)) = Len(list) + 1
        /\ Append(list, i)[Len(list) + 1] = i
        /\ \A k \in 1 .. Len(list) : Append(list, i)[k] = list[k]
    BY <2>1, AppendProperties
  <2> QED BY <1>2, <2>1, <2>2
<1>9. SessionType'
  BY <1>1, <1>2, <1>4, <1>7, <1>8 DEF SessionType
<1>10. item[i] = Unused /\ deletes[i] = 0 /\ leaked[i] = 0 /\ Holders(i) = {}
  BY <1>1, <1>2, UnusedFree DEF ItemInv
<1>11. ItemInv'
  <2>1. ASSUME NEW j \in Items, j # i
        PROVE  item'[j] = item[j] /\ deletes'[j] = deletes[j] /\ leaked'[j] = leaked[j]
    BY <1>2, <1>7, <2>1
  <2> QED BY <1>1, <1>6, <1>7, <2>1 DEF ItemInv
<1>12. Mono(t, n)
  <2>1. ~item[i].active /\ item[i].chan = "none"
    BY <1>10 DEF Unused
  <2>2. \A j \in Items : deletes[j] \in Nat /\ deletes'[j] = deletes[j]
    BY <1>1, <1>2 DEF SessionType
  <2> QED BY <1>2, <1>6, <1>7, <2>1, <2>2 DEF Mono
<1>13. ListInv'
  <2>1. \A k \in 1 .. Len(list') : k \in 1 .. Len(list) \/ k = Len(list) + 1
    BY <1>8
  <2>2. \A k \in 1 .. Len(list) : list[k] \in Items /\ list[k] # i
    BY <1>1, <1>2 DEF ListInv, SessionType
  <2>3. \A k \in 1 .. Len(list') : item'[list'[k]].st # "unused"
    BY <1>1, <1>6, <1>7, <1>8, <2>1, <2>2 DEF ListInv
  <2>4. \A k, l \in 1 .. Len(list') : list'[k] = list'[l] => k = l
    BY <1>1, <1>8, <2>1, <2>2 DEF ListInv
  <2>5. ASSUME NEW j \in Items, item'[j].st = "gone", deletes'[j] <= 1
        PROVE  \A k \in 1 .. Len(list') : list'[k] # j
    <3>1. j # i /\ item[j].st = "gone" /\ deletes[j] <= 1
      BY <1>2, <1>6, <1>7, <2>5
    <3> QED BY <1>1, <1>8, <2>1, <3>1 DEF ListInv
  <2> QED BY <2>3, <2>4, <2>5 DEF ListInv
<1>14. FrameOK(t, f)'
  <2>1. f.item # NoItem /\ item'[f.item].st # "unused"
    BY <1>3, <1>6, <1>7, SessionAssumption
  <2> QED BY <1>1, <1>3, <2>1 DEF FrameOK
<1>15. Gains(t, n, f) /\ DeletesOwn(t, n)
  BY <1>2, <1>3 DEF Gains, DeletesOwn
<1>16. ~item'[f.item].active /\ deletes'[f.item] = 0 /\ Holders(f.item) \subseteq {<<t, n>>}
         /\ f.item # NoItem
  BY <1>2, <1>3, <1>6, <1>7, <1>10, SessionAssumption
<1>17. \A j : <<t, n>> \notin Holders(j)
  BY <1>1, TopHolds DEF Holds
<1>18. ASSUME NEW j \in Items, item'[j].st = "live"
       PROVE  Counted(t, n, f, j) \/ CountedNew(t, n, f, j)
  <2>1. CASE j = i
    <3>1. Holds(f) BY <1>3, SessionAssumption DEF Holds
    <3> QED BY <1>2, <1>3, <1>6, <1>7, <1>10, <2>1, <3>1 DEF CountedNew
  <2>2. CASE j # i
    <3>1. Had(t, n, j) = 0 /\ Has(f, j) = 0
      BY <1>3, <1>17, <2>2 DEF Had, Has
    <3> QED BY <1>2, <1>7, <1>18, <2>2, <3>1 DEF Counted
  <2> QED BY <2>1, <2>2
<1>19. ASSUME NEW j \in Items, Dead(j)' PROVE Dead(j)
  <2>1. item'[j].st = "gone" => item[j].st = "gone"
    BY <1>6, <1>7
  <2> QED BY <1>1, <1>3, <1>4, <1>19, <2>1, DeadSame
<1> HIDE DEF n
<1> QED BY <1>1, <1>4, <1>9, <1>11, <1>12, <1>13, <1>14, <1>15, <1>16, <1>18, <1>19, MovedInv

LEMMA AttachNewInv ==
  ASSUME SessionInv, NEW t \in Actors, AttachNew(t)
  PROVE  SessionInv'
<1>1. At(t, "new") /\ "new" \notin WorkerPC
  BY DEF AttachNew, WorkerPC
<1>2. t \in Threads /\ t \notin Workers
  BY <1>1, NotWorker
<1>3. CASE \E i \in Items : NewItem(t, i, Home[t], 2)
  BY <1>1, <1>2, <1>3, NewItemInv
<1>4. CASE Goto(t, "done") /\ UNCHANGED <<item, list, alive, deletes, leaked, terms, wild>>
  <2>1. "new" \in FramePC /\ "done" \in FramePC /\ "done" \notin Creating
        /\ "new" \notin HoldPC /\ "done" \notin HoldPC /\ "done" \notin Working
    BY DEF FramePC, Creating, HoldPC, Working
  <2>2. alive' \subseteq Procs /\ terms' \in 0 .. MaxTerms /\ wild' \in BOOLEAN
    BY <1>4 DEF SessionInv, SessionType
  <2> QED BY <1>1, <1>2, <1>4, <2>1, <2>2, GotoPlain
<1> QED BY <1>3, <1>4 DEF AttachNew

\* A step on the item of the innermost frame that leaves the count alone.
LEMMA FieldInv ==
  ASSUME SessionInv, NEW t \in Actors, NEW a \in HoldPC, NEW b \in HoldPC,
         a \in Working, b \in FramePC, At(t, a), Goto(t, b),
         NEW i, i = Top(t).item, NEW r \in ItemType, item' = [item EXCEPT ![i] = r],
         r.st = item[i].st, r.refs = item[i].refs, r.chan # "none",
         r.debugger = item[i].debugger, r.debugged = item[i].debugged,
         r.active => item[i].active \/ a = "activate",
         UNCHANGED <<list, deletes, leaked, alive, terms, wild>>,
         t \in Workers => b \in WorkerPC,
         b \in Creating => a \in Creating /\ ~r.active,
         b \in {"release", "unlist"} => ~r.active, b # "unlist0"
  PROVE  SessionInv'
<1> DEFINE n == Len(stack[t])
<1>1. PICK f \in FrameType :
        /\ f.pc = b /\ f.item = Top(t).item /\ f.next = Top(t).next
        /\ Top(t) \in FrameType /\ FrameOK(t, Top(t)) /\ Top(t).pc = a
        /\ stack' \in [Actors -> Seq(FrameType)] /\ Moved(t, n, f)
        /\ \A j : <<t, n>> \in Holders(j) <=> Holds(Top(t)) /\ Top(t).item = j
  BY GotoMoves
<1>2. SessionType /\ ItemInv /\ ListInv /\ CreateInv /\ stack[t] # << >>
  BY DEF SessionInv, At
<1>3. i # NoItem /\ i \in Items /\ item[i].st # "unused"
  <2>1. i # NoItem /\ item[i].st # "unused"
    BY <1>1 DEF FrameOK
  <2> QED BY <1>1, <2>1 DEF FrameType
<1>4. /\ item' \in [Items -> ItemType] /\ item'[i] = r
      /\ \A j \in Items : j # i => item'[j] = item[j]
  BY <1>2, <1>3, ItemSet
<1>5. SessionType'
  BY <1>1, <1>2, <1>4 DEF SessionType
\* The creator of an item has it for itself.
<1>6. a \in Creating => ~item[i].active /\ deletes[i] = 0 /\ Holders(i) = {<<t, n>>}
  <2>1. n \in 1 .. Len(stack[t]) /\ Top(t) = Outer(stack[t], n)
    BY <1>2, TopIs
  <2> QED BY <1>1, <1>2, <2>1 DEF CreateInv, Creating
<1>7. a = "activate" => a \in Creating
  BY DEF Creating
<1>8. ItemInv'
  <2>1. ASSUME NEW j \in Items, j # i
        PROVE  item'[j] = item[j] /\ deletes'[j] = deletes[j] /\ leaked'[j] = leaked[j]
    BY <1>4, <2>1
  <2>2. r.active => deletes[i] = 0
    BY <1>2, <1>3, <1>6, <1>7 DEF ItemInv
  <2> QED BY <1>2, <1>3, <1>4, <2>1, <2>2 DEF ItemInv
<1>9. Mono(t, n)
  <2>1. \A j \in Items : deletes[j] \in Nat /\ deletes'[j] = deletes[j]
    BY <1>2 DEF SessionType
  <2> QED BY <1>3, <1>4, <1>6, <1>7, <2>1 DEF Mono
<1>10. \A j \in Items : item'[j].st = item[j].st /\ item'[j].refs = item[j].refs
  BY <1>4
<1>11. ListInv'
  BY <1>2, <1>9, <1>10, ListSame
<1>12. FrameOK(t, f)'
  <2>1. f.item = i /\ item'[i] = r /\ r.st # "unused"
    BY <1>1, <1>3, <1>4
  <2>2. t \in Workers => f.pc \in WorkerPC /\ f.next = "done"
    BY <1>1 DEF FrameOK
  <2> QED BY <1>1, <1>3, <2>1, <2>2 DEF FrameOK
<1>13. Holds(f) /\ Holds(Top(t)) /\ f.item = i
  BY <1>1, <1>3, HoldsIs
<1>14. Gains(t, n, f) /\ DeletesOwn(t, n)
  BY <1>1, <1>13 DEF Gains, DeletesOwn
<1>15. f.pc \in Creating => /\ ~item'[f.item].active /\ deletes'[f.item] = 0
                            /\ Holders(f.item) \subseteq {<<t, n>>} /\ f.item # NoItem
  BY <1>1, <1>3, <1>4, <1>6
<1>16. ASSUME NEW j \in Items, item'[j].st = "live" PROVE Counted(t, n, f, j)
  <2>1. Has(f, j) = Had(t, n, j)
    BY <1>1, <1>13 DEF Has, Had
  <2> QED BY <1>10, <1>16, <2>1 DEF Counted
<1>17. f.pc # "put0"
  BY <1>1 DEF HoldPC
<1>18. ASSUME NEW j \in Items, Dead(j)' PROVE Dead(j)
  BY <1>1, <1>10, <1>17, <1>18, DeadSame
<1> HIDE DEF n
<1> QED BY <1>1, <1>5, <1>8, <1>9, <1>11, <1>12, <1>14, <1>15, <1>16, <1>18, MovedInv

LEMMA WorkOn ==
  ASSUME SessionInv, NEW t \in Actors, NEW a \in Working, At(t, a)
  PROVE  /\ SessionType /\ FrameOK(t, Top(t)) /\ Top(t) \in FrameType /\ Top(t).pc = a
         /\ Top(t).item \in Items /\ Top(t).item # NoItem
         /\ item[Top(t).item] \in ItemType /\ item[Top(t).item].st # "unused"
<1>1. SessionType /\ FrameOK(t, Top(t)) /\ Top(t) \in FrameType /\ Top(t).pc = a
  BY TopOK DEF SessionInv, At
<1>2. Top(t).item # NoItem /\ item[Top(t).item].st # "unused"
  BY <1>1 DEF FrameOK
<1>3. Top(t).item \in Items
  BY <1>1, <1>2 DEF FrameType
<1> QED BY <1>1, <1>2, <1>3 DEF SessionType

\* The steps on an item that leave its count alone.
LEMMA FieldSteps ==
  ASSUME SessionInv, NEW t \in Actors,
         AttachChan(t) \/ AttachActive(t) \/ SetFilter(t) \/ Deactivate(t) \/ Release(t)
  PROVE  SessionInv'
<1> DEFINE i == Top(t).item
<1>1. CASE AttachChan(t)
  <2> DEFINE r == [item[i] EXCEPT !.chan = "open"]
  <2>1. /\ At(t, "chan_set") /\ Goto(t, "activate") /\ item' = [item EXCEPT ![i] = r]
        /\ UNCHANGED <<list, deletes, leaked, alive, terms, wild>>
    BY <1>1 DEF AttachChan
  <2>2. /\ "chan_set" \in HoldPC /\ "chan_set" \in Working /\ "activate" \in HoldPC
        /\ "activate" \in FramePC /\ "chan_set" \in Creating /\ "chan_set" \notin WorkerPC
    BY DEF HoldPC, Working, FramePC, Creating, WorkerPC
  <2>3. t \notin Workers /\ item[i] \in ItemType /\ Len(stack[t]) \in 1 .. Len(stack[t])
        /\ Top(t) = Outer(stack[t], Len(stack[t])) /\ Top(t).pc = "chan_set"
    BY <2>1, <2>2, WorkOn, NotWorker, TopIs DEF At
  <2>4. ~item[i].active
    BY <2>3 DEF SessionInv, CreateInv
  <2>5. /\ r \in ItemType /\ r.chan = "open" /\ r.st = item[i].st /\ r.refs = item[i].refs
        /\ r.debugger = item[i].debugger /\ r.debugged = item[i].debugged
        /\ r.active = item[i].active
    BY <2>3 DEF ItemType
  <2> HIDE DEF r
  <2> QED BY <2>1, <2>2, <2>3, <2>4, <2>5, FieldInv
<1>2. CASE AttachActive(t)
  <2> DEFINE r == [item[i] EXCEPT !.active = TRUE]
  <2>1. /\ At(t, "activate") /\ Goto(t, "put") /\ item' = [item EXCEPT ![i] = r]
        /\ UNCHANGED <<list, deletes, leaked, alive, terms, wild>>
    BY <1>2 DEF AttachActive
  <2>2. /\ "activate" \in HoldPC /\ "activate" \in Working /\ "put" \in HoldPC
        /\ "put" \in FramePC /\ "put" \notin Creating /\ "put" \in WorkerPC
    BY DEF HoldPC, Working, FramePC, Creating, WorkerPC
  <2>3. item[i] \in ItemType /\ item[i].chan # "none"
    BY <2>1, <2>2, WorkOn DEF FrameOK
  <2>4. /\ r \in ItemType /\ r.chan = item[i].chan /\ r.st = item[i].st /\ r.refs = item[i].refs
        /\ r.debugger = item[i].debugger /\ r.debugged = item[i].debugged
    BY <2>3 DEF ItemType
  <2> HIDE DEF r
  <2> QED BY <2>1, <2>2, <2>3, <2>4, FieldInv
<1>3. CASE SetFilter(t)
  <2>1. PICK m \in BOOLEAN : item' = [item EXCEPT ![i] = [item[i] EXCEPT !.mask = m]]
    BY <1>3 DEF SetFilter, EventMask
  <2> DEFINE r == [item[i] EXCEPT !.mask = m]
  <2>2. /\ At(t, "filter") /\ Goto(t, "put") /\ item' = [item EXCEPT ![i] = r]
        /\ UNCHANGED <<list, deletes, leaked, alive, terms, wild>>
    BY <1>3, <2>1 DEF SetFilter
  <2>3. /\ "filter" \in HoldPC /\ "filter" \in Working /\ "put" \in HoldPC
        /\ "put" \in FramePC /\ "put" \notin Creating /\ "put" \in WorkerPC
    BY DEF HoldPC, Working, FramePC, Creating, WorkerPC
  <2>4. item[i] \in ItemType /\ item[i].chan # "none"
    BY <2>2, <2>3, WorkOn DEF FrameOK
  <2>5. /\ r \in ItemType /\ r.chan = item[i].chan /\ r.st = item[i].st /\ r.refs = item[i].refs
        /\ r.debugger = item[i].debugger /\ r.debugged = item[i].debugged
    BY <2>4 DEF ItemType
  <2>6. r.active => item[i].active
    BY <2>4 DEF ItemType
  <2> HIDE DEF r
  <2> QED BY <2>2, <2>3, <2>4, <2>5, <2>6, FieldInv
<1>4. CASE Deactivate(t)
  <2> DEFINE r == [item[i] EXCEPT !.active = FALSE]
  <2>1. /\ At(t, "deact") /\ Goto(t, "release") /\ item' = [item EXCEPT ![i] = r]
        /\ UNCHANGED <<list, deletes, leaked, alive, terms, wild>>
    BY <1>4 DEF Deactivate
  <2>2. /\ "deact" \in HoldPC /\ "deact" \in Working /\ "release" \in HoldPC
        /\ "release" \in FramePC /\ "release" \notin Creating /\ "release" \in WorkerPC
    BY DEF HoldPC, Working, FramePC, Creating, WorkerPC
  <2>3. item[i] \in ItemType /\ item[i].chan # "none"
    BY <2>1, <2>2, WorkOn DEF FrameOK
  <2>4. /\ r \in ItemType /\ r.chan = item[i].chan /\ r.st = item[i].st /\ r.refs = item[i].refs
        /\ r.debugger = item[i].debugger /\ r.debugged = item[i].debugged
    BY <2>3 DEF ItemType
  <2>5. ~r.active
    BY <2>3 DEF ItemType
  <2> HIDE DEF r
  <2> QED BY <2>1, <2>2, <2>3, <2>4, <2>5, FieldInv
<1>5. CASE Release(t)
  <2> DEFINE r == [item[i] EXCEPT !.chan = "released"]
  <2>1. /\ At(t, "release") /\ Goto(t, "unlist") /\ item' = [item EXCEPT ![i] = r]
        /\ UNCHANGED <<list, deletes, leaked, alive, terms, wild>>
    BY <1>5 DEF Release
  <2>2. /\ "release" \in HoldPC /\ "release" \in Working /\ "unlist" \in HoldPC
        /\ "unlist" \in FramePC /\ "unlist" \notin Creating /\ "unlist" \in WorkerPC
    BY DEF HoldPC, Working, FramePC, Creating, WorkerPC
  <2>3. item[i] \in ItemType /\ ~item[i].active
    BY <2>1, <2>2, WorkOn DEF FrameOK
  <2>4. /\ r \in ItemType /\ r.chan = "released" /\ r.st = item[i].st /\ r.refs = item[i].refs
        /\ r.debugger = item[i].debugger /\ r.debugged = item[i].debugged
        /\ r.active = item[i].active
    BY <2>3 DEF ItemType
  <2> HIDE DEF r
  <2> QED BY <2>1, <2>2, <2>3, <2>4, FieldInv
<1> QED BY <1>1, <1>2, <1>3, <1>4, <1>5

LEMMA RefsDropped ==
  ASSUME SessionType, NEW i \in Items, item' = [item EXCEPT ![i].refs = @ - 1]
  PROVE  /\ item' \in [Items -> ItemType]
         /\ item'[i].refs = item[i].refs - 1
         /\ \A j \in Items : /\ item'[j].st = item[j].st /\ item'[j].chan = item[j].chan
                             /\ item'[j].active = item[j].active
                             /\ item'[j].debugger = item[j].debugger
                             /\ item'[j].debugged = item[j].debugged
                             /\ j # i => item'[j] = item[j]
<1> DEFINE r == [item[i] EXCEPT !.refs = item[i].refs - 1]
<1>1. item[i] \in ItemType
  BY DEF SessionType
<1>2. /\ r \in ItemType /\ r.refs = item[i].refs - 1 /\ r.st = item[i].st
      /\ r.chan = item[i].chan /\ r.active = item[i].active
      /\ r.debugger = item[i].debugger /\ r.debugged = item[i].debugged
  BY <1>1 DEF ItemType
<1>3. item' = [item EXCEPT ![i] = r]
  OBVIOUS
<1> HIDE DEF r
<1>4. /\ item' \in [Items -> ItemType] /\ item'[i] = r
      /\ \A j \in Items : j # i => item'[j] = item[j]
  BY <1>2, <1>3, ItemSet
<1> QED BY <1>2, <1>4

\* The holder of an item with count 1: the list's reference has been dropped,
\* and with one dbg_delete_item there is nobody else.
LEMMA LastRef ==
  ASSUME SessionInv, NEW i \in Items, NEW p \in Holders(i), item[i].refs = 1
  PROVE  /\ deletes[i] \in Nat /\ deletes[i] >= 1
         /\ deletes[i] <= 1 => Holders(i) = {p}
<1>1. SessionType /\ CountInv /\ DeadInv /\ item[i].st \in {"unused", "live", "gone"}
  BY DEF SessionInv, SessionType, ItemType
<1>2. item[i].st # "unused"
  BY UnusedFree
<1>3. deletes[i] \in Nat /\ leaked[i] \in Nat
  BY <1>1 DEF SessionType
<1>4. CASE item[i].st = "gone"
  <2>1. ~(deletes[i] <= 1)
    BY <1>1, <1>4 DEF DeadInv, Dead
  <2> QED BY <1>3, <2>1
<1>5. CASE item[i].st = "live"
  <2>1. IsFiniteSet(Holders(i)) /\ 1 = Cardinality(Holders(i)) + 1 - deletes[i] + leaked[i]
    BY <1>1, <1>5 DEF CountInv, RefsExact
  <2>2. Cardinality(Holders(i)) \in Nat /\ Cardinality(Holders(i)) # 0
    BY <2>1, FS_CardinalityType, FS_EmptySet
  <2>3. deletes[i] >= 1
    BY <1>3, <2>1, <2>2
  <2>4. ASSUME deletes[i] <= 1 PROVE Holders(i) = {p}
    <3>1. Cardinality(Holders(i)) = 1
      BY <1>3, <2>1, <2>2, <2>3, <2>4
    <3>2. PICK x : Holders(i) = {x}
      BY <2>1, <3>1, FS_Singleton
    <3> QED BY <3>2
  <2> QED BY <1>3, <2>3, <2>4
<1> QED BY <1>1, <1>2, <1>4, <1>5

LEMMA UnlistInv ==
  ASSUME SessionInv, NEW t \in Actors, Unlist(t)
  PROVE  SessionInv'
<1> DEFINE n == Len(stack[t])
<1>0. PICK i : i = Top(t).item
  OBVIOUS
<1>1. PICK b \in {"put", "unlist0"} : b = IF item[i].refs = 1 THEN "unlist0" ELSE "put"
  OBVIOUS
<1>2. /\ At(t, "unlist") /\ Goto(t, b) /\ item' = [item EXCEPT ![i].refs = @ - 1]
      /\ deletes' = [deletes EXCEPT ![i] = @ + 1]
      /\ UNCHANGED <<list, leaked, alive, terms, wild>>
  BY <1>0, <1>1 DEF Unlist, DropRef
<1>3. /\ "unlist" \in Working /\ "unlist" \in HoldPC /\ b \in FramePC /\ b \in HoldPC
      /\ b \in WorkerPC /\ b \notin Creating
  BY <1>1 DEF Working, HoldPC, FramePC, WorkerPC, Creating
<1>4. /\ SessionType /\ ItemInv /\ ListInv /\ i \in Items /\ i # NoItem
      /\ item[i].st # "unused" /\ ~item[i].active /\ item[i].chan # "none"
  BY <1>0, <1>2, <1>3, WorkOn DEF SessionInv, FrameOK
<1>5. PICK f \in FrameType :
        /\ f.pc = b /\ f.item = i /\ f.next = Top(t).next
        /\ FrameOK(t, Top(t)) /\ Top(t).pc = "unlist"
        /\ stack' \in [Actors -> Seq(FrameType)] /\ Moved(t, n, f)
        /\ \A j : <<t, n>> \in Holders(j) <=> Holds(Top(t)) /\ Top(t).item = j
  BY <1>0, <1>2, <1>3, GotoMoves
<1>6. Holds(f) /\ Holds(Top(t)) /\ <<t, n>> \in Holders(i)
  BY <1>0, <1>3, <1>4, <1>5, HoldsIs
<1>7. /\ item' \in [Items -> ItemType] /\ item'[i].refs = item[i].refs - 1
      /\ \A j \in Items : /\ item'[j].st = item[j].st /\ item'[j].chan = item[j].chan
                          /\ item'[j].active = item[j].active
                          /\ item'[j].debugger = item[j].debugger
                          /\ item'[j].debugged = item[j].debugged
                          /\ j # i => item'[j] = item[j]
  BY <1>2, <1>4, RefsDropped
<1>8. /\ deletes' \in [Items -> Nat] /\ deletes'[i] = deletes[i] + 1 /\ deletes[i] \in Nat
      /\ \A j \in Items : j # i => deletes'[j] = deletes[j]
      /\ \A j \in Items : deletes[j] \in Nat /\ deletes'[j] \in Nat /\ deletes'[j] >= deletes[j]
  BY <1>2, <1>4 DEF SessionType
<1>9. SessionType'
  BY <1>2, <1>4, <1>5, <1>7, <1>8 DEF SessionType
<1>10. ItemInv'
  <2>1. ASSUME NEW j \in Items, j # i
        PROVE  item'[j] = item[j] /\ deletes'[j] = deletes[j] /\ leaked'[j] = leaked[j]
    BY <1>2, <1>7, <1>8, <2>1
  <2>2. ~item'[i].active /\ item'[i].st # "unused" /\ item'[i].debugger \in Procs
        /\ item'[i].debugged \in Procs
    BY <1>4, <1>7 DEF ItemInv
  <2> QED BY <1>4, <2>1, <2>2 DEF ItemInv
<1>11. Mono(t, n)
  BY <1>7, <1>8 DEF Mono
<1>12. ListInv'
  BY <1>2, <1>4, <1>7, <1>11, ListSame
<1>13. b = "unlist0" => deletes'[i] > 1
  BY <1>1, <1>4, <1>6, <1>8, LastRef
<1>14. FrameOK(t, f)'
  <2>1. f.item # NoItem /\ item'[f.item].st # "unused" /\ item'[f.item].chan # "none"
        /\ ~item'[f.item].active /\ (f.pc = "unlist0" => deletes'[f.item] > 1)
    BY <1>4, <1>5, <1>7, <1>13
  <2>2. t \in Workers => f.pc \in WorkerPC /\ f.next = "done"
    BY <1>3, <1>5 DEF FrameOK
  <2> QED BY <2>1, <2>2 DEF FrameOK
<1>15. Gains(t, n, f) /\ DeletesOwn(t, n) /\ f.pc \notin Creating /\ f.pc # "put0"
  BY <1>1, <1>3, <1>5, <1>6, <1>8 DEF Gains, DeletesOwn
<1>16. ASSUME NEW j \in Items, item'[j].st = "live" PROVE Counted(t, n, f, j)
  <2>1. Has(f, j) = Had(t, n, j) /\ Has(f, j) \in Int
    BY <1>0, <1>5, <1>6 DEF Has, Had
  <2>2. item[j].refs \in Int /\ leaked[j] \in Int
    BY <1>4 DEF SessionType, ItemType
  <2>3. item'[j].refs + deletes'[j] = item[j].refs + deletes[j]
    BY <1>7, <1>8, <2>2
  <2>4. item[j].st = "live" /\ leaked' = leaked
    BY <1>2, <1>7, <1>16
  <2>5. item'[j].refs \in Int /\ deletes'[j] \in Int /\ deletes[j] \in Int
    BY <1>7, <1>8 DEF ItemType
  <2>6. ASSUME NEW h, h = Has(f, j), h = Had(t, n, j), h \in Int
        PROVE  item'[j].refs + deletes'[j] - leaked[j] - h = item[j].refs + deletes[j] - leaked[j] - h
    <3>1. PICK a \in Int : a = item'[j].refs
      BY <2>5
    <3>2. PICK g \in Int : g = deletes'[j]
      BY <2>5
    <3>3. PICK c \in Int : c = item[j].refs
      BY <2>2
    <3>4. PICK d \in Int : d = deletes[j]
      BY <2>5
    <3>5. PICK l \in Int : l = leaked[j]
      BY <2>2
    <3>6. a + g = c + d
      BY <2>3, <3>1, <3>2, <3>3, <3>4
    <3>7. PICK e \in Int : e = h
      BY <2>6
    <3>8. a + g - l - e = c + d - l - e
      BY <3>6
    <3> QED BY <3>1, <3>2, <3>3, <3>4, <3>5, <3>7, <3>8
  <2> QED BY <2>1, <2>4, <2>6 DEF Counted
<1>17. ASSUME NEW j \in Items, Dead(j)' PROVE Dead(j)
  BY <1>5, <1>7, <1>15, <1>17, DeadSame
<1> HIDE DEF n
<1> QED BY <1>5, <1>9, <1>10, <1>11, <1>12, <1>14, <1>15, <1>16, <1>17, MovedInv

LEMMA DerefInv ==
  ASSUME SessionInv, NEW t \in Actors, Deref(t)
  PROVE  SessionInv'
<1> DEFINE n == Len(stack[t])
<1>0. PICK i : i = Top(t).item
  OBVIOUS
<1>1. PICK b : b = IF item[i].refs = 1 THEN "put0" ELSE Top(t).next
  OBVIOUS
<1>2. /\ At(t, "put") /\ Goto(t, b) /\ item' = [item EXCEPT ![i].refs = @ - 1]
      /\ UNCHANGED <<list, deletes, leaked, alive, terms, wild>>
  BY <1>0, <1>1 DEF Deref, DropRef
<1>3. "put" \in Working /\ "put" \in HoldPC
  BY DEF Working, HoldPC
<1>4. /\ SessionType /\ ItemInv /\ ListInv /\ i \in Items /\ i # NoItem /\ FrameOK(t, Top(t))
      /\ item[i].st # "unused" /\ item[i].chan # "none" /\ Top(t) \in FrameType
  BY <1>0, <1>2, <1>3, WorkOn DEF SessionInv, FrameOK
<1>5. /\ b \in {"put0", "done", "refused", "loop", "exit", "died"}
      /\ b = "put0" => item[i].refs = 1
      /\ t \in Workers => b \in {"put0", "done"}
  BY <1>1, <1>4 DEF FrameType, FrameOK
<1>6. b \in FramePC /\ b \notin HoldPC /\ b \notin Creating /\ (t \in Workers => b \in WorkerPC)
  BY <1>5 DEF FramePC, HoldPC, Creating, WorkerPC
<1>7. PICK f \in FrameType :
        /\ f.pc = b /\ f.item = i /\ f.next = Top(t).next /\ Top(t).pc = "put"
        /\ stack' \in [Actors -> Seq(FrameType)] /\ Moved(t, n, f)
        /\ \A j : <<t, n>> \in Holders(j) <=> Holds(Top(t)) /\ Top(t).item = j
  BY <1>0, <1>2, <1>6, GotoMoves
<1>8. ~Holds(f) /\ Holds(Top(t)) /\ <<t, n>> \in Holders(i)
      /\ \A j : <<t, n>> \in Holders(j) <=> j = i
  BY <1>0, <1>3, <1>4, <1>6, <1>7, HoldsIs
<1>9. /\ item' \in [Items -> ItemType] /\ item'[i].refs = item[i].refs - 1
      /\ \A j \in Items : /\ item'[j].st = item[j].st /\ item'[j].chan = item[j].chan
                          /\ item'[j].active = item[j].active
                          /\ item'[j].debugger = item[j].debugger
                          /\ item'[j].debugged = item[j].debugged
                          /\ j # i => item'[j] = item[j]
  BY <1>2, <1>4, RefsDropped
<1>10. SessionType'
  BY <1>2, <1>4, <1>7, <1>9 DEF SessionType
<1>11. ItemInv'
  <2>1. ASSUME NEW j \in Items, j # i
        PROVE  item'[j] = item[j] /\ deletes'[j] = deletes[j] /\ leaked'[j] = leaked[j]
    BY <1>2, <1>9, <2>1
  <2>2. /\ item'[i].st # "unused" /\ item'[i].debugger \in Procs
        /\ item'[i].debugged \in Procs /\ item'[i].chan # "none"
        /\ item'[i].active => deletes'[i] = 0
    BY <1>2, <1>4, <1>9 DEF ItemInv
  <2> QED BY <1>4, <2>1, <2>2 DEF ItemInv
<1>12. Mono(t, n)
  <2>1. \A j \in Items : deletes[j] \in Nat /\ deletes'[j] = deletes[j]
    BY <1>2, <1>4 DEF SessionType
  <2> QED BY <1>9, <2>1 DEF Mono
<1>13. ListInv'
  BY <1>2, <1>4, <1>9, <1>12, ListSame
<1>14. FrameOK(t, f)'
  <2>1. f.item # NoItem /\ item'[f.item].st # "unused" /\ item'[f.item].chan # "none"
        /\ f.pc \notin {"release", "unlist", "unlist0"}
    BY <1>4, <1>5, <1>7, <1>9
  <2>2. t \in Workers => f.pc \in WorkerPC /\ f.next = "done"
    BY <1>4, <1>6, <1>7 DEF FrameOK
  <2> QED BY <2>1, <2>2 DEF FrameOK
<1>15. Gains(t, n, f) /\ DeletesOwn(t, n) /\ f.pc \notin Creating
  BY <1>2, <1>6, <1>7, <1>8 DEF Gains, DeletesOwn
<1>16. ASSUME NEW j \in Items, item'[j].st = "live" PROVE Counted(t, n, f, j)
  <2>1. Has(f, j) = 0 /\ (j = i => Had(t, n, j) = 1) /\ (j # i => Had(t, n, j) = 0)
    BY <1>8 DEF Has, Had
  <2>2. item[j].refs \in Int /\ leaked[j] \in Int /\ deletes[j] \in Int
    BY <1>4 DEF SessionType, ItemType
  <2>3. item[j].st = "live" /\ leaked' = leaked /\ deletes' = deletes
    BY <1>2, <1>9, <1>16
  <2>4. CASE j = i
    BY <1>9, <2>1, <2>2, <2>3, <2>4 DEF Counted
  <2>5. CASE j # i
    BY <1>9, <2>1, <2>3, <2>5 DEF Counted
  <2> QED BY <2>4, <2>5
<1>17. ASSUME NEW j \in Items, Dead(j)', ~Dead(j), deletes'[j] <= 1
       PROVE  Holders(j)' = {} /\ deletes'[j] = 1
  <2>1. f.pc = "put0" /\ j = i
    <3>1. f.pc = "put0"
      BY <1>7, <1>9, <1>17, DeadSame
    <3>2. item'[j].st # "gone"
      BY <1>9, <1>17 DEF Dead
    <3>3. PICK u \in Actors : \E d \in 1 .. Len(stack'[u]) :
            Outer(stack'[u], d).pc = "put0" /\ Outer(stack'[u], d).item = j
      BY <1>17, <3>2 DEF Dead, Outer
    <3>4. PICK d \in 1 .. Len(stack'[u]) :
            Outer(stack'[u], d).pc = "put0" /\ Outer(stack'[u], d).item = j
      BY <3>3
    <3>5. CASE Outer(stack'[u], d) = f
      BY <1>7, <3>1, <3>4, <3>5
    <3>6. CASE d \in 1 .. Len(stack[u]) /\ Outer(stack'[u], d) = Outer(stack[u], d)
      BY <1>17, <3>4, <3>6 DEF Dead
    <3> QED BY <1>7, <3>4, <3>5, <3>6, MovedFrames
  <2>2. item[i].refs = 1 /\ deletes[i] <= 1
    BY <1>2, <1>5, <1>7, <1>17, <2>1
  <2>3. Holders(i) = {<<t, n>>} /\ deletes[i] = 1
    BY <1>4, <1>8, <2>2, LastRef
  <2>4. \A x : x \in Holders(i)' <=> IF x = <<t, n>> THEN FALSE ELSE x \in Holders(i)
    BY <1>7, <1>8, MovedHolders
  <2> QED BY <1>2, <2>1, <2>3, <2>4
<1> HIDE DEF n
<1> QED BY <1>7, <1>10, <1>11, <1>12, <1>13, <1>14, <1>15, <1>16, <1>17, MovedInv

LEMMA ReportLostInv ==
  ASSUME SessionInv, NEW t \in Actors, ReportLost(t)
  PROVE  SessionInv'
<1> DEFINE n == Len(stack[t])
<1>0. PICK i : i = Top(t).item
  OBVIOUS
<1>1. /\ At(t, "report") /\ Goto(t, "exit") /\ leaked' = [leaked EXCEPT ![i] = @ + 1]
      /\ UNCHANGED <<item, list, deletes, alive, terms, wild>>
  BY <1>0 DEF ReportLost
<1>2. /\ "report" \in Working /\ "report" \in HoldPC /\ "exit" \in FramePC
      /\ "exit" \notin HoldPC /\ "exit" \notin Creating /\ "report" \notin WorkerPC
      /\ "exit" \notin Working
  BY DEF Working, HoldPC, FramePC, Creating, WorkerPC
<1>3. /\ SessionType /\ ItemInv /\ ListInv /\ i \in Items /\ i # NoItem /\ FrameOK(t, Top(t))
      /\ item[i].st # "unused" /\ item[i].chan # "none" /\ t \notin Workers
  BY <1>0, <1>1, <1>2, WorkOn, NotWorker DEF SessionInv, FrameOK
<1>4. PICK f \in FrameType :
        /\ f.pc = "exit" /\ f.item = i /\ Top(t).pc = "report"
        /\ stack' \in [Actors -> Seq(FrameType)] /\ Moved(t, n, f)
        /\ \A j : <<t, n>> \in Holders(j) <=> Holds(Top(t)) /\ Top(t).item = j
  BY <1>0, <1>1, <1>2, GotoMoves
<1>5. ~Holds(f) /\ \A j : <<t, n>> \in Holders(j) <=> j = i
  BY <1>0, <1>2, <1>3, <1>4, HoldsIs
<1>6. /\ leaked' \in [Items -> Nat] /\ leaked'[i] = leaked[i] + 1
      /\ \A j \in Items : leaked[j] \in Nat /\ (j # i => leaked'[j] = leaked[j])
  BY <1>1, <1>3 DEF SessionType
<1>7. SessionType'
  BY <1>1, <1>3, <1>4, <1>6 DEF SessionType
<1>8. ItemInv'
  BY <1>1, <1>3, <1>6 DEF ItemInv
<1>9. Mono(t, n)
  <2>1. \A j \in Items : deletes[j] \in Nat
    BY <1>3 DEF SessionType
  <2> QED BY <1>1, <2>1 DEF Mono
<1>10. ListInv'
  BY <1>1, <1>3 DEF ListInv
<1>11. FrameOK(t, f)'
  BY <1>1, <1>2, <1>3, <1>4 DEF FrameOK
<1>12. Gains(t, n, f) /\ DeletesOwn(t, n) /\ f.pc \notin Creating
  BY <1>1, <1>2, <1>4, <1>5 DEF Gains, DeletesOwn
<1>13. ASSUME NEW j \in Items, item'[j].st = "live" PROVE Counted(t, n, f, j)
  <2>1. Has(f, j) = 0 /\ (j = i => Had(t, n, j) = 1) /\ (j # i => Had(t, n, j) = 0)
    BY <1>5 DEF Has, Had
  <2>2. item[j].refs \in Int /\ leaked[j] \in Int /\ deletes[j] \in Int
    BY <1>3 DEF SessionType, ItemType
  <2>3. item[j].st = "live" /\ item' = item /\ deletes' = deletes
    BY <1>1, <1>13
  <2>4. CASE j = i
    BY <1>6, <2>1, <2>2, <2>3, <2>4 DEF Counted
  <2>5. CASE j # i
    BY <1>6, <2>1, <2>3, <2>5 DEF Counted
  <2> QED BY <2>4, <2>5
<1>14. ASSUME NEW j \in Items, Dead(j)' PROVE Dead(j)
  BY <1>1, <1>4, <1>14, DeadSame
<1> HIDE DEF n
<1> QED BY <1>4, <1>7, <1>8, <1>9, <1>10, <1>11, <1>12, <1>13, <1>14, MovedInv

\* RemoveEntryList takes the one entry of i out, and nothing else.
LEMMA UnlinkedIs ==
  ASSUME SessionType, ListInv, NEW i, NEW s, s = Unlinked(i)
  PROVE  /\ s \in Seq(Items) /\ Len(s) \in Nat
         /\ \A k \in 1 .. Len(s) : s[k] # i /\ \E l \in 1 .. Len(list) : s[k] = list[l]
         /\ \A k, l \in 1 .. Len(s) : s[k] = s[l] => k = l
<1>1. list \in Seq(Items) /\ Len(list) \in Nat
  BY DEF SessionType
<1>2. CASE ~\E p \in 1 .. Len(list) : list[p] = i
  <2>1. s = list BY <1>2 DEF Unlinked
  <2> QED BY <1>1, <1>2, <2>1 DEF ListInv
<1>3. CASE \E p \in 1 .. Len(list) : list[p] = i
  <2> DEFINE p == CHOOSE p \in 1 .. Len(list) : list[p] = i
             m == Len(list) - 1
  <2>1. p \in 1 .. Len(list) /\ list[p] = i
    BY <1>3
  <2>2. s = [k \in 1 .. m |-> IF k < p THEN list[k] ELSE list[k + 1]]
    BY <1>3 DEF Unlinked
  <2> HIDE DEF p
  <2>3. m \in Nat
    BY <1>1, <2>1
  <2>4. \A k \in 1 .. m : k \in 1 .. Len(list) /\ k + 1 \in 1 .. Len(list)
    BY <1>1, <2>3
  <2>5. \A k \in 1 .. m : s[k] = IF k < p THEN list[k] ELSE list[k + 1]
    BY <2>2
  <2>6. \A k \in 1 .. m : s[k] \in Items
    BY <1>1, <2>4, <2>5
  <2>7. s \in Seq(Items) /\ Len(s) = m
    BY <2>2, <2>3, <2>6, IsASeq
  <2>8. ASSUME NEW k \in 1 .. m
        PROVE  \E a \in 1 .. Len(list) : s[k] = list[a] /\ a # p
                 /\ a = IF k < p THEN k ELSE k + 1
    <3>1. CASE k < p BY <1>1, <2>1, <2>4, <2>5, <3>1
    <3>2. CASE ~(k < p) BY <1>1, <2>1, <2>4, <2>5, <3>2
    <3> QED BY <3>1, <3>2
  <2>9. ASSUME NEW k \in 1 .. m
        PROVE  s[k] # i /\ \E a \in 1 .. Len(list) : s[k] = list[a]
    BY <2>1, <2>8 DEF ListInv
  <2>10. ASSUME NEW k \in 1 .. m, NEW l \in 1 .. m, s[k] = s[l] PROVE k = l
    <3>1. PICK a \in 1 .. Len(list) : s[k] = list[a] /\ a = IF k < p THEN k ELSE k + 1
      BY <2>8
    <3>2. PICK c \in 1 .. Len(list) : s[l] = list[c] /\ c = IF l < p THEN l ELSE l + 1
      BY <2>8
    <3>3. a = c
      BY <2>10, <3>1, <3>2 DEF ListInv
    <3> QED BY <1>1, <2>1, <2>3, <3>1, <3>2, <3>3
  <2> QED BY <2>3, <2>7, <2>9, <2>10
<1> QED BY <1>2, <1>3

LEMMA DestroyInv ==
  ASSUME SessionInv, NEW t \in Actors, Destroy(t)
  PROVE  SessionInv'
<1> DEFINE n == Len(stack[t])
<1>0. PICK i : i = Top(t).item
  OBVIOUS
<1>1. PICK a \in {"unlist0", "put0"} : At(t, a)
  BY DEF Destroy
<1>2. PICK b : b = IF At(t, "unlist0") THEN "put" ELSE Top(t).next
  OBVIOUS
<1>3. /\ Goto(t, b) /\ item' = [item EXCEPT ![i] = [@ EXCEPT !.st = "gone"]]
      /\ list' = Unlinked(i) /\ UNCHANGED <<alive, deletes, leaked, terms, wild>>
  BY <1>0, <1>2 DEF Destroy
<1>4. a \in Working
  BY <1>1 DEF Working
<1>5. /\ SessionType /\ ItemInv /\ ListInv /\ i \in Items /\ i # NoItem /\ FrameOK(t, Top(t))
      /\ item[i].st # "unused" /\ item[i].chan # "none" /\ Top(t) \in FrameType
      /\ item[i] \in ItemType /\ Top(t).pc = a
  BY <1>0, <1>1, <1>4, WorkOn DEF SessionInv, FrameOK
<1>6. /\ a = "unlist0" => b = "put"
      /\ a = "put0" => b \in {"done", "refused", "loop", "exit", "died"}
      /\ t \in Workers => b \in {"put", "done"}
  BY <1>1, <1>2, <1>5 DEF At, FrameType, FrameOK
<1>7. /\ b \in FramePC /\ b \notin Creating /\ (t \in Workers => b \in WorkerPC)
      /\ b # "put0" /\ b \notin {"release", "unlist", "unlist0"}
      /\ a \in HoldPC <=> b \in HoldPC
  BY <1>1, <1>6 DEF FramePC, HoldPC, Creating, WorkerPC
<1>8. PICK f \in FrameType :
        /\ f.pc = b /\ f.item = i /\ f.next = Top(t).next
        /\ stack' \in [Actors -> Seq(FrameType)] /\ Moved(t, n, f)
        /\ \A j : <<t, n>> \in Holders(j) <=> Holds(Top(t)) /\ Top(t).item = j
  BY <1>0, <1>1, <1>3, <1>7, GotoMoves
<1>9. \A j : <<t, n>> \in Holders(j) <=> Holds(f) /\ f.item = j
  BY <1>0, <1>5, <1>7, <1>8, HoldsIs
<1>10. PICK r \in ItemType :
         /\ item' = [item EXCEPT ![i] = r] /\ r.st = "gone" /\ r.chan = item[i].chan
         /\ r.active = item[i].active /\ r.debugger = item[i].debugger
         /\ r.debugged = item[i].debugged
  <2> DEFINE r == [item[i] EXCEPT !.st = "gone"]
  <2>1. /\ r \in ItemType /\ r.st = "gone" /\ r.chan = item[i].chan
        /\ r.active = item[i].active /\ r.debugger = item[i].debugger
        /\ r.debugged = item[i].debugged
    BY <1>5 DEF ItemType
  <2>2. item' = [item EXCEPT ![i] = r]
    BY <1>3
  <2> HIDE DEF r
  <2> QED BY <2>1, <2>2
<1>11. /\ item' \in [Items -> ItemType] /\ item'[i] = r
       /\ \A j \in Items : j # i => item'[j] = item[j]
  BY <1>5, <1>10, ItemSet
<1>12. /\ list' \in Seq(Items) /\ Len(list') \in Nat
       /\ \A k \in 1 .. Len(list') : list'[k] # i /\ \E l \in 1 .. Len(list) : list'[k] = list[l]
       /\ \A k, l \in 1 .. Len(list') : list'[k] = list'[l] => k = l
  BY <1>3, <1>5, UnlinkedIs
<1>13. SessionType'
  BY <1>3, <1>5, <1>8, <1>11, <1>12 DEF SessionType
<1>14. ItemInv'
  <2>1. ASSUME NEW j \in Items, j # i
        PROVE  item'[j] = item[j] /\ deletes'[j] = deletes[j] /\ leaked'[j] = leaked[j]
    BY <1>3, <1>11, <2>1
  <2>2. /\ item'[i].st # "unused" /\ item'[i].debugger \in Procs
        /\ item'[i].debugged \in Procs /\ item'[i].chan # "none"
        /\ item'[i].active => deletes'[i] = 0
    BY <1>3, <1>5, <1>10, <1>11 DEF ItemInv
  <2> QED BY <1>5, <2>1, <2>2 DEF ItemInv
<1>15. Mono(t, n)
  <2>1. \A j \in Items : deletes[j] \in Nat /\ deletes'[j] = deletes[j]
    BY <1>3, <1>5 DEF SessionType
  <2> QED BY <1>5, <1>10, <1>11, <2>1 DEF Mono
<1>16. ListInv'
  <2>1. ASSUME NEW k \in 1 .. Len(list') PROVE item'[list'[k]].st # "unused"
    <3>1. PICK l \in 1 .. Len(list) : list'[k] = list[l]
      BY <1>12
    <3>2. list[l] \in Items /\ item[list[l]].st # "unused"
      BY <1>5 DEF ListInv, SessionType
    <3> QED BY <1>10, <1>11, <3>1, <3>2
  <2>2. ASSUME NEW j \in Items, item'[j].st = "gone", deletes'[j] <= 1, NEW k \in 1 .. Len(list')
        PROVE  list'[k] # j
    <3>1. CASE j = i BY <1>12, <3>1
    <3>2. CASE j # i
      <4>1. item[j].st = "gone" /\ deletes[j] <= 1
        BY <1>3, <1>11, <2>2, <3>2
      <4> QED BY <1>5, <1>12, <4>1 DEF ListInv
    <3> QED BY <3>1, <3>2
  <2> QED BY <1>12, <2>1, <2>2 DEF ListInv
<1>17. FrameOK(t, f)'
  <2>1. f.item # NoItem /\ item'[f.item].st # "unused" /\ item'[f.item].chan # "none"
    BY <1>5, <1>8, <1>10, <1>11
  <2>2. t \in Workers => f.pc \in WorkerPC /\ f.next = "done"
    BY <1>5, <1>7, <1>8 DEF FrameOK
  <2> QED BY <1>7, <1>8, <2>1, <2>2 DEF FrameOK
<1>18. Gains(t, n, f) /\ DeletesOwn(t, n) /\ f.pc \notin Creating
  BY <1>3, <1>7, <1>8, <1>9 DEF Gains, DeletesOwn
<1>19. ASSUME NEW j \in Items, item'[j].st = "live" PROVE Counted(t, n, f, j)
  <2>1. j # i /\ item'[j] = item[j]
    BY <1>10, <1>11, <1>19
  <2>2. Has(f, j) = Had(t, n, j)
    BY <1>9 DEF Has, Had
  <2> QED BY <1>3, <1>19, <2>1, <2>2 DEF Counted
<1>20. ASSUME NEW j \in Items, Dead(j)', ~Dead(j), deletes'[j] <= 1
       PROVE  FALSE
  <2>1. j = i
    <3>1. SUFFICES ASSUME j # i PROVE FALSE
      OBVIOUS
    <3> QED BY <1>7, <1>8, <1>11, <1>20, <3>1, DeadSame
  <2>2. CASE a = "unlist0"
    <3>1. deletes[i] > 1 /\ deletes[i] \in Nat
      BY <1>0, <1>5, <2>2 DEF FrameOK, SessionType
    <3> QED BY <1>3, <1>20, <2>1, <3>1
  <2>3. CASE a = "put0"
    <3>1. n \in 1 .. Len(stack[t]) /\ Top(t) = Outer(stack[t], n)
      BY <1>1, <1>5, TopIs DEF At
    <3> QED BY <1>0, <1>5, <1>20, <2>1, <2>3, <3>1 DEF Dead
  <2> QED BY <1>1, <2>2, <2>3
<1> HIDE DEF n
<1> QED BY <1>8, <1>13, <1>14, <1>15, <1>16, <1>17, <1>18, <1>19, <1>20, MovedInv

\* The reference goes from frame n of t, which becomes f, to frame g, the first
\* one of thread w.
Handed(t, n, f, w, g) ==
  /\ t # w /\ n \in Nat /\ n >= 1
  /\ Len(stack[t]) = n /\ Len(stack'[t]) = n /\ Outer(stack'[t], n) = f
  /\ \A d \in 1 .. n - 1 : Outer(stack'[t], d) = Outer(stack[t], d)
  /\ Len(stack[w]) = 0 /\ Len(stack'[w]) = 1 /\ Outer(stack'[w], 1) = g
  /\ \A u \in Actors : u # t /\ u # w => stack'[u] = stack[u]

LEMMA HandedFrames ==
  ASSUME NEW t \in Actors, NEW w \in Actors, NEW n, NEW f, NEW g, Handed(t, n, f, w, g),
         NEW u \in Actors, NEW d \in 1 .. Len(stack'[u])
  PROVE  \/ u = t /\ d = n /\ Outer(stack'[u], d) = f
         \/ u = w /\ d = 1 /\ Outer(stack'[u], d) = g
         \/ /\ <<u, d>> # <<t, n>> /\ <<u, d>> # <<w, 1>>
            /\ d \in 1 .. Len(stack[u]) /\ Outer(stack'[u], d) = Outer(stack[u], d)
<1>1. CASE u = w
  <2>0. Len(stack'[w]) = 1
    BY DEF Handed
  <2>1. d = 1 BY <1>1, <2>0
  <2> QED BY <1>1, <2>1 DEF Handed
<1>2. CASE u = t /\ d = n
  BY <1>2 DEF Handed
<1>3. CASE u = t /\ d # n
  <2>1. d \in 1 .. n - 1 /\ d \in 1 .. Len(stack[u])
    BY <1>3 DEF Handed
  <2> QED BY <1>3, <2>1 DEF Handed
<1>4. CASE u # t /\ u # w
  BY <1>4 DEF Handed
<1> QED BY <1>1, <1>2, <1>3, <1>4

LEMMA HandedHolders ==
  ASSUME NEW t \in Actors, NEW w \in Actors, NEW n, NEW f, NEW g, Handed(t, n, f, w, g),
         ~Holds(f), Holds(g), NEW j
  PROVE  \A x : x \in Holders(j)' <=>
           (x = <<w, 1>> /\ j = g.item) \/ (x # <<t, n>> /\ x \in Holders(j))
<1>1. ASSUME NEW x, x \in Holders(j)'
      PROVE  (x = <<w, 1>> /\ j = g.item) \/ (x # <<t, n>> /\ x \in Holders(j))
  <2>1. PICK u \in Actors : \E d \in 1 .. Len(stack'[u]) : x = <<u, d>>
    BY <1>1, HoldersAreNext
  <2>2. PICK d \in 1 .. Len(stack'[u]) : x = <<u, d>>
    BY <2>1
  <2>3. Holds(Outer(stack'[u], d)) /\ Outer(stack'[u], d).item = j
    BY <1>1, <2>2, HoldersAreNext
  <2>4. CASE u = t /\ d = n /\ Outer(stack'[u], d) = f
    BY <2>3, <2>4
  <2>5. CASE u = w /\ d = 1 /\ Outer(stack'[u], d) = g
    BY <2>2, <2>3, <2>5
  <2>6. CASE /\ <<u, d>> # <<t, n>> /\ d \in 1 .. Len(stack[u])
             /\ Outer(stack'[u], d) = Outer(stack[u], d)
    <3>1. <<u, d>> \in Holders(j)
      BY <2>3, <2>6, HoldersAre
    <3> QED BY <2>2, <2>6, <3>1
  <2> QED BY <2>4, <2>5, <2>6, HandedFrames
<1>2. <<w, 1>> \in Holders(g.item)'
  <2>1. 1 \in 1 .. Len(stack'[w]) /\ Outer(stack'[w], 1) = g
    BY DEF Handed
  <2> QED BY <2>1, HoldersAreNext
<1>3. ASSUME NEW x, x \in Holders(j), x # <<t, n>> PROVE x \in Holders(j)'
  <2>1. PICK u \in Actors : \E d \in 1 .. Len(stack[u]) : x = <<u, d>>
    BY <1>3, HoldersArePairs
  <2>2. PICK d \in 1 .. Len(stack[u]) : x = <<u, d>>
    BY <2>1
  <2>3. Holds(Outer(stack[u], d)) /\ Outer(stack[u], d).item = j
    BY <1>3, <2>2, HoldersAre
  <2>4. u # w
    BY DEF Handed
  <2>5. d \in 1 .. Len(stack'[u]) /\ Outer(stack'[u], d) = Outer(stack[u], d)
    <3>1. CASE u # t BY <2>4, <3>1 DEF Handed
    <3>2. CASE u = t
      <4>1. d \in 1 .. n - 1 /\ d \in 1 .. Len(stack'[u])
        BY <1>3, <2>2, <3>2 DEF Handed
      <4> QED BY <3>2, <4>1 DEF Handed
    <3> QED BY <3>1, <3>2
  <2> QED BY <2>2, <2>3, <2>5, HoldersAreNext
<1> QED BY <1>1, <1>2, <1>3

\* dbg_delayed_term_event takes the reference over.
LEMMA ReportTerminatedInv ==
  ASSUME SessionInv, NEW t \in Actors, ReportTerminated(t)
  PROVE  SessionInv'
<1>1. PICK i : i = Top(t).item
  OBVIOUS
<1>2. PICK n : n = Len(stack[t])
  OBVIOUS
<1>3. PICK w \in Workers :
        /\ stack[w] = << >>
        /\ stack' = [stack EXCEPT
             ![w] = <<Frame("chan", Top(t).proc, i, FALSE, "done")>>,
             ![t] = <<[Top(t) EXCEPT !.pc = "exit"]>> \o Tail(@)]
  BY <1>1 DEF ReportTerminated
<1>4. /\ At(t, "report") /\ UNCHANGED <<item, list, alive, deletes, leaked, terms, wild>>
      /\ "report" \in Working /\ "report" \notin WorkerPC /\ w \in Actors
  BY DEF ReportTerminated, Working, WorkerPC, Actors
<1>5. /\ SessionType /\ i \in Items /\ i # NoItem /\ FrameOK(t, Top(t))
      /\ item[i].st # "unused" /\ item[i].chan # "none" /\ t \notin Workers /\ t # w
      /\ stack[t] # << >> /\ Top(t).pc = "report" /\ Top(t) \in FrameType
  BY <1>1, <1>3, <1>4, WorkOn, NotWorker DEF FrameOK, At
<1>6. PICK g \in FrameType : /\ g = Frame("chan", Top(t).proc, i, FALSE, "done")
                            /\ g.pc = "chan" /\ g.item = i /\ g.next = "done"
  <2>1. Top(t).proc \in Procs BY <1>5 DEF FrameType
  <2>2. /\ Frame("chan", Top(t).proc, i, FALSE, "done") \in FrameType
        /\ Frame("chan", Top(t).proc, i, FALSE, "done").pc = "chan"
        /\ Frame("chan", Top(t).proc, i, FALSE, "done").item = i
        /\ Frame("chan", Top(t).proc, i, FALSE, "done").next = "done"
    BY <1>5, <2>1 DEF Frame, FrameType, FramePC
  <2> QED BY <2>2
<1>7. PICK f \in FrameType :
        f = [Top(t) EXCEPT !.pc = "exit"] /\ f.pc = "exit" /\ f.item = i
  <2>1. "exit" \in FramePC BY DEF FramePC
  <2>2. [Top(t) EXCEPT !.pc = "exit"] \in FrameType BY <1>5, <2>1 DEF FrameType
  <2> QED BY <1>1, <1>5, <2>2 DEF FrameType
<1>8. PICK s : s = <<f>> \o Tail(stack[t])
  OBVIOUS
<1>9. /\ s \in Seq(FrameType) /\ Len(s) = n /\ n \in Nat /\ n >= 1 /\ s[1] = f
      /\ \A k \in 2 .. n : s[k] = stack[t][k]
  <2>1. stack[t] \in Seq(FrameType) /\ n \in Nat /\ n >= 1
    BY <1>2, <1>5, TopIs DEF SessionType
  <2>2. PICK v : v = Tail(stack[t])
    OBVIOUS
  <2>3. v \in Seq(FrameType) /\ Len(v) = n - 1 /\ \A k \in 1 .. Len(v) : v[k] = stack[t][k + 1]
    BY <1>2, <1>5, <2>1, <2>2, HeadTailProperties
  <2>4. <<f>> \in Seq(FrameType) /\ Len(<<f>>) = 1 /\ <<f>>[1] = f
    OBVIOUS
  <2>5. s = <<f>> \o v
    BY <1>8, <2>2
  <2>6. /\ s \in Seq(FrameType) /\ Len(s) = Len(<<f>>) + Len(v)
        /\ \A k \in 1 .. Len(<<f>>) + Len(v) :
             s[k] = IF k <= Len(<<f>>) THEN <<f>>[k] ELSE v[k - Len(<<f>>)]
    BY ONLY <2>3, <2>4, <2>5, ConcatProperties
  <2>7. /\ Len(s) = n /\ \A k \in 1 .. n : s[k] = IF k <= 1 THEN <<f>>[k] ELSE v[k - 1]
    BY <2>1, <2>3, <2>4, <2>6
  <2>8. ASSUME NEW k \in 2 .. n PROVE s[k] = stack[t][k]
    <3>1. k \in 1 .. n /\ ~(k <= 1) /\ k - 1 \in 1 .. n - 1 /\ (k - 1) + 1 = k
      BY <2>1
    <3> QED BY <2>3, <2>7, <3>1
  <2> QED BY <2>1, <2>4, <2>6, <2>7, <2>8
<1>10. /\ stack'[w] = <<g>> /\ stack'[t] = s /\ stack' \in [Actors -> Seq(FrameType)]
       /\ \A u \in Actors : u # t /\ u # w => stack'[u] = stack[u]
  <2>1. stack \in [Actors -> Seq(FrameType)] /\ <<g>> \in Seq(FrameType)
    BY <1>5 DEF SessionType
  <2>2. stack' = [stack EXCEPT ![w] = <<g>>, ![t] = s]
    BY <1>3, <1>5, <1>6, <1>7, <1>8
  <2> QED BY <1>4, <1>5, <1>9, <2>1, <2>2
<1>11. SessionType'
  BY <1>4, <1>5, <1>10 DEF SessionType
<1>12. Handed(t, n, f, w, g)
  <2>1. Len(<<g>>) = 1 /\ <<g>>[1] = g /\ Len(<< >>) = 0
    OBVIOUS
  <2>2. Len(stack[w]) = 0 /\ Len(stack'[w]) = 1 /\ Outer(stack'[w], 1) = g
    <3>1. Len(stack[w]) = 0 /\ Len(stack'[w]) = 1 /\ stack'[w][1] = g
      BY ONLY <1>3, <1>10, <2>1
    <3> QED BY ONLY <3>1 DEF Outer
  <2>3. Outer(stack'[t], n) = f
    BY <1>9, <1>10 DEF Outer
  <2>4. ASSUME NEW d \in 1 .. n - 1 PROVE Outer(stack'[t], d) = Outer(stack[t], d)
    <3>1. n + 1 - d \in 2 .. n
      BY <1>9
    <3> QED BY <1>2, <1>9, <1>10, <3>1 DEF Outer
  <2> QED BY <1>2, <1>5, <1>9, <1>10, <2>2, <2>3, <2>4 DEF Handed
<1>13. ~Holds(f) /\ Holds(g)
  BY <1>5, <1>6, <1>7 DEF Holds
<1>14. \A j : <<t, n>> \in Holders(j) <=> j = i
  <2>1. Holds(Top(t)) BY <1>1, <1>5 DEF Holds
  <2> QED BY <1>1, <1>2, <1>5, <2>1, TopHolds
<1>15. \A j, x : x \in Holders(j)' <=>
         (x = <<w, 1>> /\ j = i) \/ (x # <<t, n>> /\ x \in Holders(j))
  <2>1. ASSUME NEW j
        PROVE  \A x : x \in Holders(j)' <=>
                 (x = <<w, 1>> /\ j = g.item) \/ (x # <<t, n>> /\ x \in Holders(j))
    BY ONLY <1>4, <1>12, <1>13, HandedHolders, t \in Actors
  <2> QED BY <1>6, <2>1
<1>16. ItemInv' /\ ListInv' /\ Mono(t, n) /\ DeletesOwn(t, n)
  <2>1. \A j \in Items : deletes[j] \in Nat BY <1>5 DEF SessionType
  <2> QED BY <1>4, <2>1 DEF SessionInv, ItemInv, ListInv, Mono, DeletesOwn
<1>17. FrameInv'
  <2>0. SUFFICES ASSUME NEW u \in Actors, NEW d \in 1 .. Len(stack'[u])
                 PROVE  FrameOK(u, Outer(stack[u], d))'
    BY DEF FrameInv
  <2>1. SUFFICES ASSUME NEW h, h = Outer(stack'[u], d) PROVE FrameOK(u, h)'
    BY DEF FrameOK, Outer
  <2>2. CASE u = t /\ h = f
    BY <1>4, <1>5, <1>7, <2>2 DEF FrameOK, Working
  <2>3. CASE u = w /\ h = g
    BY <1>4, <1>5, <1>6, <2>3 DEF FrameOK, WorkerPC
  <2>4. CASE <<u, d>> # <<t, n>> /\ d \in 1 .. Len(stack[u]) /\ h = Outer(stack[u], d)
    BY <1>5, <1>16, <2>4, FrameKept DEF SessionInv
  <2> QED BY <1>4, <1>12, <2>1, <2>2, <2>3, <2>4, HandedFrames
<1>18. CreateInv'
  <2>1. SUFFICES ASSUME NEW u \in Actors, NEW d \in 1 .. Len(stack'[u]),
                        Outer(stack'[u], d).pc \in Creating,
                        NEW j, j = Outer(stack'[u], d).item
                 PROVE  /\ ~item'[j].active /\ deletes'[j] = 0
                        /\ Holders(j)' = {<<u, d>>}
    BY CreateNext
  <2>2. Outer(stack'[u], d) # f /\ Outer(stack'[u], d) # g
    BY <1>6, <1>7, <2>1 DEF Creating
  <2>3. /\ <<u, d>> # <<t, n>> /\ d \in 1 .. Len(stack[u])
        /\ Outer(stack'[u], d) = Outer(stack[u], d)
    BY <1>4, <1>12, <2>2, HandedFrames
  <2>4. ~item'[j].active /\ deletes'[j] = 0 /\ Holders(j) = {<<u, d>>}
    BY <1>16, <2>1, <2>3, CreateKept DEF SessionInv
  <2>5. j # i
    BY <1>14, <2>3, <2>4
  <2>6. \A x : x \in Holders(j)' <=> x # <<t, n>> /\ x \in Holders(j)
    BY <1>15, <2>5
  <2> QED BY <2>3, <2>4, <2>6
<1>19. CountInv'
  <2>1. ASSUME NEW j \in Items
        PROVE  IsFiniteSet(Holders(j)') /\ Cardinality(Holders(j)') = Cardinality(Holders(j))
    <3>0. IsFiniteSet(Holders(j))
      BY DEF SessionInv, CountInv
    <3>1. CASE j # i
      <4>1. \A x : x \in Holders(j)' <=> x \in Holders(j)
        BY <1>14, <1>15, <3>1
      <4>2. Holders(j)' = Holders(j)
        BY <4>1
      <4> QED BY <3>0, <4>2
    <3>2. CASE j = i
      <4> DEFINE H == Holders(j) \ {<<t, n>>}
      <4>1. <<t, n>> \in Holders(j) /\ <<w, 1>> \notin Holders(j)
        BY <1>3, <1>4, <1>14, <3>2, EmptyHolds
      <4>2. IsFiniteSet(H) /\ Cardinality(H) = Cardinality(Holders(j)) - 1
        BY <3>0, <4>1, FS_RemoveElement
      <4>3. <<w, 1>> \notin H
        BY <4>1
      <4>4. Holders(j)' = H \cup {<<w, 1>>}
        BY <1>15, <3>2
      <4>5. IsFiniteSet(H \cup {<<w, 1>>}) /\ Cardinality(H \cup {<<w, 1>>}) = Cardinality(H) + 1
        BY <4>2, <4>3, FS_AddElement
      <4>6. Cardinality(Holders(j)) \in Int
        BY <3>0, FS_CardinalityType
      <4> QED BY <4>2, <4>4, <4>5, <4>6
    <3> QED BY <3>1, <3>2
  <2>2. RefsExact
    BY DEF SessionInv, CountInv
  <2>3. ASSUME NEW j \in Items, item'[j].st = "live"
        PROVE  item'[j].refs = Cardinality(Holders(j)') + 1 - deletes'[j] + leaked'[j]
    BY <1>4, <2>1, <2>2, <2>3 DEF RefsExact
  <2> QED BY <2>1, <2>3 DEF CountInv, RefsExact
<1>20. DeadInv'
  <2>1. SUFFICES ASSUME NEW j \in Items, Dead(j)', deletes'[j] <= 1
                 PROVE  Holders(j)' = {} /\ deletes'[j] = 1
    BY DEF DeadInv
  <2>2. Dead(j)
    <3>1. CASE item'[j].st = "gone"
      BY <1>4, <3>1 DEF Dead
    <3>2. ASSUME NEW u \in Actors, NEW d \in 1 .. Len(stack'[u]),
                 Outer(stack'[u], d).pc = "put0", Outer(stack'[u], d).item = j
          PROVE  Dead(j)
      <4>1. Outer(stack'[u], d) # f /\ Outer(stack'[u], d) # g
        BY <1>6, <1>7, <3>2
      <4>2. d \in 1 .. Len(stack[u]) /\ Outer(stack'[u], d) = Outer(stack[u], d)
        BY <1>4, <1>12, <4>1, HandedFrames
      <4> QED BY <3>2, <4>2 DEF Dead
    <3> QED BY <2>1, <3>1, <3>2 DEF Dead, Outer
  <2>3. Holders(j) = {} /\ deletes'[j] = 1
    BY <1>16, <2>1, <2>2, DeadKept DEF SessionInv
  <2>4. j # i
    BY <1>14, <2>3
  <2> QED BY <1>15, <2>3, <2>4
<1> QED BY <1>11, <1>16, <1>17, <1>18, <1>19, <1>20 DEF SessionInv

\* The frames of a thread that ends with its own process.
LEMMA HeldByIs ==
  ASSUME SessionInv, NEW t \in Actors, NEW i \in Items
  PROVE  /\ IsFiniteSet(HeldBy(t, i)) /\ IsFiniteSet({t} \X HeldBy(t, i))
         /\ Cardinality({t} \X HeldBy(t, i)) = Cardinality(HeldBy(t, i))
         /\ {t} \X HeldBy(t, i) \subseteq Holders(i)
<1> DEFINE H == HeldBy(t, i)
           P == {t} \X H
<1>1. IsFiniteSet(H)
  <2>1. Len(stack[t]) \in Nat
    BY DEF SessionInv, SessionType
  <2>2. IsFiniteSet(1 .. Len(stack[t]))
    BY <2>1, FS_Interval
  <2>3. H \subseteq 1 .. Len(stack[t])
    BY DEF HeldBy
  <2> QED BY <2>2, <2>3, FS_Subset
<1>2. P \subseteq Holders(i)
  BY DEF Holders
<1>3. IsFiniteSet(P)
  <2>1. IsFiniteSet(Holders(i))
    BY DEF SessionInv, CountInv
  <2> QED BY <1>2, <2>1, FS_Subset
<1> HIDE DEF H
<1>4. Cardinality(P) = Cardinality(H)
  <2> DEFINE b == [d \in H |-> <<t, d>>]
  <2>1. b \in Bijection(H, P)
    <3>1. b \in [H -> P]
      OBVIOUS
    <3>2. \A x, y \in H : b[x] = b[y] => x = y
      OBVIOUS
    <3>3. \A z \in P : \E x \in H : b[x] = z
      OBVIOUS
    <3> QED BY <3>1, <3>2, <3>3 DEF Bijection, Injection, Surjection, IsInjective
  <2>2. ExistsBijection(H, P)
    BY <2>1 DEF ExistsBijection
  <2> QED BY <1>1, <1>3, <2>2, FS_Bijection
<1> QED BY <1>1, <1>2, <1>3, <1>4 DEF H

LEMMA ExitSelfInv ==
  ASSUME SessionInv, NEW t \in Actors, ExitSelf(t)
  PROVE  SessionInv'
<1>1. /\ stack' = [stack EXCEPT ![t] = << >>] /\ alive' \subseteq alive
      /\ leaked' = [i \in Items |-> leaked[i] + Cardinality(HeldBy(t, i))]
      /\ UNCHANGED <<item, list, deletes, terms, wild>>
  BY DEF ExitSelf
<1>2. SessionType
  BY DEF SessionInv
<1>3. /\ stack' \in [Actors -> Seq(FrameType)] /\ Len(stack'[t]) = 0
      /\ \A u \in Actors : u # t => stack'[u] = stack[u]
  <2>1. stack \in [Actors -> Seq(FrameType)] /\ << >> \in Seq(FrameType) /\ Len(<< >>) = 0
    BY <1>2 DEF SessionType
  <2> QED BY <1>1, <2>1
<1>4. ASSUME NEW j \in Items
      PROVE  /\ Cardinality(HeldBy(t, j)) \in Nat
             /\ leaked[j] \in Nat /\ leaked'[j] = leaked[j] + Cardinality(HeldBy(t, j))
  <2>1. Cardinality(HeldBy(t, j)) \in Nat
    BY HeldByIs, FS_CardinalityType
  <2> QED BY <1>1, <1>2, <2>1 DEF SessionType
<1>5. SessionType'
  <2>1. leaked' \in [Items -> Nat]
    <3>1. \A j \in Items : leaked[j] + Cardinality(HeldBy(t, j)) \in Nat
      BY <1>4
    <3> QED BY <1>1, <3>1
  <2> QED BY <1>1, <1>2, <1>3, <2>1 DEF SessionType
<1>6. ASSUME NEW u \in Actors, NEW d \in 1 .. Len(stack'[u])
      PROVE  u # t /\ d \in 1 .. Len(stack[u]) /\ stack'[u] = stack[u]
  BY <1>3, <1>6
<1>7. ASSUME NEW j, NEW x
      PROVE  x \in Holders(j)' <=> x \in Holders(j) /\ x \notin {t} \X HeldBy(t, j)
  <2>1. ASSUME x \in Holders(j)'
        PROVE  x \in Holders(j) /\ x \notin {t} \X HeldBy(t, j)
    <3>1. PICK u \in Actors : \E d \in 1 .. Len(stack'[u]) : x = <<u, d>>
      BY <2>1, HoldersAreNext
    <3>2. PICK d \in 1 .. Len(stack'[u]) : x = <<u, d>>
      BY <3>1
    <3>3. Holds(Outer(stack'[u], d)) /\ Outer(stack'[u], d).item = j
      BY <2>1, <3>2, HoldersAreNext
    <3>4. u # t /\ d \in 1 .. Len(stack[u]) /\ stack'[u] = stack[u]
      BY <1>6, <3>2
    <3>5. <<u, d>> \in Holders(j)
      BY <3>3, <3>4, HoldersAre
    <3> QED BY <3>2, <3>4, <3>5
  <2>2. ASSUME x \in Holders(j), x \notin {t} \X HeldBy(t, j)
        PROVE  x \in Holders(j)'
    <3>1. PICK u \in Actors : \E d \in 1 .. Len(stack[u]) : x = <<u, d>>
      BY <2>2, HoldersArePairs
    <3>2. PICK d \in 1 .. Len(stack[u]) : x = <<u, d>>
      BY <3>1
    <3>3. Holds(Outer(stack[u], d)) /\ Outer(stack[u], d).item = j
      BY <2>2, <3>2, HoldersAre
    <3>4. u # t
      BY <2>2, <3>2, <3>3 DEF HeldBy
    <3>5. stack'[u] = stack[u]
      BY <1>3, <3>4
    <3> QED BY <3>2, <3>3, <3>5, HoldersAreNext
  <2> QED BY <2>1, <2>2
<1>8. PICK n : n = 0
  OBVIOUS
<1>9. Mono(t, n) /\ DeletesOwn(t, n) /\ ListInv'
  <2>1. \A j \in Items : deletes[j] \in Nat BY <1>2 DEF SessionType
  <2> QED BY <1>1, <2>1 DEF SessionInv, ListInv, Mono, DeletesOwn
<1>10. ItemInv'
  <2>1. ASSUME NEW j \in Items, item[j].st = "unused" PROVE leaked'[j] = leaked[j]
    <3>1. Holders(j) = {}
      BY <2>1, UnusedFree
    <3>2. HeldBy(t, j) = {}
      <4>1. {t} \X HeldBy(t, j) = {}
        BY <3>1, HeldByIs
      <4>2. \A d \in HeldBy(t, j) : <<t, d>> \in {t} \X HeldBy(t, j)
        OBVIOUS
      <4> QED BY <4>1, <4>2
    <3>3. Cardinality(HeldBy(t, j)) = 0
      BY <3>2, FS_EmptySet
    <3> QED BY <1>4, <3>3
  <2> QED BY <1>1, <2>1 DEF SessionInv, ItemInv
<1>11. FrameInv'
  <2>1. SUFFICES ASSUME NEW u \in Actors, NEW d \in 1 .. Len(stack'[u])
                 PROVE  FrameOK(u, Outer(stack[u], d))'
    BY DEF FrameInv
  <2>2. SUFFICES ASSUME NEW h, h = Outer(stack'[u], d) PROVE FrameOK(u, h)'
    BY DEF FrameOK, Outer
  <2>3. <<u, d>> # <<t, n>> /\ d \in 1 .. Len(stack[u]) /\ h = Outer(stack[u], d)
    BY <1>6, <2>2
  <2> QED BY <1>9, <2>3, FrameKept DEF SessionInv
<1>12. CreateInv'
  <2>1. SUFFICES ASSUME NEW u \in Actors, NEW d \in 1 .. Len(stack'[u]),
                        Outer(stack'[u], d).pc \in Creating,
                        NEW j, j = Outer(stack'[u], d).item
                 PROVE  /\ ~item'[j].active /\ deletes'[j] = 0
                        /\ Holders(j)' = {<<u, d>>}
    BY CreateNext
  <2>2. u # t /\ d \in 1 .. Len(stack[u]) /\ stack'[u] = stack[u]
    BY <1>6
  <2>3. <<u, d>> # <<t, n>>
    BY <2>2
  <2>4. ~item'[j].active /\ deletes'[j] = 0 /\ Holders(j) = {<<u, d>>}
    BY <1>9, <2>1, <2>2, <2>3, CreateKept DEF SessionInv
  <2>5. <<u, d>> \notin {t} \X HeldBy(t, j)
    BY <2>2
  <2>6. \A x : x \in Holders(j)' <=> x = <<u, d>>
    BY <1>7, <2>4, <2>5
  <2> QED BY <2>4, <2>6
<1>13. CountInv'
  <2>1. ASSUME NEW j \in Items
        PROVE  /\ IsFiniteSet(Holders(j)') /\ Cardinality(Holders(j)) \in Nat
               /\ Cardinality(Holders(j)') = Cardinality(Holders(j)) - Cardinality(HeldBy(t, j))
    <3> DEFINE P == {t} \X HeldBy(t, j)
    <3>1. IsFiniteSet(Holders(j)) /\ Cardinality(Holders(j)) \in Nat
      BY FS_CardinalityType DEF SessionInv, CountInv
    <3>2. IsFiniteSet(P) /\ Cardinality(P) = Cardinality(HeldBy(t, j)) /\ P \subseteq Holders(j)
      BY HeldByIs
    <3>3. Holders(j)' = Holders(j) \ P /\ Holders(j) \cap P = P
      BY <1>7, <3>2
    <3> HIDE DEF P
    <3>4. /\ IsFiniteSet(Holders(j) \ P)
          /\ Cardinality(Holders(j) \ P) = Cardinality(Holders(j)) - Cardinality(Holders(j) \cap P)
      BY <3>1, <3>2, FS_Difference
    <3> QED BY <3>1, <3>2, <3>3, <3>4
  <2>2. RefsExact
    BY DEF SessionInv, CountInv
  <2>3. ASSUME NEW j \in Items, item'[j].st = "live"
        PROVE  item'[j].refs = Cardinality(Holders(j)') + 1 - deletes'[j] + leaked'[j]
    <3>1. item[j].refs = Cardinality(Holders(j)) + 1 - deletes[j] + leaked[j]
      BY <1>1, <2>2, <2>3 DEF RefsExact
    <3>2. deletes[j] \in Nat /\ deletes'[j] = deletes[j] /\ item'[j] = item[j]
      BY <1>1, <1>2 DEF SessionType
    <3> QED BY <1>4, <2>1, <3>1, <3>2
  <2> QED BY <2>1, <2>3 DEF CountInv, RefsExact
<1>14. DeadInv'
  <2>1. SUFFICES ASSUME NEW j \in Items, Dead(j)', deletes'[j] <= 1
                 PROVE  Holders(j)' = {} /\ deletes'[j] = 1
    BY DEF DeadInv
  <2>2. Dead(j)
    <3>1. CASE item'[j].st = "gone"
      BY <1>1, <3>1 DEF Dead
    <3>2. ASSUME NEW u \in Actors, NEW d \in 1 .. Len(stack'[u]),
                 Outer(stack'[u], d).pc = "put0", Outer(stack'[u], d).item = j
          PROVE  Dead(j)
      BY <1>6, <3>2 DEF Dead
    <3> QED BY <2>1, <3>1, <3>2 DEF Dead, Outer
  <2>3. Holders(j) = {} /\ deletes'[j] = 1
    BY <1>9, <2>1, <2>2, DeadKept DEF SessionInv
  <2> QED BY <1>7, <2>3
<1> QED BY <1>5, <1>9, <1>10, <1>11, <1>12, <1>13, <1>14 DEF SessionInv

-----------------------------------------------------------------------------
\* The invariant of the specification.

LEMMA InitInv == Init => SessionInv
<1> SUFFICES ASSUME Init PROVE SessionInv
  OBVIOUS
<1>1. \A t \in Actors : stack[t] = << >> /\ Len(stack[t]) = 0
  BY DEF Init
<1>2. ASSUME NEW i PROVE Holders(i) = {}
  <2>1. SUFFICES ASSUME NEW x \in Holders(i) PROVE FALSE
    OBVIOUS
  <2>2. PICK u \in Actors : \E d \in 1 .. Len(stack[u]) : x = <<u, d>>
    BY HoldersArePairs
  <2> QED BY <1>1, <2>2
<1>3. Unused \in ItemType
  BY DEF Unused, ItemType
<1>4. SessionType
  <2>1. item \in [Items -> ItemType]
    BY <1>3 DEF Init
  <2>2. << >> \in Seq(Items) /\ << >> \in Seq(FrameType)
    OBVIOUS
  <2>3. stack \in [Actors -> Seq(FrameType)] /\ list \in Seq(Items)
    BY <2>2 DEF Init
  <2>4. alive \subseteq Procs /\ deletes \in [Items -> Nat] /\ leaked \in [Items -> Nat]
    BY DEF Init
  <2>5. terms \in 0 .. MaxTerms
    BY SessionAssumption DEF Init
  <2>6. wild \in BOOLEAN
    BY DEF Init
  <2> QED BY <2>1, <2>3, <2>4, <2>5, <2>6 DEF SessionType
<1>5. \A i \in Items : /\ item[i] = Unused /\ item[i].st = "unused" /\ ~item[i].active
                       /\ deletes[i] = 0 /\ leaked[i] = 0
  BY DEF Init, Unused
<1>6. ItemInv
  BY <1>5 DEF ItemInv
<1>7. FrameInv /\ CreateInv
  BY <1>1 DEF FrameInv, CreateInv
<1>8. CountInv
  BY <1>2, <1>5, FS_EmptySet DEF CountInv, RefsExact
<1>9. DeadInv
  BY <1>1, <1>5 DEF DeadInv, Dead
<1>10. ListInv
  <2>1. Len(list) = 0 BY DEF Init
  <2> QED BY <2>1 DEF ListInv
<1> QED BY <1>4, <1>6, <1>7, <1>8, <1>9, <1>10 DEF SessionInv

LEMMA RunInv ==
  ASSUME SessionInv, NEW t \in Actors, Run(t) \/ Answered(t) \/ LeaveChannel(t)
  PROVE  SessionInv'
<1>1. CASE AttachNew(t) BY <1>1, AttachNewInv
<1>2. CASE AttachChan(t) \/ AttachActive(t) \/ SetFilter(t) \/ Deactivate(t) \/ Release(t)
  BY <1>2, FieldSteps
<1>3. CASE AttachRefused(t) \/ Answered(t) \/ LeaveChannel(t) \/ ReportSkipped(t)
  BY <1>3, PlainSteps
<1>4. CASE Unlist(t) BY <1>4, UnlistInv
<1>5. CASE Deref(t) BY <1>5, DerefInv
<1>6. CASE Destroy(t) BY <1>6, DestroyInv
<1>7. CASE Return(t) \/ Died(t) \/ Exit(t) BY <1>7, PopSteps
<1>8. CASE ReportLast(t) BY <1>8, ReportLastInv
<1>9. CASE FindDebugged(t) \/ FindOwn(t) BY <1>9, FindDebuggedInv
<1>10. CASE KillDebugged(t) \/ KillStray(t) BY <1>10, KillInv
<1>11. CASE ReportTerminated(t) BY <1>11, ReportTerminatedInv
<1>12. CASE ReportLost(t) BY <1>12, ReportLostInv
<1>13. CASE ExitSelf(t) BY <1>13, ExitSelfInv
<1> QED BY <1>1, <1>2, <1>3, <1>4, <1>5, <1>6, <1>7, <1>8, <1>9, <1>10, <1>11,
           <1>12, <1>13 DEF Run

LEMMA NextInv == SessionInv /\ [Next]_vars => SessionInv'
<1> SUFFICES ASSUME SessionInv, [Next]_vars PROVE SessionInv'
  OBVIOUS
<1>1. ASSUME NEW t \in Threads, Call(t) PROVE SessionInv'
  BY <1>1, CallInv
<1>2. ASSUME NEW t \in Actors, Run(t) \/ Answered(t) \/ LeaveChannel(t)
      PROVE  SessionInv'
  BY <1>2, RunInv
<1>3. CASE UNCHANGED vars
  <2>1. UNCHANGED <<item, list, alive, stack, deletes, leaked, terms, wild>>
    BY <1>3 DEF vars
  <2>2. (SessionType /\ ItemInv /\ ListInv)'
    BY <2>1 DEF SessionInv, SessionType, ItemInv, ListInv
  <2>3. (FrameInv /\ CreateInv)'
    <3>1. FrameInv'
      BY <2>1 DEF SessionInv, FrameInv, FrameOK, Outer
    <3>2. CreateInv'
      BY <2>1 DEF SessionInv, CreateInv, Holders, HeldBy, Outer, Holds
    <3> QED BY <3>1, <3>2
  <2>4. CountInv' /\ DeadInv'
    <3>1. \A i : Holders(i)' = Holders(i)
      BY <2>1 DEF Holders, HeldBy, Outer, Holds
    <3>2. CountInv'
      BY <2>1, <3>1 DEF SessionInv, CountInv, RefsExact
    <3>3. \A i : Dead(i)' <=> Dead(i)
      BY <2>1, <3>1 DEF Dead
    <3>4. DeadInv'
      BY <2>1, <3>1, <3>3 DEF SessionInv, DeadInv
    <3> QED BY <3>2, <3>4
  <2> QED BY <2>2, <2>3, <2>4 DEF SessionInv
<1> QED BY <1>1, <1>2, <1>3 DEF Next

LEMMA AlwaysInv == Spec => []SessionInv
BY InitInv, NextInv, PTL DEF Spec

-----------------------------------------------------------------------------
\* The variables of dbg_item.c and debug.c have their types, and an item that
\* has been allocated names its debugger and its debuggee.
THEOREM SessionsHaveTypes == Spec => []TypeOK
<1>1. SessionInv => TypeOK
  <2> SUFFICES ASSUME SessionInv PROVE TypeOK
    OBVIOUS
  <2>1. \A t \in Actors : \A k \in 1 .. Len(stack[t]) : stack[t][k] \in FrameType
    BY DEF SessionInv, SessionType
  <2>2. Len(list) \in Nat /\ \A k \in 1 .. Len(list) : list[k] \in Items
    BY DEF SessionInv, SessionType
  <2> QED BY <2>1, <2>2 DEF SessionInv, SessionType, ItemInv, TypeOK
<1> QED BY <1>1, AlwaysInv, PTL

\* ref_count is the number of frames that hold the item, plus the list's
\* reference, plus those the code has lost: every path of the handlers, the
\* hooks and the nested terminations gives back what it took, whatever the
\* number of processes, threads and sessions.
THEOREM RefsAreExact == Spec => []RefsExact
<1>1. SessionInv => RefsExact
  BY DEF SessionInv, CountInv
<1> QED BY <1>1, AlwaysInv, PTL

\* While dbg_delete_item runs at most once for an item, neither a call nor
\* dbg_item_list has a pointer to it after mem_free.
THEOREM NoneDangling == Spec => []NoDanglingItem
<1>1. SessionInv => NoDanglingItem
  BY DEF SessionInv, DeadInv, Dead, ListInv, NoDanglingItem
<1> QED BY <1>1, AlwaysInv, PTL

\* channel_send, channel_recv and channel_release get a channel that
\* dbg_attach_call has stored, although it inserts the item first.
THEOREM ChannelsArePresent == Spec => []ChannelPresent
<1>1. SessionInv => ChannelPresent
  <2> SUFFICES ASSUME SessionInv, NEW t \in Actors, At(t, "chan") \/ At(t, "release")
               PROVE  item[Top(t).item].chan # "none"
    BY DEF ChannelPresent
  <2>1. FrameOK(t, Top(t)) /\ Top(t).pc \in {"chan", "release"}
    BY TopOK DEF At
  <2> QED BY <2>1 DEF FrameOK, Working
<1> QED BY <1>1, AlwaysInv, PTL
=============================================================================
