--------------------------- MODULE EventQueueProofs ---------------------------
(***************************************************************************)
(* Lemmas about the list operations of EventQueue: what insertTask and the *)
(* unlinking in executeAll do to the consistency of the queue.             *)
(***************************************************************************)
EXTENDS EventQueue, SequenceTheorems, TLAPS

(* The list that insertTask builds: one element longer, the new record at  *)
(* position p + 1 and the others in their old order around it.             *)
LEMMA InsertedProperties ==
  ASSUME NEW q \in Seq(Events), NEW e \in Events, NEW p \in 0 .. Len(q)
  PROVE  /\ Inserted(q, p, e) \in Seq(Events)
         /\ Len(Inserted(q, p, e)) = Len(q) + 1
         /\ Inserted(q, p, e) # << >>
         /\ \A i \in 1 .. Len(q) + 1 :
              Inserted(q, p, e)[i] =
                IF i <= p THEN q[i] ELSE IF i = p + 1 THEN e ELSE q[i - 1]
<1> DEFINE s == Inserted(q, p, e)
<1>1. Len(q) \in Nat /\ q \in [1 .. Len(q) -> Events]
  BY LenProperties
<1>2. s \in [1 .. Len(q) + 1 -> Events]
  BY <1>1 DEF Inserted
<1>3. s \in Seq(Events)
  <2>1. Len(q) + 1 \in Nat
    BY <1>1
  <2>2. s \in UNION {[1 .. n -> Events] : n \in Nat}
    BY <1>2, <2>1
  <2> QED BY <2>2, SeqDef
<1>4. Len(s) = Len(q) + 1
  BY <1>1, <1>2, <1>3, LenProperties
<1>5. \A i \in 1 .. Len(q) + 1 :
        s[i] = IF i <= p THEN q[i] ELSE IF i = p + 1 THEN e ELSE q[i - 1]
  BY DEF Inserted
<1>6. s # << >>
  BY <1>1, <1>3, <1>4, EmptySeq
<1> HIDE DEF s
<1>7. s \in Seq(Events) /\ Len(s) = Len(q) + 1 /\ s # << >>
  BY <1>3, <1>4, <1>6
<1> QED BY <1>5, <1>7 DEF s

(* insertTask keeps the list consistent, whichever of its branches is      *)
(* taken, and leaves the head alone unless it reports a new head.          *)
LEMMA InsertTaskKeepsConsistent ==
  ASSUME QueueTypeOK, QueueConsistent,
         NEW e \in Events, NEW t \in Nat, NEW atHead, InsertTask(e, t, atHead)
  PROVE  /\ QueueTypeOK'
         /\ QueueConsistent'
         /\ ~atHead => /\ queue' = << >> <=> queue = << >>
                       /\ queue # << >> => /\ Head(queue') = Head(queue)
                                           /\ momentX'[Head(queue')] = momentX[Head(queue)]
<1>1. CASE isScheduled[e]
  <2>1. UNCHANGED queueVars
    BY <1>1 DEF InsertTask
  <2> QED BY <2>1 DEF queueVars, QueueTypeOK, QueueConsistent, Sorted,
              NoDuplicates, FlagIffQueued
<1>2. CASE ~isScheduled[e]
  <2>1. PICK p \in 0 .. Len(queue) :
          /\ IsInsertPosition(p, t)
          /\ queue' = Inserted(queue, p, e)
          /\ atHead = (p = 0)
    BY <1>2 DEF InsertTask
  <2>2. /\ momentX' = [momentX EXCEPT ![e] = t]
        /\ isScheduled' = [isScheduled EXCEPT ![e] = TRUE]
    BY <1>2 DEF InsertTask
  <2>3. /\ queue \in Seq(Events) /\ Len(queue) \in Nat
        /\ \A i \in 1 .. Len(queue) : queue[i] \in Events
        /\ momentX \in [Events -> Nat] /\ isScheduled \in [Events -> BOOLEAN]
    BY ElementOfSeq, LenProperties DEF QueueTypeOK
  <2>4. /\ queue' \in Seq(Events)
        /\ Len(queue') = Len(queue) + 1
        /\ queue' # << >>
        /\ \A i \in 1 .. Len(queue) + 1 :
             queue'[i] = IF i <= p THEN queue[i]
                         ELSE IF i = p + 1 THEN e ELSE queue[i - 1]
    <3>1. /\ Inserted(queue, p, e) \in Seq(Events)
          /\ Len(Inserted(queue, p, e)) = Len(queue) + 1
          /\ Inserted(queue, p, e) # << >>
          /\ \A i \in 1 .. Len(queue) + 1 :
               Inserted(queue, p, e)[i] =
                 IF i <= p THEN queue[i] ELSE IF i = p + 1 THEN e ELSE queue[i - 1]
      BY <2>3, InsertedProperties
    <3>2. queue' = Inserted(queue, p, e)
      BY <2>1
    <3> QED BY <3>1, <3>2
  <2>5. \A i \in 1 .. Len(queue) : queue[i] # e
    BY <1>2, <2>3 DEF QueueConsistent, FlagIffQueued
  <2>6. momentX'[e] = t /\ \A i \in 1 .. Len(queue) : momentX'[queue[i]] = momentX[queue[i]]
    BY <2>2, <2>3, <2>5
  <2>7. QueueTypeOK'
    BY <2>2, <2>3, <2>4 DEF QueueTypeOK
  <2>8. NoDuplicates'
    <3> SUFFICES ASSUME NEW i \in 1 .. Len(queue) + 1, NEW j \in 1 .. Len(queue) + 1, i < j
                 PROVE  queue'[i] # queue'[j]
      BY <2>3, <2>4 DEF NoDuplicates
    <3> DEFINE old(k) == IF k <= p THEN k ELSE k - 1
    <3>1. \A k \in 1 .. Len(queue) + 1 :
            k # p + 1 => old(k) \in 1 .. Len(queue) /\ queue'[k] = queue[old(k)]
      <4> TAKE k \in 1 .. Len(queue) + 1
      <4>1. k # p + 1 => old(k) \in 1 .. Len(queue)
        BY <2>1, <2>3
      <4>2. k # p + 1 => queue'[k] = queue[old(k)]
        BY <2>1, <2>3, <2>4
      <4> QED BY <4>1, <4>2
    <3>2. queue'[p + 1] = e
      BY <2>1, <2>3, <2>4
    <3>3. i # p + 1 /\ j # p + 1 => old(i) # old(j)
      BY <2>1, <2>3
    <3> HIDE DEF old
    <3>4. CASE i # p + 1 /\ j # p + 1
      BY <3>1, <3>3, <3>4 DEF QueueConsistent, NoDuplicates
    <3>5. CASE i = p + 1
      BY <3>1, <3>2, <3>5, <2>5
    <3>6. CASE j = p + 1
      BY <3>1, <3>2, <3>6, <2>5
    <3> QED BY <3>4, <3>5, <3>6
  <2>9. FlagIffQueued'
    <3>1. \A f \in Events \ {e} : isScheduled'[f] = isScheduled[f]
      BY <2>2, <2>3
    <3>2. isScheduled'[e] /\ queue'[p + 1] = e /\ p + 1 \in 1 .. Len(queue')
      BY <2>1, <2>2, <2>3, <2>4
    <3>3. \A i \in 1 .. Len(queue) : \E j \in 1 .. Len(queue') : queue'[j] = queue[i]
      <4> TAKE i \in 1 .. Len(queue)
      <4>1. CASE i <= p
        <5>1. i \in 1 .. Len(queue) + 1 /\ i \in 1 .. Len(queue')
          BY <2>3, <2>4
        <5>2. queue'[i] = queue[i]
          BY <4>1, <5>1, <2>4
        <5> QED BY <5>1, <5>2
      <4>2. CASE i > p
        <5> DEFINE k == i + 1
        <5>1. /\ k \in 1 .. Len(queue) + 1 /\ k \in 1 .. Len(queue')
              /\ ~(k <= p) /\ (k = p + 1 => i = p) /\ k - 1 = i /\ i # p
          BY <4>2, <2>1, <2>3, <2>4
        <5> HIDE DEF k
        <5>2. queue'[k] = queue[i]
          BY <5>1, <2>4
        <5> QED BY <5>1, <5>2
      <4> QED BY <4>1, <4>2, <2>1, <2>3
    <3>4. \A j \in 1 .. Len(queue') :
            queue'[j] = e \/ \E i \in 1 .. Len(queue) : queue'[j] = queue[i]
      <4> TAKE j \in 1 .. Len(queue')
      <4>1. queue'[j] = IF j <= p THEN queue[j] ELSE IF j = p + 1 THEN e ELSE queue[j - 1]
        BY <2>3, <2>4
      <4>2. (j <= p => j \in 1 .. Len(queue)) /\ (j > p /\ j # p + 1 => j - 1 \in 1 .. Len(queue))
        BY <2>1, <2>3, <2>4, SMTT(30)
      <4>3. j <= p \/ j > p
        BY <2>1, <2>3, <2>4
      <4> QED
        BY <4>1, <4>2, <4>3
    <3>5. \A f \in Events :
            isScheduled[f] <=> \E i \in 1 .. Len(queue) : queue[i] = f
      BY DEF QueueConsistent, FlagIffQueued
    <3>6. ASSUME NEW f \in Events
          PROVE  isScheduled'[f] <=> \E j \in 1 .. Len(queue') : queue'[j] = f
      <4>1. CASE f = e
        BY <4>1, <3>2
      <4>2. CASE f # e
        <5>1. isScheduled'[f] <=> \E i \in 1 .. Len(queue) : queue[i] = f
          BY <4>2, <3>1, <3>5
        <5>2. (\E i \in 1 .. Len(queue) : queue[i] = f)
                => \E j \in 1 .. Len(queue') : queue'[j] = f
          BY <3>3
        <5>3. (\E j \in 1 .. Len(queue') : queue'[j] = f)
                => \E i \in 1 .. Len(queue) : queue[i] = f
          BY <4>2, <3>4
        <5> QED BY <5>1, <5>2, <5>3
      <4> QED BY <4>1, <4>2
    <3> QED BY <3>6 DEF FlagIffQueued
  <2>10. \A i \in 1 .. Len(queue) : i <= p => momentX[queue[i]] <= t
    <3>1. CASE p = 0
      BY <3>1, <2>3
    <3>2. CASE p # 0
      <4>1. queue # << >> /\ Head(queue) = queue[1]
        BY <3>2, <2>1, <2>3 DEF IsInsertPosition
      <4>2. momentX[queue[1]] <= t /\ \A k \in 2 .. p : momentX[queue[k]] < t
        BY <3>2, <4>1, <2>1, <2>3 DEF IsInsertPosition
      <4> QED BY <4>2, <2>1, <2>3
    <3> QED BY <3>1, <3>2
  <2>11. \A i \in 1 .. Len(queue) : i > p => t <= momentX[queue[i]]
    <3>1. Len(queue) > p => t <= momentX[queue[p + 1]]
      <4>1. CASE p = 0
        BY <4>1, <2>1, <2>3 DEF IsInsertPosition
      <4>2. CASE p # 0
        BY <4>2, <2>1, <2>3 DEF IsInsertPosition
      <4> QED BY <4>1, <4>2
    <3>2. \A i \in 1 .. Len(queue) : i > p + 1 => momentX[queue[p + 1]] <= momentX[queue[i]]
      BY <2>1, <2>3, SMTT(30) DEF QueueConsistent, Sorted
    <3> QED BY <3>1, <3>2, <2>1, <2>3, SMTT(30)
  <2>12. Sorted'
    <3> SUFFICES ASSUME NEW i \in 1 .. Len(queue) + 1, NEW j \in 1 .. Len(queue) + 1, i < j
                 PROVE  momentX'[queue'[i]] <= momentX'[queue'[j]]
      BY <2>4 DEF Sorted
    <3>1. CASE i <= p /\ j <= p
      <4>1. i \in 1 .. Len(queue) /\ j \in 1 .. Len(queue)
        BY <3>1, <2>1, <2>3
      <4>2. momentX[queue[i]] <= momentX[queue[j]]
        BY <4>1 DEF QueueConsistent, Sorted
      <4>3. queue'[i] = queue[i] /\ queue'[j] = queue[j]
        BY <3>1, <2>1, <2>3, <2>4
      <4> QED BY <4>1, <4>2, <4>3, <2>6
    <3>2. CASE i <= p /\ j = p + 1
      <4>1. i \in 1 .. Len(queue)
        BY <3>2, <2>1, <2>3
      <4>2. queue'[i] = queue[i] /\ queue'[j] = e
        BY <3>2, <2>1, <2>3, <2>4
      <4> QED BY <3>2, <4>1, <4>2, <2>6, <2>10
    <3>3. CASE i <= p /\ j > p + 1
      <4>1. i \in 1 .. Len(queue) /\ j - 1 \in 1 .. Len(queue) /\ i < j - 1
        BY <3>3, <2>1, <2>3
      <4>2. momentX[queue[i]] <= momentX[queue[j - 1]]
        BY <4>1 DEF QueueConsistent, Sorted
      <4>3. queue'[i] = queue[i] /\ queue'[j] = queue[j - 1]
        BY <3>3, <2>1, <2>3, <2>4
      <4> QED BY <4>1, <4>2, <4>3, <2>6
    <3>4. CASE i = p + 1
      <4>1. j - 1 \in 1 .. Len(queue) /\ j - 1 > p
        BY <3>4, <2>1, <2>3
      <4>2. queue'[i] = e /\ queue'[j] = queue[j - 1]
        BY <3>4, <2>1, <2>3, <2>4
      <4> QED BY <4>1, <4>2, <2>6, <2>11
    <3>5. CASE i > p + 1
      <4>1. i - 1 \in 1 .. Len(queue) /\ j - 1 \in 1 .. Len(queue) /\ i - 1 < j - 1
        BY <3>5, <2>1, <2>3
      <4>2. momentX[queue[i - 1]] <= momentX[queue[j - 1]]
        BY <4>1 DEF QueueConsistent, Sorted
      <4>3. queue'[i] = queue[i - 1] /\ queue'[j] = queue[j - 1]
        BY <3>5, <2>1, <2>3, <2>4
      <4> QED BY <4>1, <4>2, <4>3, <2>6
    <3>6. \/ i <= p /\ j <= p
          \/ i <= p /\ j = p + 1
          \/ i <= p /\ j > p + 1
          \/ i = p + 1
          \/ i > p + 1
      BY <2>1, <2>3
    <3> QED BY <3>1, <3>2, <3>3, <3>4, <3>5, <3>6
  <2>13. ~atHead => queue # << >> /\ Head(queue') = Head(queue)
    <3> SUFFICES ASSUME ~atHead
                 PROVE  queue # << >> /\ Head(queue') = Head(queue)
      OBVIOUS
    <3>1. p # 0
      BY <2>1
    <3>2. queue # << >>
      BY <3>1, <2>1 DEF IsInsertPosition
    <3>3. queue'[1] = queue[1]
      BY <3>1, <2>1, <2>3, <2>4, SMTT(30)
    <3> QED BY <3>2, <3>3, <2>3, <2>4
  <2>14. queue # << >> => Head(queue) = queue[1] /\ 1 \in 1 .. Len(queue)
    BY <2>3
  <2> QED BY <2>4, <2>6, <2>7, <2>8, <2>9, <2>12, <2>13, <2>14 DEF QueueConsistent
<1> QED BY <1>1, <1>2

(* Unlinking the head keeps the list consistent, and the record it takes   *)
(* is the earliest of all scheduled records.                               *)
LEMMA UnlinkHeadKeepsConsistent ==
  ASSUME QueueTypeOK, QueueConsistent,
         NEW now \in Nat, NEW clock \in Nat, queue # << >>, UnlinkHead(now, clock)
  PROVE  /\ QueueTypeOK'
         /\ QueueConsistent'
         /\ Head(queue) \in Events
         /\ isScheduled[Head(queue)]
         /\ \A f \in Events : isScheduled[f] => momentX[Head(queue)] <= momentX[f]
<1>1. /\ queue' = Tail(queue)
      /\ isScheduled' = [isScheduled EXCEPT ![Head(queue)] = FALSE]
      /\ momentX' = momentX
  BY DEF UnlinkHead
<1>2. /\ queue \in Seq(Events) /\ Len(queue) \in Nat /\ Len(queue) # 0
      /\ \A i \in 1 .. Len(queue) : queue[i] \in Events
      /\ momentX \in [Events -> Nat] /\ isScheduled \in [Events -> BOOLEAN]
      /\ Head(queue) = queue[1]
  BY ElementOfSeq, LenProperties, EmptySeq DEF QueueTypeOK
<1>3. /\ queue' \in Seq(Events)
      /\ Len(queue') = Len(queue) - 1
      /\ \A i \in 1 .. Len(queue) - 1 : queue'[i] = queue[i + 1]
  BY <1>1, <1>2, HeadTailProperties
<1>4. QueueTypeOK'
  BY <1>1, <1>2, <1>3 DEF QueueTypeOK
<1>5. Sorted'
  BY <1>1, <1>2, <1>3 DEF QueueConsistent, Sorted
<1>6. NoDuplicates'
  BY <1>1, <1>2, <1>3 DEF QueueConsistent, NoDuplicates
<1>7. FlagIffQueued'
  <2>1. \A f \in Events : isScheduled'[f] <=> isScheduled[f] /\ f # queue[1]
    BY <1>1, <1>2
  <2>2. ASSUME NEW i \in 1 .. Len(queue')
        PROVE  queue'[i] # queue[1]
    <3>1. queue'[i] = queue[i + 1] /\ i + 1 \in 1 .. Len(queue)
          /\ 1 \in 1 .. Len(queue) /\ i + 1 # 1
      BY <1>2, <1>3, SMTT(30)
    <3> QED BY <3>1 DEF QueueConsistent, NoDuplicates
  <2>3. ASSUME NEW i \in 1 .. Len(queue), queue[i] # queue[1]
        PROVE  \E j \in 1 .. Len(queue') : queue'[j] = queue[i]
    <3>1. i - 1 \in 1 .. Len(queue') /\ queue'[i - 1] = queue[i]
      BY <2>3, <1>2, <1>3
    <3> QED BY <3>1
  <2>4. \A j \in 1 .. Len(queue') : \E i \in 1 .. Len(queue) : queue'[j] = queue[i]
    BY <1>2, <1>3
  <2>5. \A f \in Events :
          isScheduled[f] <=> \E i \in 1 .. Len(queue) : queue[i] = f
    BY DEF QueueConsistent, FlagIffQueued
  <2>6. ASSUME NEW f \in Events
        PROVE  isScheduled'[f] <=> \E j \in 1 .. Len(queue') : queue'[j] = f
    <3>1. CASE f = queue[1]
      BY <3>1, <2>1, <2>2
    <3>2. CASE f # queue[1]
      BY <3>2, <2>1, <2>3, <2>4, <2>5, SMTT(30)
    <3> QED BY <3>1, <3>2
  <2> QED BY <2>6 DEF FlagIffQueued
<1>8. isScheduled[queue[1]]
  BY <1>2 DEF QueueConsistent, FlagIffQueued
<1>9. \A f \in Events : isScheduled[f] => momentX[queue[1]] <= momentX[f]
  BY <1>2, SMTT(30) DEF QueueConsistent, FlagIffQueued, Sorted
<1> QED BY <1>2, <1>4, <1>5, <1>6, <1>7, <1>8, <1>9 DEF QueueConsistent
=============================================================================
