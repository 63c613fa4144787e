------------------------- MODULE FalseSharingProofs -------------------------
(***************************************************************************)
(* Proofs about the sharing benchmark, for every number of additions.      *)
(***************************************************************************)
EXTENDS FalseSharing, TLAPS

\* Thread t has been created in the current run, ...
Created(t) == main # "create_1" /\ (t = 2 => main # "create_2")

\* ... and has stored this many additions in it.
Done(t) == IF Created(t) THEN LENGTH - left[t] ELSE 0

Total == Done(1) + Done(2)

\* A thread runs only between its creation and its join, and has the rest of its
\* additions left: all of them if the loop is collapsed into one.
ThreadsRun ==
    \A t \in Thread :
        /\ Created(t) => pc[t] # "absent"
        /\ ~Created(t) => pc[t] \in {"absent", "exited"}
        /\ pc[t] \in {"load", "store"} =>
            stride <= left[t] /\ (stride = LENGTH => left[t] = LENGTH)
        /\ pc[t] = "exited" => left[t] = 0

ThreadsJoined ==
    /\ main \in {"join_2", "end"} => pc[1] = "exited"
    /\ main = "end" => pc[2] = "exited" /\ run = "no_sharing"

\* Threads that write different words: a word holds the additions of its thread, and
\* so does the copy the thread is about to store.
WordsCount ==
    run # "true_sharing" =>
        \A t \in Thread :
            /\ memory[WrittenWord[run][t]] = Done(t)
            /\ pc[t] = "store" => loaded[t] = Done(t)

Shared == memory[<<0, 0>>]

\* Threads that write the same word.  A thread that has stored before loads no less
\* than one stride, and so does everybody else: the store that ends a loop of two or
\* more additions leaves two at least, and the last store of all ends a loop.
SharedBounds ==
    run = "true_sharing" =>
        /\ Shared <= Total
        /\ \A t \in Thread :
            /\ pc[t] = "store" => loaded[t] <= Total
            /\ Done(t) > 0 => Shared >= stride
            /\ pc[t] = "store" /\ Done(t) > 0 => loaded[t] >= stride
        /\ (\A t \in Thread : Done(t) = LENGTH) /\ stride < LENGTH => Shared >= 2

\* The words of runs to come are zero, those of past runs hold their results.
OtherRuns ==
    /\ run = "true_sharing" => memory[<<1, 0>>] = 0 /\ memory[<<1, 1>>] = 0
    /\ run # "no_sharing" => memory[<<2, 0>>] = 0 /\ memory[<<3, 0>>] = 0
    /\ run # "true_sharing" =>
        Shared <= 2 * LENGTH /\ Shared >= IF stride < LENGTH THEN 2 ELSE LENGTH
    /\ run = "no_sharing" => memory[<<1, 0>>] = LENGTH /\ memory[<<1, 1>>] = LENGTH

\* The inductive invariant.
Counting ==
    /\ TypeOK
    /\ ThreadsRun /\ ThreadsJoined
    /\ WordsCount /\ SharedBounds /\ OtherRuns

-----------------------------------------------------------------------------
\* The loop runs at least once.
LEMMA Numbers == LENGTH \in Nat /\ LENGTH >= 1
  BY LengthAssumption

\* The words each run writes, and that they are different where the run says so.
LEMMA Words ==
    /\ \A t \in Thread : WrittenWord["true_sharing"][t] = <<0, 0>>
    /\ WrittenWord["false_sharing"][1] = <<1, 0>> /\ WrittenWord["false_sharing"][2] = <<1, 1>>
    /\ WrittenWord["no_sharing"][1] = <<2, 0>> /\ WrittenWord["no_sharing"][2] = <<3, 0>>
    /\ \A r \in Run, t \in Thread : WrittenWord[r][t] \in Word
  BY DEF WrittenWord, Run, Thread, Word

\* main starts out with no thread and no run.
LEMMA InitCounting == Init => Counting
<1> SUFFICES ASSUME Init PROVE Counting
  OBVIOUS
<1> USE DEF Init, Thread
<1>1. TypeOK
  BY Numbers DEF TypeOK, Run
<1>2. ThreadsRun /\ ThreadsJoined
  BY DEF ThreadsRun, ThreadsJoined, Created
<1>3. \A w \in Word : memory[w] = 0
  OBVIOUS
<1>4. Shared = 0 /\ \A t \in Thread : Done(t) = 0
  BY <1>3 DEF Shared, Done, Created, Word
<1>5. SharedBounds /\ WordsCount
  BY <1>4, Numbers DEF SharedBounds, WordsCount, Total
<1>6. OtherRuns
  BY <1>3 DEF OtherRuns, Word
<1> QED
  BY <1>1, <1>2, <1>5, <1>6 DEF Counting

-----------------------------------------------------------------------------
(* The steps of a thread *)

\* A load keeps the count: it only gives the thread the value to add to.
LEMMA LoadKeeps ==
    ASSUME Counting, NEW t \in Thread, Load(t)
    PROVE  Counting'
<1> USE DEF Counting
<1>1. memory[WrittenWord[run][t]] \in 0 .. 2 * LENGTH
  BY Words DEF TypeOK
<1>2. TypeOK'
  BY <1>1 DEF Load, TypeOK
<1>3. /\ pc[t] = "load" /\ UNCHANGED <<run, main, left, memory, stride>>
      /\ \A u \in Thread : pc'[u] = IF u = t THEN "store" ELSE pc[u]
      /\ \A u \in Thread : loaded'[u] = IF u = t THEN memory[WrittenWord[run][t]] ELSE loaded[u]
  BY DEF Load, TypeOK
<1>4. Total' = Total /\ Shared' = Shared /\ \A u : Done(u)' = Done(u) /\ (Created(u)' <=> Created(u))
  BY <1>3 DEF Done, Total, Shared, Created
<1>5. ThreadsRun' /\ ThreadsJoined'
  BY <1>3, <1>4 DEF ThreadsRun, ThreadsJoined, Thread
<1>6. WordsCount'
  BY <1>3, <1>4 DEF WordsCount
<1>7. SharedBounds'
  <2>1. run = "true_sharing" => memory[WrittenWord[run][t]] = Shared
    BY Words DEF Shared
  <2> QED
    BY <1>3, <1>4, <2>1 DEF SharedBounds
<1>8. OtherRuns'
  BY <1>3, <1>4 DEF OtherRuns
<1> QED
  BY <1>2, <1>5, <1>6, <1>7, <1>8

\* A store keeps it: the word it writes now misses what the other thread added meanwhile.
LEMMA StoreKeeps ==
    ASSUME Counting, NEW t \in Thread, Store(t)
    PROVE  Counting'
<1> USE DEF Counting
<1> DEFINE w == WrittenWord[run][t]
<1>0. stride \in Nat /\ stride >= 1 /\ stride <= LENGTH /\ left[t] \in 0 .. LENGTH /\ loaded[t] \in Nat
  BY Numbers DEF TypeOK
<1>1. /\ pc[t] = "store" /\ UNCHANGED <<run, main, loaded, stride>>
      /\ \A u \in Thread : pc'[u] = IF u = t THEN StoreDone(t) ELSE pc[u]
      /\ \A u \in Thread : left'[u] = IF u = t THEN left[t] - stride ELSE left[u]
      /\ \A x \in Word : memory'[x] = IF x = w THEN loaded[t] + stride ELSE memory[x]
  BY DEF Store, TypeOK
<1>2. Created(t) /\ stride <= left[t] /\ (stride = LENGTH => left[t] = LENGTH) /\ stride \in {1, LENGTH}
  BY <1>1 DEF ThreadsRun, TypeOK
<1>3. /\ \A u \in Thread : Done(u)' = IF u = t THEN Done(t) + stride ELSE Done(u)
      /\ \A u \in Thread : Done(u) \in 0 .. LENGTH /\ Done(u)' \in 0 .. LENGTH
      /\ \A u \in Thread : (Created(u)' <=> Created(u))
  BY <1>0, <1>1, <1>2, Numbers DEF Done, Created, TypeOK, Thread
<1>4. Total' = Total + stride /\ Total \in Nat /\ Total' <= 2 * LENGTH
  BY <1>0, <1>3, Numbers DEF Total, Thread
<1>5. w \in Word /\ run \in Run
  BY Words DEF TypeOK
<1>6. loaded[t] + stride \in 0 .. 2 * LENGTH
  <2>1. CASE run = "true_sharing"
    <3>1. loaded[t] <= Total
      BY <1>1, <2>1 DEF SharedBounds
    <3> QED
      BY <1>0, <1>4, <3>1, Numbers
  <2>2. CASE run # "true_sharing"
    <3>1. loaded[t] = Done(t)
      BY <1>1, <2>2 DEF WordsCount
    <3> QED
      BY <1>0, <1>3, <3>1, Numbers
  <2> QED
    BY <2>1, <2>2
<1>7. TypeOK'
  <2>1. left' \in [Thread -> 0 .. LENGTH]
    <3>1. left[t] - stride \in 0 .. LENGTH
      BY <1>0, <1>2, Numbers
    <3>2. left \in [Thread -> 0 .. LENGTH] /\ left' = [left EXCEPT ![t] = left[t] - stride]
      BY DEF Store, TypeOK
    <3> QED
      BY <3>1, <3>2
  <2>2. memory' \in [Word -> 0 .. 2 * LENGTH]
    BY <1>5, <1>6 DEF Store, TypeOK
  <2>3. pc' \in [Thread -> {"absent", "load", "store", "exited"}]
    BY DEF Store, TypeOK, StoreDone
  <2> QED
    BY <1>1, <2>1, <2>2, <2>3 DEF TypeOK
<1>8. ThreadsRun'
  <2> SUFFICES ASSUME NEW u \in Thread
               PROVE  /\ Created(u)' => pc'[u] # "absent"
                      /\ ~Created(u)' => pc'[u] \in {"absent", "exited"}
                      /\ pc'[u] \in {"load", "store"} =>
                          stride' <= left'[u] /\ (stride' = LENGTH => left'[u] = LENGTH)
                      /\ pc'[u] = "exited" => left'[u] = 0
    BY DEF ThreadsRun
  <2>1. CASE u = t
    BY <1>0, <1>1, <1>2, <1>3, <2>1, Numbers DEF StoreDone
  <2>2. CASE u # t
    BY <1>1, <1>3, <2>2 DEF ThreadsRun
  <2> QED
    BY <2>1, <2>2
<1>9. ThreadsJoined'
  BY <1>1 DEF ThreadsJoined, Thread
<1>10. WordsCount'
  <2> SUFFICES ASSUME run # "true_sharing", NEW u \in Thread
               PROVE  /\ memory'[WrittenWord[run][u]] = Done(u)'
                      /\ pc'[u] = "store" => loaded'[u] = Done(u)'
    BY <1>1 DEF WordsCount
  <2>1. CASE u = t
    <3>1. loaded[t] = Done(t)
      BY <1>1 DEF WordsCount
    <3>2. pc'[t] # "store"
      BY <1>1 DEF StoreDone
    <3> QED
      BY <1>1, <1>3, <1>5, <2>1, <3>1, <3>2
  <2>2. CASE u # t
    <3>1. WrittenWord[run][u] # w /\ WrittenWord[run][u] \in Word
      BY <1>5, <2>2, Words DEF Run, Thread
    <3> QED
      BY <1>1, <1>3, <2>2, <3>1 DEF WordsCount
  <2> QED
    BY <2>1, <2>2
<1>11. SharedBounds'
  <2> SUFFICES ASSUME run = "true_sharing"
               PROVE  SharedBounds'
    BY <1>1 DEF SharedBounds
  <2>1. Shared' = loaded[t] + stride /\ Shared' \in Nat
    BY <1>0, <1>1, <1>5, Words DEF Shared, Word
  <2>2. loaded[t] <= Total /\ (Done(t) > 0 => loaded[t] >= stride)
    BY <1>1 DEF SharedBounds
  <2>3. Shared' <= Total' /\ Shared' >= stride
    BY <1>0, <1>4, <2>1, <2>2
  <2>4. ASSUME NEW u \in Thread, pc'[u] = "store"
        PROVE  loaded'[u] <= Total' /\ (Done(u)' > 0 => loaded'[u] >= stride)
    <3>1. u # t /\ pc[u] = "store" /\ loaded[u] \in Nat
      BY <1>1, <2>4 DEF StoreDone, TypeOK
    <3>2. loaded[u] <= Total /\ (Done(u) > 0 => loaded[u] >= stride)
      BY <3>1 DEF SharedBounds
    <3> QED
      BY <1>0, <1>1, <1>3, <1>4, <3>1, <3>2
  <2>5. ASSUME \A u \in Thread : Done(u)' = LENGTH, stride < LENGTH
        PROVE  Shared' >= 2
    <3>1. stride = 1 /\ Done(t) > 0
      BY <1>0, <1>2, <1>3, <2>5
    <3> QED
      BY <1>0, <2>1, <2>2, <3>1
  <2> QED
    BY <1>1, <2>3, <2>4, <2>5 DEF SharedBounds
<1>12. OtherRuns'
  <2>1. CASE run = "true_sharing"
    <3>1. w = <<0, 0>>
      BY <2>1, Words
    <3> QED
      BY <1>1, <2>1, <3>1 DEF OtherRuns, Word
  <2>2. CASE run = "false_sharing"
    <3>1. w \in {<<1, 0>>, <<1, 1>>}
      BY <2>2, Words DEF Thread
    <3> QED
      BY <1>1, <2>2, <3>1 DEF OtherRuns, Word, Shared
  <2>3. CASE run = "no_sharing"
    <3>1. w \in {<<2, 0>>, <<3, 0>>}
      BY <2>3, Words DEF Thread
    <3> QED
      BY <1>1, <2>3, <3>1 DEF OtherRuns, Word, Shared
  <2> QED
    BY <1>5, <2>1, <2>2, <2>3 DEF Run
<1> QED
  BY <1>7, <1>8, <1>9, <1>10, <1>11, <1>12

-----------------------------------------------------------------------------
(* The steps of main *)

\* A created thread has stored nothing, like one that has not been created.
LEMMA CreateKeeps ==
    ASSUME Counting, NEW t \in Thread, pthread_create(t),
           \/ t = 1 /\ main = "create_1" /\ main' = "create_2"
           \/ t = 2 /\ main = "create_2" /\ main' = "join_1"
    PROVE  Counting'
<1> USE DEF Counting
<1>1. /\ UNCHANGED <<run, loaded, memory, stride>>
      /\ \A u \in Thread : pc'[u] = IF u = t THEN "load" ELSE pc[u]
      /\ \A u \in Thread : left'[u] = IF u = t THEN LENGTH ELSE left[u]
  BY DEF pthread_create, TypeOK
<1>2. TypeOK'
  BY Numbers DEF pthread_create, TypeOK
<1>3. /\ \A u \in Thread : u # t => (Created(u)' <=> Created(u))
      /\ ~Created(t) /\ Created(t)'
  BY DEF Created, Thread
<1>4. \A u \in Thread : Done(u)' = Done(u)
  BY <1>1, <1>3, Numbers DEF Done
<1>5. Total' = Total /\ Shared' = Shared
  BY <1>1, <1>4 DEF Total, Shared, Thread
<1>6. ThreadsRun'
  BY <1>1, <1>3, Numbers DEF ThreadsRun, TypeOK
<1>7. ThreadsJoined'
  BY <1>1 DEF ThreadsJoined
<1>8. WordsCount'
  BY <1>1, <1>4 DEF WordsCount
<1>9. SharedBounds'
  BY <1>1, <1>4, <1>5 DEF SharedBounds
<1>10. OtherRuns'
  BY <1>1, <1>5 DEF OtherRuns
<1> QED
  BY <1>2, <1>6, <1>7, <1>8, <1>9, <1>10

\* All the additions of a run have been stored when main has joined both threads.
LEMMA BothDone ==
    ASSUME Counting, main \in {"join_2", "end"}, pc[2] = "exited"
    PROVE  (\A t \in Thread : pc[t] = "exited" /\ Done(t) = LENGTH) /\ Total = 2 * LENGTH
  BY Numbers DEF Counting, ThreadsJoined, ThreadsRun, Thread, Done, Created, Total

\* The second join keeps it: the next run starts with other words or other result cells.
LEMMA Join2Keeps ==
    ASSUME Counting, Join2
    PROVE  Counting'
<1> USE DEF Counting
<1>1. /\ main = "join_2" /\ pc[2] = "exited" /\ UNCHANGED <<pc, left, loaded, memory, stride>>
      /\ \/ run = "no_sharing" /\ main' = "end" /\ run' = run
         \/ run = "true_sharing" /\ main' = "create_1" /\ run' = "false_sharing"
         \/ run = "false_sharing" /\ main' = "create_1" /\ run' = "no_sharing"
  BY DEF Join2, TypeOK, Run, NextRun
<1>2. /\ \A t \in Thread : pc[t] = "exited" /\ Done(t) = LENGTH
      /\ Total = 2 * LENGTH
  BY <1>1, BothDone
<1>3. TypeOK'
  BY <1>1 DEF TypeOK, Run
<1>4. ThreadsRun'
  BY <1>1, <1>2 DEF ThreadsRun
<1>5. ThreadsJoined'
  BY <1>1, <1>2 DEF ThreadsJoined, Thread
<1>6. CASE main' = "end"
  <2>1. \A t \in Thread : Done(t)' = Done(t)
    BY <1>1, <1>6 DEF Done, Created
  <2> QED
    BY <1>1, <1>3, <1>4, <1>5, <1>6, <2>1 DEF WordsCount, SharedBounds, OtherRuns, Shared
<1>7. CASE main' = "create_1"
  <2>1. \A t \in Thread : Done(t)' = 0
    BY <1>7 DEF Done, Created
  <2>2. WordsCount'
    BY <1>1, <1>2, <1>7, <2>1, Words DEF WordsCount, OtherRuns, Thread
  <2>3. SharedBounds'
    BY <1>1, <1>7 DEF SharedBounds
  <2>4. CASE run = "true_sharing"
    <3>1. Shared \in Nat /\ stride \in {1, LENGTH}
      BY DEF Shared, TypeOK, Word
    <3>2. Shared <= 2 * LENGTH /\ Shared >= stride /\ (stride < LENGTH => Shared >= 2)
      BY <1>2, <2>4, Numbers DEF SharedBounds, Thread
    <3> QED
      BY <1>1, <1>3, <1>4, <1>5, <2>2, <2>3, <2>4, <3>1, <3>2, Numbers DEF OtherRuns, Shared
  <2>5. CASE run = "false_sharing"
    <3>1. memory[<<1, 0>>] = LENGTH /\ memory[<<1, 1>>] = LENGTH
      BY <1>2, <2>5, Words DEF WordsCount, Thread
    <3> QED
      BY <1>1, <1>3, <1>4, <1>5, <2>2, <2>3, <2>5, <3>1 DEF OtherRuns, Shared
  <2> QED
    BY <1>1, <1>7, <2>4, <2>5
<1> QED
  BY <1>1, <1>6, <1>7

\* No step of main or of a thread breaks the count.
LEMMA NextKeepsCounting == Counting /\ [Next]_vars => Counting'
<1> SUFFICES ASSUME Counting, [Next]_vars PROVE Counting'
  OBVIOUS
<1>1. CASE Create1
  BY <1>1, CreateKeeps DEF Create1, Thread
<1>2. CASE Create2
  BY <1>2, CreateKeeps DEF Create2, Thread
<1>3. CASE Join1
  <2>1. main = "join_1" /\ main' = "join_2" /\ pc[1] = "exited" /\ UNCHANGED <<run, pc, left, loaded, memory, stride>>
    BY <1>3 DEF Join1
  <2>2. \A t : Done(t)' = Done(t) /\ (Created(t)' <=> Created(t))
    BY <2>1 DEF Done, Created
  <2>3. Total' = Total /\ Shared' = Shared
    BY <2>1, <2>2 DEF Total, Shared
  <2>4. TypeOK'
    BY <2>1 DEF Counting, TypeOK
  <2>5. ThreadsRun' /\ ThreadsJoined'
    BY <2>1, <2>2 DEF Counting, ThreadsRun, ThreadsJoined
  <2>6. WordsCount' /\ SharedBounds' /\ OtherRuns'
    BY <2>1, <2>2, <2>3 DEF Counting, WordsCount, SharedBounds, OtherRuns
  <2> QED
    BY <2>4, <2>5, <2>6 DEF Counting
<1>4. CASE Join2
  BY <1>4, Join2Keeps
<1>5. CASE \E t \in Thread : work_thread(t)
  BY <1>5, LoadKeeps, StoreKeeps DEF work_thread
<1>6. CASE UNCHANGED vars
  <2>1. UNCHANGED <<run, main, pc, left, loaded, memory, stride>>
    BY <1>6 DEF vars
  <2>2. \A t : Done(t)' = Done(t) /\ (Created(t)' <=> Created(t))
    BY <2>1 DEF Done, Created
  <2> QED
    BY <2>1, <2>2 DEF Counting, TypeOK, ThreadsRun, ThreadsJoined, WordsCount, SharedBounds,
                      OtherRuns, Total, Shared
<1> QED
  BY <1>1, <1>2, <1>3, <1>4, <1>5, <1>6 DEF Next, Main, Ended

-----------------------------------------------------------------------------
\* The count of additions done and lost, at every point of every run.
THEOREM CountingInvariance == Spec => []Counting
  BY InitCounting, NextKeepsCounting, PTL DEF Spec

\* Every reachable state has the types of the variables: no word and no copy of
\* one ever exceeds the additions of both threads.
THEOREM TypeCorrect == Spec => []TypeOK
<1>1. Counting => TypeOK
  BY DEF Counting
<1> QED
  BY <1>1, CountingInvariance, PTL

\* Threads that write different words lose no addition, for any number of them.
THEOREM ApartLosesNothing == Spec => []ApartIsExact
<1>1. Counting => ApartIsExact
  <2> SUFFICES ASSUME Counting, NEW r \in {"false_sharing", "no_sharing"}, IsOver(r)
               PROVE  Results(r) = {LENGTH}
    BY DEF ApartIsExact
  <2>1. CASE main = "end"
    <3>1. run = "no_sharing" /\ \A t \in Thread : Done(t) = LENGTH
      BY <2>1, BothDone DEF Counting, ThreadsJoined
    <3>2. /\ memory[<<1, 0>>] = LENGTH /\ memory[<<1, 1>>] = LENGTH
          /\ memory[<<2, 0>>] = LENGTH /\ memory[<<3, 0>>] = LENGTH
      BY <3>1, Words DEF Counting, OtherRuns, WordsCount, Thread
    <3> QED
      BY <3>2, Words DEF Results, Thread
  <2>2. CASE main # "end"
    <3>1. r = "false_sharing" /\ run = "no_sharing"
      BY <2>2 DEF IsOver
    <3> QED
      BY <3>1, Words DEF Counting, OtherRuns, Results, Thread
  <2> QED
    BY <2>1, <2>2
<1> QED
  BY <1>1, CountingInvariance, PTL

\* Threads that write the same word keep two additions at least, or one whole loop
\* if it was collapsed, and count none twice, for any number of them.
THEOREM SharingKeepsSome == Spec => []SharedKeepsSome
<1>1. Counting => SharedKeepsSome
  <2> SUFFICES ASSUME Counting, IsOver("true_sharing"), NEW v \in Results("true_sharing")
               PROVE  v <= 2 * LENGTH /\ v >= IF stride < LENGTH THEN 2 ELSE LENGTH
    BY DEF SharedKeepsSome
  <2>1. v = Shared
    BY Words DEF Results, Shared
  <2>2. run # "true_sharing"
    BY DEF Counting, ThreadsJoined, IsOver
  <2> QED
    BY <2>1, <2>2 DEF Counting, OtherRuns
<1> QED
  BY <1>1, CountingInvariance, PTL

\* No thread of a run is left when main begins the next one or ends.
THEOREM JoinsSeparateRuns == Spec => []RunsDoNotOverlap
<1>1. Counting => RunsDoNotOverlap
  BY BothDone DEF Counting, RunsDoNotOverlap, ThreadsRun, ThreadsJoined, Created, Thread
<1> QED
  BY <1>1, CountingInvariance, PTL
=============================================================================
