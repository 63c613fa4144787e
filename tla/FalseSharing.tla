---------------------------- MODULE FalseSharing ----------------------------
(***************************************************************************)
(* The sharing benchmark: the translation of src/mains/false_sharing.c.    *)
(* main makes three runs.  In each it creates two threads that add 1       *)
(* LENGTH times to a word of memory, without any synchronisation, and      *)
(* joins both.  The runs differ in the words: one word for both threads,   *)
(* two words of one cache line, and words of two pages.                    *)
(***************************************************************************)
EXTENDS Naturals

CONSTANT LENGTH \* additions per thread; 1234123412 in the program

ASSUME LengthAssumption == LENGTH \in Nat \ {0}

Thread == {1, 2}

\* A word of the result pages, by page and index.
Word == {<<0, 0>>, <<1, 0>>, <<1, 1>>, <<2, 0>>, <<3, 0>>}

Run == {"true_sharing", "false_sharing", "no_sharing"}

\* cache_write_ptr of a thread.
SameWordAlways == [r \in Run |-> [t \in Thread |-> <<0, 0>>]]
WrittenWord ==
    [true_sharing  |-> [t \in Thread |-> <<0, 0>>],
     false_sharing |-> [t \in Thread |-> <<1, t - 1>>],
     no_sharing    |-> [t \in Thread |-> <<t + 1, 0>>]]

VARIABLES
    run,    \* the run main is in
    main,   \* what main does next
    pc,     \* what each thread does next
    left,   \* how many additions each thread has left
    loaded, \* the value each thread has loaded
    memory, \* the words
    stride  \* how many additions the compiler makes one load and store do

vars == <<run, main, pc, left, loaded, memory, stride>>

TypeOK ==
    /\ run \in Run
    /\ main \in {"create_1", "create_2", "join_1", "join_2", "end"}
    /\ pc \in [Thread -> {"absent", "load", "store", "exited"}]
    /\ left \in [Thread -> 0 .. LENGTH]
    /\ loaded \in [Thread -> 0 .. 2 * LENGTH]
    /\ memory \in [Word -> 0 .. 2 * LENGTH]
    /\ stride \in {1, LENGTH}

\* The result pages are zero.  Nothing makes the accesses of the loop visible to
\* the other thread one by one, so that the compiler may, and gcc -O2 does, keep
\* the word in a register for all of them.
Init ==
    /\ run = "true_sharing"
    /\ main = "create_1"
    /\ pc = [t \in Thread |-> "absent"]
    /\ left = [t \in Thread |-> 0]
    /\ loaded = [t \in Thread |-> 0]
    /\ memory = [w \in Word |-> 0]
    /\ stride \in {1, LENGTH}

-----------------------------------------------------------------------------
(* work_thread *)

LoadHoisted(t) ==
    /\ pc[t] = "load"
    /\ loaded' = [loaded EXCEPT ![t] = IF left[t] = LENGTH THEN memory[WrittenWord[run][t]] ELSE @]
    /\ pc' = [pc EXCEPT ![t] = "store"]
    /\ UNCHANGED <<run, main, left, memory, stride>>
Load(t) ==
    /\ pc[t] = "load"
    /\ loaded' = [loaded EXCEPT ![t] = memory[WrittenWord[run][t]]]
    /\ pc' = [pc EXCEPT ![t] = "store"]
    /\ UNCHANGED <<run, main, left, memory, stride>>

StoreDone(t) == IF left[t] - stride = 0 THEN "exited" ELSE "load"

Store(t) ==
    /\ pc[t] = "store"
    /\ memory' = [memory EXCEPT ![WrittenWord[run][t]] = loaded[t] + stride]
    /\ left' = [left EXCEPT ![t] = @ - stride]
    /\ pc' = [pc EXCEPT ![t] = StoreDone(t)]
    /\ UNCHANGED <<run, main, loaded, stride>>

work_thread(t) == Load(t) \/ Store(t)

-----------------------------------------------------------------------------
(* true_sharing_run, false_sharing_run and no_sharing_run *)

pthread_create(t) ==
    /\ pc' = [pc EXCEPT ![t] = "load"]
    /\ left' = [left EXCEPT ![t] = LENGTH]
    /\ UNCHANGED <<run, loaded, memory, stride>>

Create1 == main = "create_1" /\ pthread_create(1) /\ main' = "create_2"
Create2NotCreated ==
    main = "create_2" /\ main' = "join_1" /\ UNCHANGED <<run, pc, left, loaded, memory, stride>>
Create2 == main = "create_2" /\ pthread_create(2) /\ main' = "join_1"

Join1 ==
    /\ main = "join_1"
    /\ pc[1] = "exited"
    /\ main' = "join_2"
    /\ UNCHANGED <<run, pc, left, loaded, memory, stride>>

\* Then main prints the words of the run, and goes on to the next run.
NextRun == [true_sharing |-> "false_sharing", false_sharing |-> "no_sharing"]

Join2Unwaited ==
    /\ main = "join_2"
    /\ IF run = "no_sharing"
       THEN main' = "end" /\ UNCHANGED run
       ELSE main' = "create_1" /\ run' = NextRun[run]
    /\ UNCHANGED <<pc, left, loaded, memory, stride>>
Join2 ==
    /\ main = "join_2"
    /\ pc[2] = "exited"
    /\ IF run = "no_sharing"
       THEN main' = "end" /\ UNCHANGED run
       ELSE main' = "create_1" /\ run' = NextRun[run]
    /\ UNCHANGED <<pc, left, loaded, memory, stride>>

Main == Create1 \/ Create2 \/ Join1 \/ Join2

Ended == main = "end" /\ UNCHANGED vars

Next == Main \/ (\E t \in Thread : work_thread(t)) \/ Ended

\* The operating system runs every thread that can run.
Spec ==
    /\ Init /\ [][Next]_vars
    /\ WF_vars(Main)
    /\ \A t \in Thread : WF_vars(work_thread(t))

-----------------------------------------------------------------------------
(* Properties *)

\* The words that main prints at the end of run r.
Results(r) == {memory[WrittenWord[r][t]] : t \in Thread}

\* main is past the second join of run r.
IsOver(r) ==
    \/ main = "end"
    \/ r = "true_sharing" /\ run # "true_sharing"
    \/ r = "false_sharing" /\ run = "no_sharing"

\* Threads that write different words lose no addition, also when the words are
\* in one cache line: false sharing costs time, not results.
ApartIsExact ==
    \A r \in {"false_sharing", "no_sharing"} : IsOver(r) => Results(r) = {LENGTH}

\* Threads that write the same word may lose additions (the comment at lines 53
\* and 54 says so), but never all of one loop: at least two loads and stores
\* survive if the loop is executed as written, at least one whole loop if it is
\* collapsed, and nothing is counted twice.
SharedKeepsSome ==
    IsOver("true_sharing") =>
        \A v \in Results("true_sharing") :
            /\ v <= 2 * LENGTH
            /\ v >= IF stride < LENGTH THEN 2 ELSE LENGTH

\* While main waits for no thread no thread runs: the joins keep the runs apart,
\* and the words that main prints do not change any more.
RunsDoNotOverlap ==
    main \in {"create_1", "end"} => \A t \in Thread : pc[t] \in {"absent", "exited"}

\* The program comes to its end.
Terminates == <>(main = "end")
=============================================================================
