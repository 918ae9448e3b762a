---------------------------- MODULE SemaphoreProofs ----------------------------
(***************************************************************************)
(* CountingSemaphore for any number of threads and any amounts.            *)
(***************************************************************************)
EXTENDS Semaphore, TLAPS

\* The types, which NoneSleepsOverEnough needs to be inductive.
Types ==
    /\ mCount \in 0..MaxCount
    /\ state \in [Threads -> {"out", "asleep", "awake"}]
    /\ want \in [Threads -> Nat]
    /\ timed \in [Threads -> BOOLEAN]

\* Whatever amounts the threads acquire and release, no thread of a CountingSemaphore
\* sleeps over permits that are enough for it, and their number stays within the limits.
THEOREM SemaphoreNoneSleeps ==
    ASSUME Amounts \subseteq Nat, MaxCount \in Nat, Initial \in 0..MaxCount
    PROVE  Spec => []NoneSleepsOverEnough
<1> DEFINE Inv == Types /\ NoneSleepsOverEnough
<1>1. Init => Inv
  BY DEF Init, Types, NoneSleepsOverEnough
<1>2. Inv /\ [Next]_vars => Inv'
  <2> SUFFICES ASSUME Inv, [Next]_vars PROVE Inv'
    OBVIOUS
  <2> USE DEF Types, NoneSleepsOverEnough
  <2>1. CASE Release
    <3> PICK n \in Amounts :
          /\ n <= MaxCount - mCount
          /\ mCount' = mCount + n
          /\ state' = [t \in Threads |-> IF state[t] = "asleep" THEN "awake" ELSE state[t]]
          /\ UNCHANGED <<want, timed>>
      BY <2>1 DEF Release
    <3> QED OBVIOUS
  <2>2. ASSUME NEW t \in Threads, Acquire(t) PROVE Inv'
    BY <2>2 DEF Acquire, Enough
  <2>3. ASSUME NEW t \in Threads, TryAcquire(t) PROVE Inv'
    BY <2>3 DEF TryAcquire, Enough
  <2>4. ASSUME NEW t \in Threads, Resume(t) PROVE Inv'
    BY <2>4 DEF Resume, Take, Enough
  <2>5. ASSUME NEW t \in Threads, Spurious(t) PROVE Inv'
    BY <2>5 DEF Spurious
  <2>6. ASSUME NEW t \in Threads, TimeOut(t) PROVE Inv'
    BY <2>6 DEF TimeOut, Take, Enough
  <2>7. CASE UNCHANGED vars
    BY <2>7 DEF vars
  <2> QED
    BY <2>1, <2>2, <2>3, <2>4, <2>5, <2>6, <2>7 DEF Next
<1> QED
  BY <1>1, <1>2, PTL DEF Spec
=============================================================================
