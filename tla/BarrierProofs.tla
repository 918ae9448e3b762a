----------------------------- MODULE BarrierProofs -----------------------------
(***************************************************************************)
(* Barrier for any number of threads and rounds, and any width of mPhase.  *)
(*                                                                         *)
(* The argument: there is a round r such that every participant has        *)
(* arrived r times, or r + 1 times and waits for the phase that mPhase     *)
(* names.  mCount is the number of the former.  A participant of the last  *)
(* round that still waits is awake and has an older phase; it cannot miss  *)
(* mPhase's next value, because the barrier does not open again before it  *)
(* has arrived again.                                                      *)
(***************************************************************************)
EXTENDS Barrier, FiniteSetTheorems, TLAPS

Types ==
    /\ mNumThreads \in Nat /\ mCount \in Nat
    /\ mPhase \in 0..(PhaseMod - 1)
    /\ state \in [Threads -> {"out", "asleep", "awake", "gone"}]
    /\ phase \in [Threads -> 0..(PhaseMod - 1)]
    /\ arrived \in [Threads -> Nat]

\* The participants that have yet to arrive for round r.
Due(r) == {u \in Members : arrived[u] = r}

Round(r) ==
    /\ mNumThreads = Cardinality(Members)
    /\ mCount = Cardinality(Due(r))
    /\ \A u \in Members :
         \/ arrived[u] = r /\ (Waiting(u) => state[u] = "awake" /\ phase[u] # mPhase)
         \/ arrived[u] = r + 1 /\ Waiting(u) /\ phase[u] = mPhase
    /\ \A u \in Threads \ Members : arrived[u] <= r
    /\ Members # {} => Due(r) # {}

\* A round that has participants but nobody left to wait for does not exist: a thread that
\* finds mCount = 1 is the last one, and there is one while mCount is not 0.
LEMMA LastOne ==
    ASSUME IsFiniteSet(Threads), Types, NEW r \in Nat, Round(r), NEW t \in Threads, state[t] = "out"
    PROVE  /\ IsFiniteSet(Members) /\ IsFiniteSet(Due(r)) /\ t \in Due(r)
           /\ mCount = 1 => Due(r) = {t}
           /\ mCount # 1 => Due(r) \ {t} # {} /\ mCount - 1 = Cardinality(Due(r) \ {t})
           /\ Cardinality(Members \ {t}) = mNumThreads - 1
           /\ mNumThreads >= 1 /\ mCount >= 1
<1>1. IsFiniteSet(Members) /\ IsFiniteSet(Due(r))
  BY FS_Subset DEF Members, Due
<1>2. t \in Members /\ t \in Due(r)
  BY DEF Members, Due, Round, Waiting, Types
<1>3. /\ Cardinality(Due(r) \ {t}) = mCount - 1 /\ IsFiniteSet(Due(r) \ {t})
      /\ Cardinality(Members \ {t}) = mNumThreads - 1 /\ IsFiniteSet(Members \ {t})
  BY <1>1, <1>2, FS_RemoveElement DEF Round
<1>4. Cardinality(Due(r) \ {t}) \in Nat /\ Cardinality(Members \ {t}) \in Nat
  BY <1>3, FS_CardinalityType
<1>5. mCount = 1 => Due(r) = {t}
  BY <1>2, <1>3, FS_EmptySet
<1>6. mCount # 1 => Due(r) \ {t} # {}
  BY <1>3, FS_EmptySet DEF Types
<1> QED
  BY <1>1, <1>2, <1>3, <1>4, <1>5, <1>6 DEF Types

\* The barrier opens: round r is over and round r + 1 begins.
LEMMA Opens ==
    ASSUME IsFiniteSet(Threads), PhaseMod \in Nat, PhaseMod >= 2, Types,
           NEW r \in Nat, Round(r), NEW t \in Threads, state[t] = "out", mCount = 1,
           NEW s \in {"out", "gone"}, NEW n \in Nat, Open(t, s, n),
           phase' = phase,
           IF s = "out" THEN /\ n = mNumThreads /\ mNumThreads' = mNumThreads
                             /\ arrived' = [arrived EXCEPT ![t] = @ + 1]
           ELSE n = mNumThreads - 1 /\ mNumThreads' = mNumThreads - 1 /\ arrived' = arrived
    PROVE  Types' /\ Round(r + 1)'
<1>1. Types'
  BY LastOne DEF Types, Open, NextPhase, NotifyAll
<1>2. mPhase' # mPhase
  BY DEF Types, Open, NextPhase
<1>3. \A u \in Threads : u # t => /\ arrived'[u] = arrived[u]
                                  /\ state'[u] = IF state[u] = "asleep" THEN "awake" ELSE state[u]
  BY DEF Types, Open, NotifyAll
<1>4. state'[t] = s /\ arrived'[t] = IF s = "out" THEN r + 1 ELSE r
  BY LastOne DEF Types, Open, NotifyAll, Due
<1>5. Members' = IF s = "out" THEN Members ELSE Members \ {t}
  BY <1>3, <1>4, LastOne DEF Members, Types, Due
<1>6. \A u \in Members' : /\ arrived'[u] = r + 1
                          /\ state'[u] # "asleep" /\ (state'[u] = "awake" => phase'[u] # mPhase')
  <2> SUFFICES ASSUME NEW u \in Members' PROVE /\ arrived'[u] = r + 1
                          /\ state'[u] # "asleep" /\ (state'[u] = "awake" => phase'[u] # mPhase')
    OBVIOUS
  <2>1. CASE u = t
    BY <2>1, <1>4, <1>5 DEF Waiting, Members
  <2>2. CASE u # t
    <3>1. u \in Members /\ u \in Threads /\ u \notin Due(r)
      BY <2>2, <1>5, LastOne DEF Members
    <3>2. arrived[u] = r + 1 /\ Waiting(u) /\ phase[u] = mPhase
      BY <3>1 DEF Round, Due
    <3> QED
      BY <3>1, <3>2, <2>2, <1>2, <1>3 DEF Waiting
  <2> QED
    BY <2>1, <2>2
<1>7. Due(r + 1)' = Members'
  BY <1>6 DEF Due
<1>8. mNumThreads' = Cardinality(Members') /\ mCount' = Cardinality(Members')
  BY <1>5, LastOne DEF Open, Round
<1>9. \A u \in Threads \ Members' : arrived'[u] <= r + 1
  <2> SUFFICES ASSUME NEW u \in Threads, u \notin Members' PROVE arrived'[u] <= r + 1
    OBVIOUS
  <2>1. CASE u = t
    BY <2>1, <1>4
  <2>2. CASE u # t
    BY <2>2, <1>3, <1>5 DEF Round, Types
  <2> QED
    BY <2>1, <2>2
<1> QED
  BY <1>1, <1>6, <1>7, <1>8, <1>9 DEF Round, Waiting

\* A thread arrives and is not the last one, with or without leaving for good.
LEMMA Arrives ==
    ASSUME IsFiniteSet(Threads), Types, NEW r \in Nat, Round(r),
           NEW t \in Threads, state[t] = "out", mCount # 1,
           NEW s \in {"asleep", "gone"},
           mCount' = mCount - 1, mPhase' = mPhase, state' = [state EXCEPT ![t] = s],
           IF s = "asleep" THEN /\ mNumThreads' = mNumThreads
                                /\ arrived' = [arrived EXCEPT ![t] = @ + 1]
                                /\ phase' = [phase EXCEPT ![t] = mPhase]
           ELSE mNumThreads' = mNumThreads - 1 /\ arrived' = arrived /\ phase' = phase
    PROVE  Types' /\ Round(r)'
<1>0. mCount >= 1 /\ mNumThreads >= 1
  BY LastOne
<1>1. Types'
  BY <1>0 DEF Types
<1>2. \A u \in Threads : u # t => /\ arrived'[u] = arrived[u]
                                  /\ state'[u] = state[u] /\ phase'[u] = phase[u]
  BY DEF Types
<1>3. /\ state'[t] = s /\ arrived[t] = r
      /\ s = "asleep" => arrived'[t] = r + 1 /\ phase'[t] = mPhase
      /\ s = "gone" => arrived'[t] = r
  BY LastOne DEF Types, Due
<1>4. Members' = IF s = "asleep" THEN Members ELSE Members \ {t}
  BY <1>2, <1>3, LastOne DEF Members, Types, Due
<1>5. Due(r)' = Due(r) \ {t}
  BY <1>2, <1>3, <1>4 DEF Due, Members
<1>6. mNumThreads' = Cardinality(Members') /\ mCount' = Cardinality(Due(r)')
  BY <1>4, <1>5, LastOne DEF Round
<1>7. \A u \in Members' :
         \/ arrived'[u] = r /\ state'[u] # "asleep" /\ (state'[u] = "awake" => phase'[u] # mPhase')
         \/ arrived'[u] = r + 1 /\ state'[u] \in {"asleep", "awake"} /\ phase'[u] = mPhase'
  BY <1>2, <1>3, <1>4 DEF Round, Members, Waiting
<1>8. ASSUME NEW u \in Threads, u \notin Members' PROVE arrived'[u] <= r
  <2>1. CASE u = t
    <3>1. t \in Members
      BY LastOne DEF Due
    <3>2. s = "gone"
      BY <2>1, <3>1, <1>4, <1>8
    <3> QED
      BY <2>1, <3>2, <1>3
  <2>2. CASE u # t
    BY <2>2, <1>2, <1>4, <1>8 DEF Round
  <2> QED
    BY <2>1, <2>2
<1> QED
  BY <1>1, <1>5, <1>6, <1>7, <1>8, LastOne DEF Round, Waiting

\* A sleeper that wakes, and one that finds that its phase is over or not.
LEMMA Wakes ==
    ASSUME Types, NEW r \in Nat, Round(r), NEW t \in Threads, Resume(t) \/ Spurious(t)
    PROVE  Types' /\ Round(r)'
<1> USE DEF Resume, Spurious
<1>1. Types'
  BY DEF Types
<1>2. Members' = Members
  BY DEF Types, Members
<1>3. Due(r)' = Due(r)
  BY <1>2 DEF Due
<1>4. \A u \in Members :
         \/ arrived[u] = r /\ state'[u] # "asleep" /\ (state'[u] = "awake" => phase[u] # mPhase)
         \/ arrived[u] = r + 1 /\ state'[u] \in {"asleep", "awake"} /\ phase[u] = mPhase
  BY DEF Round, Members, Waiting, Types
<1> QED
  BY <1>1, <1>2, <1>3, <1>4 DEF Round, Waiting

\* Whatever the number of threads and the width of mPhase, no thread passes a phase of a
\* Barrier before every participant has arrived for it or dropped out, and whoever sleeps
\* has somebody to wait for.
THEOREM BarrierIsSafe ==
    ASSUME IsFiniteSet(Threads), PhaseMod \in Nat, PhaseMod >= 2
    PROVE  Spec => []BarrierHolds
<1> DEFINE Inv == Types /\ \E r \in Nat : Round(r)
<1>1. Init => Inv
  <2> SUFFICES ASSUME Init PROVE Inv
    OBVIOUS
  <2>1. Members = Threads /\ Due(0) = Threads
    BY DEF Init, Members, Due
  <2>2. Types
    BY FS_CardinalityType DEF Init, Types
  <2>3. Round(0)
    BY <2>1 DEF Init, Round, Waiting
  <2> QED
    BY <2>2, <2>3
<1>2. Inv /\ [Next]_vars => Inv'
  <2> SUFFICES ASSUME Types, NEW r \in Nat, Round(r), [Next]_vars
               PROVE  Types' /\ \E q \in Nat : Round(q)'
    OBVIOUS
  <2>1. ASSUME NEW t \in Threads, ArriveAndWait(t) PROVE Types' /\ \E q \in Nat : Round(q)'
    <3>1. CASE mCount = 1
      <4>1. Types' /\ Round(r + 1)'
        BY <2>1, <3>1, Opens DEF ArriveAndWait, Types
      <4> QED
        BY <4>1
    <3>2. CASE mCount # 1
      <4>1. Types' /\ Round(r)'
        BY <2>1, <3>2, Arrives DEF ArriveAndWait
      <4> QED
        BY <4>1
    <3> QED
      BY <3>1, <3>2
  <2>2. ASSUME NEW t \in Threads, ArriveAndDrop(t) PROVE Types' /\ \E q \in Nat : Round(q)'
    <3>1. CASE mCount = 1
      <4>1. mNumThreads >= 1
        BY <2>2, LastOne DEF ArriveAndDrop
      <4>2. mNumThreads - 1 \in Nat
        BY <4>1 DEF Types
      <4>3. Types' /\ Round(r + 1)'
        BY <2>2, <3>1, <4>2, Opens DEF ArriveAndDrop
      <4> QED
        BY <4>3
    <3>2. CASE mCount # 1
      <4>1. Types' /\ Round(r)'
        BY <2>2, <3>2, Arrives DEF ArriveAndDrop
      <4> QED
        BY <4>1
    <3> QED
      BY <3>1, <3>2
  <2>3. ASSUME NEW t \in Threads, Resume(t) \/ Spurious(t) PROVE Types' /\ \E q \in Nat : Round(q)'
    BY <2>3, Wakes
  <2>4. CASE UNCHANGED vars
    <3>1. Types' /\ Round(r)'
      BY <2>4 DEF vars, Types, Round, Members, Due, Waiting
    <3> QED
      BY <3>1
  <2> QED
    BY <2>1, <2>2, <2>3, <2>4 DEF Next
<1>3. Inv => BarrierHolds
  <2> SUFFICES ASSUME Types, NEW r \in Nat, Round(r) PROVE BarrierHolds
    OBVIOUS
  <2>1. \A u \in Members : arrived[u] >= r
    BY DEF Round
  <2>2. \A t \in Threads : Passed(t) <= r
    BY DEF Round, Passed, Members, Waiting, Types
  <2>3. ASSUME NEW t \in Threads, state[t] = "asleep" PROVE \E u \in Members : arrived[u] < arrived[t]
    <3>1. t \in Members /\ arrived[t] = r + 1
      BY <2>3 DEF Round, Members, Waiting
    <3>2. PICK u \in Members : arrived[u] = r
      BY <3>1 DEF Round, Due
    <3> QED
      BY <3>1, <3>2
  <2>4. \A t \in Threads, u \in Members : Passed(t) <= arrived[u]
    BY <2>1, <2>2 DEF Passed, Members, Types
  <2> QED
    BY <2>3, <2>4 DEF BarrierHolds
<1> QED
  BY <1>1, <1>2, <1>3, PTL DEF Spec
=============================================================================
