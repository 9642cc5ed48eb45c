---------------------------- MODULE Pool_proofs ----------------------------
(***************************************************************************)
(* Theorems about Pool for any calls, connections and threads.             *)
(***************************************************************************)
EXTENDS Pool, FiniteSetTheorems, TLAPS

\* Who holds what, without the numbers.
Holders ==
  /\ at \in [Calls -> Stages]
  /\ conns \subseteq {c \in InFlight : at[c] \notin {"auth", "reload"}}
  /\ threads = {c \in InFlight : \/ at[c] = "auth"
                                 \/ at[c] \in {"work", "reload"} /\ c \notin Coroutines}
  /\ loop = {c \in Coroutines : at[c] \in {"work", "reload"}}

\* A set of calls that gains a call only when it has less than its limit.
LEMMA Bounded ==
  ASSUME NEW S, NEW T, NEW c, NEW limit \in Nat,
         IsFiniteSet(S), Cardinality(S) <= limit,
         T \subseteq S \/ (T \subseteq S \cup {c} /\ Cardinality(S) < limit)
  PROVE  Cardinality(T) <= limit
<1>1. CASE T \subseteq S
  <2>1. Cardinality(T) <= Cardinality(S) /\ Cardinality(T) \in Nat /\ Cardinality(S) \in Nat
    BY <1>1, FS_Subset, FS_CardinalityType
  <2> QED  BY <2>1
<1>2. CASE T \subseteq S \cup {c} /\ Cardinality(S) < limit
  <2>1. /\ IsFiniteSet(S \cup {c})
        /\ \/ Cardinality(S \cup {c}) = Cardinality(S)
           \/ Cardinality(S \cup {c}) = Cardinality(S) + 1
    BY FS_AddElement
  <2>2. /\ Cardinality(T) <= Cardinality(S \cup {c})
        /\ Cardinality(T) \in Nat /\ Cardinality(S) \in Nat
    BY <1>2, <2>1, FS_Subset, FS_CardinalityType
  <2> QED  BY <1>2, <2>1, <2>2
<1> QED  BY <1>1, <1>2

\* No connection, thread or hold of the event loop leaks, whatever way a call
\* ends, and none is given out twice (session.py:40), for any pool and any calls.
THEOREM NothingLeaks == Spec => []PoolTypeOK
<1> USE PoolAssumption DEF Stages, InFlight
<1>1. Init => PoolTypeOK
  <2> SUFFICES ASSUME Init PROVE PoolTypeOK
    OBVIOUS
  <2>1. conns = {} /\ threads = {} /\ loop = {} /\ at \in [Calls -> Stages]
        /\ InFlight = {} /\ \A c \in Calls : at[c] = "new"
    BY DEF Init
  <2>2. Cardinality({}) = 0  BY FS_EmptySet
  <2> QED  BY <2>1, <2>2 DEF PoolTypeOK
<1>2. PoolTypeOK /\ [Next]_poolVars => PoolTypeOK'
  <2> SUFFICES ASSUME PoolTypeOK, [Next]_poolVars PROVE PoolTypeOK'
    OBVIOUS
  <2>1. CASE UNCHANGED poolVars  BY <2>1 DEF poolVars, PoolTypeOK
  <2>2. CASE AllEnded  BY <2>2, <2>1 DEF AllEnded
  <2>3. ASSUME NEW c \in Calls,
               \/ Begin(c) \/ GetUser(c) \/ Dispatch(c) \/ Connect(c) \/ Finish(c)
               \/ Commit(c) \/ Refresh(c) \/ TimeOut(c) \/ Close(c)
        PROVE  PoolTypeOK'
    <3> USE DEF Move, Leave, CanGetUser, CanDispatch, CanConnect, CanFinish,
              CanRefresh, CanClose
    <3>1. Holders
      BY DEF PoolTypeOK, Holders
    <3>2. Holders'
      <4> USE <3>1 DEF Holders
      <4>1. CASE Begin(c)  BY <4>1 DEF Begin
      <4>2. CASE GetUser(c)  BY <4>2 DEF GetUser
      <4>3. CASE Dispatch(c)  BY <4>3 DEF Dispatch, LoopFree
      <4>4. CASE Connect(c)  BY <4>4 DEF Connect
      <4>5. CASE Finish(c)  BY <4>5 DEF Finish
      <4>6. CASE Commit(c)  BY <4>6 DEF Commit
      <4>7. CASE Refresh(c)  BY <4>7 DEF Refresh
      <4>8. CASE TimeOut(c)  BY <4>8 DEF TimeOut
      <4>9. CASE Close(c)  BY <4>9 DEF Close
      <4> QED
        BY <2>3, <4>1, <4>2, <4>3, <4>4, <4>5, <4>6, <4>7, <4>8, <4>9
    <3>3. /\ conns' \subseteq conns \/ (conns' \subseteq conns \cup {c} /\ ConnFree)
          /\ threads' \subseteq threads \/ (threads' \subseteq threads \cup {c} /\ ThreadFree)
          /\ loop' \subseteq loop \/ (loop' \subseteq loop \cup {c} /\ LoopFree)
      BY <2>3 DEF Begin, GetUser, Dispatch, Connect, Finish, Commit, Refresh,
                  TimeOut, Close
    <3>4. IsFiniteSet(conns) /\ IsFiniteSet(threads) /\ IsFiniteSet(loop)
      BY <3>1, FS_Subset DEF Holders
    <3>5. Cardinality(conns)' <= PoolSize
      BY <3>3, <3>4, Bounded DEF ConnFree, PoolTypeOK
    <3>6. Cardinality(threads)' <= ThreadCount
      BY <3>3, <3>4, Bounded DEF ThreadFree, PoolTypeOK
    <3>7. LoopFree => Cardinality(loop) < 1
      BY FS_EmptySet DEF LoopFree
    <3>8. Cardinality(loop)' <= 1
      BY <3>3, <3>4, <3>7, Bounded DEF PoolTypeOK
    <3> QED  BY <3>2, <3>5, <3>6, <3>8 DEF Holders, PoolTypeOK
  <2> QED  BY <2>1, <2>2, <2>3 DEF Next, Arrive, Proceed
<1> QED  BY <1>1, <1>2, PTL DEF Spec

\* A server that stands still until a wait times out has given out all its
\* connections, to calls between two threads or behind a blocked loop
\* (donations/router.py:45, session.py:13), whatever the sizes of pool and threads.
THEOREM StallsNeedThePool == Spec => []OnlyThePoolStalls
<1>1. ASSUME PoolTypeOK, Stalled  PROVE OnlyThePoolStalls
  <2> USE <1>1, PoolAssumption
  <2>1. ASSUME NEW c \in Calls
        PROVE  /\ c \notin InFlight \/ at[c] \in {"auth", "authed", "work", "reload", "answered"}
               /\ at[c] \in {"auth", "reload"} => ~ConnFree
               /\ at[c] = "work" => c \notin conns /\ ~ConnFree
               /\ at[c] = "authed" => ~LoopFree \/ ~ThreadFree
               /\ at[c] = "answered" => ~LoopFree
    BY DEF PoolTypeOK, Stages, InFlight, Stalled, CanProceed, CanGetUser,
           CanDispatch, CanConnect, CanFinish, CanRefresh, CanClose
  <2>2. \A c \in conns : at[c] = "authed" \/ (at[c] = "answered" /\ ~LoopFree)
    BY <2>1 DEF PoolTypeOK, InFlight
  <2>3. ~ConnFree
    <3> SUFFICES ASSUME ConnFree PROVE FALSE
      OBVIOUS
    <3>1. \A c \in Calls : at[c] \notin {"auth", "work", "reload"}
      BY <2>1
    <3>2. threads = {} /\ loop = {}
      BY <3>1 DEF PoolTypeOK, InFlight
    <3>3. LoopFree /\ ThreadFree
      BY <3>2, FS_EmptySet DEF LoopFree, ThreadFree
    <3> QED  BY <2>1, <3>1, <3>3 DEF Stalled, InFlight
  <2>4. Cardinality(conns) \in Nat
    BY FS_Subset, FS_CardinalityType DEF PoolTypeOK, InFlight
  <2>5. Cardinality(conns) = PoolSize
    BY <2>3, <2>4 DEF ConnFree, PoolTypeOK
  <2> QED  BY <2>2, <2>5 DEF OnlyThePoolStalls
<1>2. PoolTypeOK => OnlyThePoolStalls
  BY <1>1 DEF OnlyThePoolStalls
<1> QED  BY <1>2, NothingLeaks, PTL
=============================================================================
