-------------------------------- MODULE Pool --------------------------------
(***************************************************************************)
(* One server process: the connections of db/session.py's engine, the      *)
(* threads that run plain functions, and the event loop that runs          *)
(* coroutines and hands everything on.  A Session takes a connection at    *)
(* its first query and gives it back at commit or when get_db closes it,   *)
(* after the answer is sent.  The services of the two coroutines are       *)
(* synchronous: while they wait for a connection the loop waits with them. *)
(***************************************************************************)
EXTENDS Naturals, FiniteSets

CONSTANTS
  Calls,       \* HTTP calls
  Coroutines,  \* record_donation and payment_webhook; other routes use threads
  Guests,      \* calls without get_current_user: webhooks, list, login
  Writers,     \* calls that commit and then refresh what they have written
  PoolSize,    \* connections of the pool: 15 by SQLAlchemy's defaults
  ThreadCount  \* threads of the thread pool: 40 by anyio's default

ASSUME PoolAssumption ==
  /\ IsFiniteSet(Calls)
  /\ Coroutines \subseteq Calls /\ Guests \subseteq Calls /\ Writers \subseteq Calls
  /\ PoolSize \in Nat \ {0} /\ ThreadCount \in Nat \ {0}

VARIABLES
  at,       \* how far a call has come
  conns,    \* calls whose session holds a connection
  threads,  \* calls that occupy a thread
  loop      \* the calls whose handler holds the event loop: none or one

poolVars == <<at, conns, threads, loop>>

Stages == {"new", "auth", "authed", "work", "reload", "answered", "ended"}

Init == /\ at = [c \in Calls |-> "new"]
        /\ conns = {} /\ threads = {} /\ loop = {}

LoopFree   == loop = {}
ThreadFree == Cardinality(threads) < ThreadCount
ConnFree   == Cardinality(conns) < PoolSize
Move(c, stage) == at' = [at EXCEPT ![c] = stage]

-----------------------------------------------------------------------------
\* What each step of a call that has arrived waits for.
CanGetUser(c)  == at[c] = "auth" /\ ConnFree
CanDispatch(c) == /\ at[c] = "authed" \/ (at[c] = "new" /\ c \in Guests)
                  /\ LoopFree /\ ThreadFree
CanConnect(c)  == at[c] = "work" /\ c \notin conns /\ ConnFree
CanFinish(c)   == at[c] = "work" /\ c \in conns
CanRefresh(c)  == at[c] = "reload" /\ ConnFree
\* mutant of CanClose: get_db closes in a thread of the pool
ClosesInThePool(c) == at[c] = "answered" /\ LoopFree /\ ThreadFree
CanClose(c)    == at[c] = "answered" /\ LoopFree

\* The loop sends get_current_user to a thread.
Begin(c) ==
  /\ at[c] = "new" /\ c \notin Guests
  /\ LoopFree /\ ThreadFree
  /\ Move(c, "auth") /\ threads' = threads \cup {c}
  /\ UNCHANGED <<conns, loop>>

\* It reads the user; the session keeps the connection, the thread is free.
GetUser(c) ==
  /\ CanGetUser(c)
  /\ Move(c, "authed")
  /\ conns' = conns \cup {c} /\ threads' = threads \ {c}
  /\ UNCHANGED loop

\* get_db of a guest, or the role check, has passed through a thread; then the
\* handler runs, on the loop or in a thread.
Dispatch(c) ==
  /\ CanDispatch(c)
  /\ Move(c, "work")
  /\ IF c \in Coroutines THEN loop' = {c} /\ UNCHANGED threads
                         ELSE threads' = threads \cup {c} /\ UNCHANGED loop
  /\ UNCHANGED conns

\* The first query of a guest.
Connect(c) ==
  /\ CanConnect(c)
  /\ conns' = conns \cup {c}
  /\ UNCHANGED <<at, threads, loop>>

Leave(c) == Move(c, "answered") /\ threads' = threads \ {c} /\ loop' = loop \ {c}

\* A read, or a write that is refused: the session keeps the connection.
Finish(c) ==
  /\ CanFinish(c)
  /\ Leave(c) /\ UNCHANGED conns

\* The commit gives the connection back, and refresh needs one again.
Commit(c) ==
  /\ CanFinish(c) /\ c \in Writers
  /\ Move(c, "reload") /\ conns' = conns \ {c}
  /\ UNCHANGED <<threads, loop>>

Refresh(c) ==
  /\ CanRefresh(c)
  /\ Leave(c) /\ conns' = conns \cup {c}

\* mutant of TimeOut: the wait for a connection starts over
WaitsOn(c) ==
  /\ at[c] \in {"auth", "work", "reload"} /\ c \notin conns /\ ~ConnFree
  /\ UNCHANGED poolVars

\* The pool has had no connection for 30 seconds: the call is answered 500.
TimeOut(c) ==
  /\ at[c] \in {"auth", "work", "reload"} /\ c \notin conns /\ ~ConnFree
  /\ Leave(c) /\ UNCHANGED conns

\* mutant of Close: the session is left to the garbage collector
NeverClosed(c) ==
  /\ CanClose(c)
  /\ Move(c, "ended")
  /\ UNCHANGED <<conns, threads, loop>>

\* The loop ends get_db, whose exit has a thread of its own.
Close(c) ==
  /\ CanClose(c)
  /\ Move(c, "ended") /\ conns' = conns \ {c}
  /\ UNCHANGED <<threads, loop>>

-----------------------------------------------------------------------------
Arrive(c)  == at[c] = "new" /\ (Begin(c) \/ Dispatch(c))
Proceed(c) == /\ at[c] # "new"
              /\ \/ GetUser(c) \/ Dispatch(c) \/ Connect(c) \/ Finish(c)
                 \/ Commit(c) \/ Refresh(c) \/ Close(c)
AllEnded   == (\A c \in Calls : at[c] = "ended") /\ UNCHANGED poolVars

Next == (\E c \in Calls : Arrive(c) \/ Proceed(c) \/ TimeOut(c)) \/ AllEnded
Spec == Init /\ [][Next]_poolVars

\* The loop and the threads serve those who wait in turn, and a wait for a
\* connection is bounded by pool_timeout.
FairSpec == Spec /\ \A c \in Calls : WF_poolVars(Proceed(c) \/ TimeOut(c))

\* A call that has arrived and is not ended.
InFlight == {c \in Calls : at[c] \notin {"new", "ended"}}
\* The guards of Proceed, whose steps ask for nothing else.
CanProceed(c) ==
  /\ at[c] # "new"
  /\ \/ CanGetUser(c) \/ CanDispatch(c) \/ CanConnect(c)
     \/ CanFinish(c) \/ CanRefresh(c) \/ CanClose(c)
\* Nobody can go on unless a wait for a connection times out.
Stalled == InFlight # {} /\ \A c \in Calls : ~CanProceed(c)

\* Connections, threads and the loop are within their numbers and held only by
\* calls at a stage that uses them: none leaks, whatever way a call ends
\* (session.py:40).
PoolTypeOK ==
  /\ at \in [Calls -> Stages]
  /\ conns \subseteq {c \in InFlight : at[c] \notin {"auth", "reload"}}
  /\ threads = {c \in InFlight : \/ at[c] = "auth"
                                 \/ at[c] \in {"work", "reload"} /\ c \notin Coroutines}
  /\ loop = {c \in Coroutines : at[c] \in {"work", "reload"}}
  /\ Cardinality(conns) <= PoolSize
  /\ Cardinality(threads) <= ThreadCount
  /\ Cardinality(loop) <= 1

\* When everything stands still until a wait times out, all connections are held,
\* by calls with a user that need the loop or a thread for their handler, or by
\* answered ones while a coroutine blocks the loop: the server stalls in no other
\* way (donations/router.py:45, session.py:13).
OnlyThePoolStalls ==
  Stalled => /\ Cardinality(conns) = PoolSize
             /\ \A c \in conns : at[c] = "authed" \/ (at[c] = "answered" /\ ~LoopFree)

\* Every call that arrives is answered and gives its connection back, over both
\* kinds of stall: coroutines that block the loop, and threads that wait for
\* connections of calls that wait for a thread (donations/router.py:45).
EveryCallEnds == \A c \in Calls : (at[c] # "new") ~> (at[c] = "ended")

=============================================================================
