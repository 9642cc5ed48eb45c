---------------------------- MODULE RateLimiter ----------------------------
(***************************************************************************)
(* core/middleware.py: RateLimiterMiddleware.dispatch.  Two sliding        *)
(* windows per client, in the memory of one process.  Between its start and*)
(* call_next a request awaits nothing: on the event loop it is one step.   *)
(* A list of times is the set of its entries: each has its time, and the   *)
(* number of its request, so that two at one time are two.                 *)
(***************************************************************************)
EXTENDS Integers, FiniteSets

CONSTANTS
  Clients,     \* client addresses
  Window,      \* 60 seconds
  LoginLimit,  \* settings.RATE_LIMIT_LOGIN_PER_MINUTE
  PublicLimit, \* settings.RATE_LIMIT_PUBLIC_PER_MINUTE
  MaxTime      \* bound on the clock

ASSUME LimiterAssumption ==
  /\ {Window, LoginLimit, PublicLimit} \subseteq Nat \ {0}
  /\ MaxTime \in Nat

VARIABLES
  now,         \* time.time()
  loginHits,   \* _login_hits: entries, by client
  generalHits, \* _general_hits
  taken,       \* how many requests have left an entry since the process started
  admitted,    \* the entries of those that reached a handler, by client
  lastRequest  \* last request of each client: its time and its answer

limiterVars == <<now, loginHits, generalHits, taken, admitted, lastRequest>>

Long == 0 - Window   \* longer ago than any window

Fresh ==
  /\ loginHits' = [c \in Clients |-> {}]
  /\ generalHits' = [c \in Clients |-> {}]
  /\ taken' = 0
  /\ admitted' = [c \in Clients |-> {}]
  /\ lastRequest' = [c \in Clients |-> [at |-> Long, answer |-> "none"]]

Init ==
  /\ now = 0
  /\ loginHits = [c \in Clients |-> {}]
  /\ generalHits = [c \in Clients |-> {}]
  /\ taken = 0
  /\ admitted = [c \in Clients |-> {}]
  /\ lastRequest = [c \in Clients |-> [at |-> Long, answer |-> "none"]]

LongerWindow(hits) == {h \in hits : now - h.at <= Window}              \* mutant
Recent(hits) == {h \in hits : now - h.at < Window}

OneMore(hits, limit) == Cardinality(Recent(hits)) > limit             \* mutant
Full(hits, limit) == Cardinality(Recent(hits)) >= limit

Entry(kind) == [n |-> taken, at |-> now, kind |-> kind]

NeverPruned(hits, c, kind) == [hits EXCEPT ![c] = @ \cup {Entry(kind)}] \* mutant
Hit(hits, c, kind) == [hits EXCEPT ![c] = Recent(@) \cup {Entry(kind)}]

Answer(c, answer) ==
  lastRequest' = [lastRequest EXCEPT ![c] = [at |-> now, answer |-> answer]]

Admit(c, kind) ==
  /\ admitted' = [admitted EXCEPT ![c] = @ \cup {Entry(kind)}]
  /\ Answer(c, "passed")

\* The second window, which every request meets that the first lets through.
LoginsUncounted(c, kind) ==                                           \* mutant
  /\ Admit(c, kind)
  /\ generalHits' = IF kind = "login" THEN generalHits ELSE Hit(generalHits, c, kind)
CountGeneral(c, kind) ==
  IF Full(generalHits[c], PublicLimit)
    THEN Answer(c, "429") /\ UNCHANGED <<generalHits, admitted>>
    ELSE generalHits' = Hit(generalHits, c, kind) /\ Admit(c, kind)

\* POST /auth/login: its entry is made before the second window is asked.
DispatchLogin(c) ==
  /\ IF Full(loginHits[c], LoginLimit)
       THEN Answer(c, "429") /\ UNCHANGED <<loginHits, generalHits, taken, admitted>>
       ELSE /\ loginHits' = Hit(loginHits, c, "login")
            /\ taken' = taken + 1
            /\ CountGeneral(c, "login")
  /\ UNCHANGED now

\* Any other path but the docs and the streams, which are not counted.
DispatchOther(c) ==
  /\ CountGeneral(c, "other")
  /\ taken' = IF Full(generalHits[c], PublicLimit) THEN taken ELSE taken + 1
  /\ UNCHANGED <<now, loginHits>>

Tick == now < MaxTime /\ now' = now + 1
        /\ UNCHANGED <<loginHits, generalHits, taken, admitted, lastRequest>>

\* The process is started again, with nothing remembered.
Restart == Fresh /\ UNCHANGED now

Next ==
  \/ \E c \in Clients : DispatchLogin(c) \/ DispatchOther(c)
  \/ Tick
  \/ Restart

Spec == Init /\ [][Next]_limiterVars

-----------------------------------------------------------------------------
\* Shape of the clock and of the lists; a list is pruned when it grows, so what
\* the process remembers of a client never exceeds the limits.
LimiterTypeOK ==
  /\ now \in 0..MaxTime
  /\ \A c \in Clients :
       /\ \A h \in loginHits[c] \cup generalHits[c] \cup admitted[c] :
            h.at \in 0..now /\ h.n < taken /\ h.kind \in {"login", "other"}
       /\ Cardinality(loginHits[c]) <= LoginLimit
       /\ Cardinality(generalHits[c]) <= PublicLimit
       /\ lastRequest[c].at \in {Long} \cup 0..now

\* What client c was let through at most a window before time t.
Within(c, t, kinds) ==
  {h \in admitted[c] : h.kind \in kinds /\ t - Window < h.at /\ h.at <= t}

\* "Rate Limit: 5 attempts per minute per IP" (document.txt:295), of one process:
\* in no span of a window's length, wherever it starts, do more logins of a client
\* reach the handler than the limit, however the client mixes them with others.
LoginsLimited ==
  \A c \in Clients : \A t \in 0..now :
    Cardinality(Within(c, t, {"login"})) <= LoginLimit

\* The same for all requests of a client together, the logins included.
RequestsLimited ==
  \A c \in Clients : \A t \in 0..now :
    Cardinality(Within(c, t, {"login", "other"})) <= PublicLimit

\* "Retry-After: 60": a client that was silent for a window is let in, whatever
\* it did before and however often it was refused.
SilenceHelps == [][
    \A c \in Clients :
       lastRequest'[c].answer = "429" /\ lastRequest'[c] # lastRequest[c] =>
         now - lastRequest[c].at < Window]_limiterVars
=============================================================================
