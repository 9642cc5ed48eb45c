-------------------------- MODULE RateLimiter_proofs --------------------------
(***************************************************************************)
(* Theorems about the two windows of the rate limiter, for every limit,    *)
(* window and number of clients.                                           *)
(***************************************************************************)
EXTENDS RateLimiter, FiniteSetTheorems, TLAPS

Kinds   == {"login", "other"}
Entries == [n : Nat, at : Nat, kind : Kinds]

\* A list the limiter keeps of client c: it is within its limit, and none of its
\* times is later than the last request of the client.
Kept(hits, limit, c) ==
  /\ IsFiniteSet(hits) /\ Cardinality(hits) <= limit
  /\ \A h \in hits : h.at <= now /\ h.n < taken /\ h.at <= lastRequest[c].at

\* What the process remembers: every request it has let through in the last
\* window is in the list of all requests, and in that of the logins if it is one.
Remembered ==
  /\ now \in 0..MaxTime /\ taken \in Nat
  /\ {loginHits, generalHits, admitted} \subseteq [Clients -> SUBSET Entries]
  /\ lastRequest \in [Clients -> [at : {Long} \cup 0..now, answer : {"none", "passed", "429"}]]
  /\ \A c \in Clients :
       /\ Kept(loginHits[c], LoginLimit, c) /\ Kept(generalHits[c], PublicLimit, c)
       /\ \A h \in admitted[c] : h.at <= now /\ h.n < taken
       /\ \A h \in Recent(admitted[c]) :
            h \in generalHits[c] /\ (h.kind = "login" => h \in loginHits[c])

\* A step of the middleware for client c: refused by the list that is full, or
\* entered into the lists that are not.
Enters(c, kind) ==
  /\ taken' = taken + 1
  /\ \/ kind = "other" /\ UNCHANGED loginHits
     \/ /\ kind = "login" /\ ~Full(loginHits[c], LoginLimit)
        /\ loginHits' = Hit(loginHits, c, kind)
  /\ \/ UNCHANGED <<generalHits, admitted>>
     \/ /\ ~Full(generalHits[c], PublicLimit)
        /\ generalHits' = Hit(generalHits, c, kind)
        /\ admitted' = [admitted EXCEPT ![c] = @ \cup {Entry(kind)}]

Dispatches(c) ==
  /\ UNCHANGED now
  /\ \/ Answer(c, "passed")
     \/ Answer(c, "429") /\ (Full(loginHits[c], LoginLimit) \/ Full(generalHits[c], PublicLimit))
  /\ UNCHANGED <<loginHits, generalHits, taken, admitted>> \/ \E kind \in Kinds : Enters(c, kind)

\* A step is a tick, a restart, or a dispatch for one client.
LEMMA Turns ==
  ASSUME [Next]_limiterVars
  PROVE  \/ UNCHANGED limiterVars \/ Tick \/ Restart \/ \E c \in Clients : Dispatches(c)
<1>1. ASSUME NEW c \in Clients, DispatchLogin(c)  PROVE Dispatches(c)
  BY <1>1 DEF DispatchLogin, CountGeneral, Admit, Dispatches, Enters, Kinds
<1>2. ASSUME NEW c \in Clients, DispatchOther(c)  PROVE Dispatches(c)
  BY <1>2 DEF DispatchOther, CountGeneral, Admit, Dispatches, Enters, Kinds
<1> QED  BY <1>1, <1>2 DEF Next

\* An entry fits in a list that is not full, for the old ones leave it.
LEMMA RoomForOne ==
  ASSUME NEW hits, IsFiniteSet(hits), NEW limit \in Nat, ~Full(hits, limit), NEW e
  PROVE  /\ IsFiniteSet(Recent(hits) \cup {e})
         /\ Cardinality(Recent(hits) \cup {e}) <= limit
<1>1. IsFiniteSet(Recent(hits))
  BY FS_Subset DEF Recent
<1>2. Cardinality(Recent(hits)) \in Nat /\ Cardinality(Recent(hits)) < limit
  BY <1>1, FS_CardinalityType DEF Full
<1>3. /\ IsFiniteSet(Recent(hits) \cup {e})
      /\ Cardinality(Recent(hits) \cup {e}) \in {Cardinality(Recent(hits)), Cardinality(Recent(hits)) + 1}
  BY <1>1, FS_AddElement, Zenon
<1> QED  BY <1>2, <1>3

\* A process that starts has nothing to remember.
LEMMA RememberedInit == Init => Remembered
<1> SUFFICES ASSUME Init  PROVE Remembered
  OBVIOUS
<1>1. IsFiniteSet({}) /\ Cardinality({}) = 0
  BY FS_EmptySet
<1>2. \A c \in Clients : Kept(loginHits[c], LoginLimit, c) /\ Kept(generalHits[c], PublicLimit, c)
  BY <1>1, LimiterAssumption DEF Init, Kept
<1> QED  BY <1>2, LimiterAssumption DEF Init, Remembered, Recent

\* A request is remembered as long as it counts: what is pruned is out of the window.
LEMMA RememberedStep == Remembered /\ [Next]_limiterVars => Remembered'
<1> SUFFICES ASSUME Remembered, [Next]_limiterVars  PROVE Remembered'
  OBVIOUS
<1> USE LimiterAssumption
<1>1. CASE UNCHANGED limiterVars
  BY <1>1 DEF limiterVars, Remembered, Kept, Recent
<1>2. CASE Tick
  <2>1. /\ now \in Nat /\ now' = now + 1 /\ now' \in 0..MaxTime
        /\ UNCHANGED <<loginHits, generalHits, taken, admitted, lastRequest>>
    BY <1>2 DEF Tick, Remembered
  <2>2. \A hits, limit, c : hits \in SUBSET Entries /\ Kept(hits, limit, c) => Kept(hits, limit, c)'
    BY <2>1 DEF Kept, Entries
  <2>3. \A c \in Clients : loginHits[c] \in SUBSET Entries /\ generalHits[c] \in SUBSET Entries
                           /\ admitted[c] \in SUBSET Entries
    BY DEF Remembered
  <2>4. lastRequest' \in [Clients -> [at : {Long} \cup 0..now', answer : {"none", "passed", "429"}]]
    BY <2>1 DEF Remembered
  <2>5. \A c \in Clients : \A h \in admitted[c] :
          /\ h.at <= now' /\ h.n < taken
          /\ now' - h.at < Window => now - h.at < Window
    BY <2>1, <2>3 DEF Remembered, Entries
  <2> QED  BY <2>1, <2>2, <2>3, <2>4, <2>5 DEF Remembered, Recent
<1>3. CASE Restart
  <2>1. IsFiniteSet({}) /\ Cardinality({}) = 0
    BY FS_EmptySet
  <2>2. \A c \in Clients : Kept(loginHits[c], LoginLimit, c)' /\ Kept(generalHits[c], PublicLimit, c)'
    BY <1>3, <2>1 DEF Restart, Fresh, Kept
  <2> QED  BY <1>3, <2>2 DEF Restart, Fresh, Remembered, Recent
<1>4. ASSUME NEW c \in Clients, Dispatches(c)  PROVE Remembered'
  <2>0. /\ now \in Nat /\ taken \in Nat /\ now' = now
        /\ {loginHits, generalHits, admitted} \subseteq [Clients -> SUBSET Entries]
    BY <1>4 DEF Dispatches, Remembered
  <2>1. /\ lastRequest' \in [Clients -> [at : {Long} \cup 0..now, answer : {"none", "passed", "429"}]]
        /\ lastRequest'[c].at = now
        /\ \A d \in Clients \ {c} : lastRequest'[d] = lastRequest[d]
    BY <1>4 DEF Dispatches, Answer, Remembered
  <2>2. taken' \in Nat /\ taken <= taken'
    BY <1>4, <2>0 DEF Dispatches, Enters
  <2>3. \A d \in Clients \ {c} : /\ loginHits'[d] = loginHits[d]
                                 /\ generalHits'[d] = generalHits[d]
                                 /\ admitted'[d] = admitted[d]
    BY <1>4, <2>0 DEF Dispatches, Enters, Hit
  <2>4. ASSUME NEW hits \in SUBSET Entries, NEW limit, NEW d \in Clients, Kept(hits, limit, d)
        PROVE  Kept(hits, limit, d)'
    <3>1. \A h \in hits : h.at <= now /\ h.n < taken /\ h.n \in Nat /\ h.at \in Nat
      BY <2>4 DEF Kept, Entries
    <3>2. \A h \in hits : h.at <= lastRequest'[d].at
      BY <2>1, <2>4, <3>1 DEF Kept
    <3> QED  BY <2>0, <2>2, <2>4, <3>1, <3>2 DEF Kept
  <2>5. ASSUME NEW hits \in SUBSET Entries, NEW limit \in Nat, NEW kind \in Kinds,
               Kept(hits, limit, c), ~Full(hits, limit), taken' = taken + 1
        PROVE  /\ IsFiniteSet(Recent(hits) \cup {Entry(kind)})
               /\ Cardinality(Recent(hits) \cup {Entry(kind)}) <= limit
               /\ \A h \in Recent(hits) \cup {Entry(kind)} :
                    h.at <= now' /\ h.n < taken' /\ h.at <= lastRequest'[c].at
    <3>1. \A h \in Recent(hits) \cup {Entry(kind)} : h.at <= now /\ h.n < taken + 1
      BY <2>0, <2>5 DEF Recent, Entry, Kept, Entries
    <3> QED  BY <2>0, <2>1, <2>5, <3>1, RoomForOne DEF Kept
  <2>6. ASSUME {loginHits', generalHits', admitted'} \subseteq [Clients -> SUBSET Entries],
               Kept(loginHits[c], LoginLimit, c)', Kept(generalHits[c], PublicLimit, c)',
               \A h \in admitted'[c] : h.at <= now /\ h.n < taken',
               \A h \in admitted'[c] : now - h.at < Window =>
                 h \in generalHits'[c] /\ (h.kind = "login" => h \in loginHits'[c])
        PROVE  Remembered'
    <3>1. ASSUME NEW d \in Clients \ {c}
          PROVE  /\ Kept(loginHits[d], LoginLimit, d)' /\ Kept(generalHits[d], PublicLimit, d)'
                 /\ \A h \in admitted'[d] : h.at <= now /\ h.n < taken'
                 /\ \A h \in admitted'[d] : now - h.at < Window =>
                      h \in generalHits'[d] /\ (h.kind = "login" => h \in loginHits'[d])
      <4>1. /\ loginHits[d] \in SUBSET Entries /\ generalHits[d] \in SUBSET Entries
            /\ Kept(loginHits[d], LoginLimit, d) /\ Kept(generalHits[d], PublicLimit, d)
        BY <2>0 DEF Remembered
      <4>2. Kept(loginHits[d], LoginLimit, d)' /\ Kept(generalHits[d], PublicLimit, d)'
        BY <2>3, <2>4, <4>1 DEF Kept
      <4>3. \A h \in admitted[d] : h.at <= now /\ h.n < taken'
        BY <2>0, <2>2 DEF Remembered, Entries
      <4> QED  BY <2>3, <4>2, <4>3 DEF Remembered, Recent
    <3> QED  BY <2>0, <2>1, <2>2, <2>6, <3>1 DEF Remembered, Recent
  <2>7. ASSUME NEW kind \in Kinds, Enters(c, kind)  PROVE Remembered'
    <3> DEFINE e == Entry(kind)
    <3>1. e \in Entries /\ e.at = now /\ e.n = taken /\ e.kind = kind
      BY <2>0 DEF Entry, Entries
    <3>2. \/ loginHits' = loginHits /\ kind # "login"
          \/ /\ loginHits' = [loginHits EXCEPT ![c] = Recent(@) \cup {e}]
             /\ ~Full(loginHits[c], LoginLimit) /\ kind = "login"
      BY <2>7 DEF Enters, Hit
    <3>3. \/ generalHits' = generalHits /\ admitted' = admitted
          \/ /\ generalHits' = [generalHits EXCEPT ![c] = Recent(@) \cup {e}]
             /\ admitted' = [admitted EXCEPT ![c] = @ \cup {e}]
             /\ ~Full(generalHits[c], PublicLimit)
      BY <2>7 DEF Enters, Hit
    <3>4. \A d \in Clients : /\ Recent(loginHits[d]) \in SUBSET Entries
                             /\ Recent(generalHits[d]) \in SUBSET Entries
      BY <2>0 DEF Recent
    <3>5. {loginHits', generalHits', admitted'} \subseteq [Clients -> SUBSET Entries]
      <4> HIDE DEF e
      <4> QED  BY <2>0, <3>1, <3>2, <3>3, <3>4
    <3>6. Kept(loginHits[c], LoginLimit, c)' /\ Kept(generalHits[c], PublicLimit, c)'
      <4>0. /\ loginHits[c] \in SUBSET Entries /\ generalHits[c] \in SUBSET Entries
            /\ Kept(loginHits[c], LoginLimit, c) /\ Kept(generalHits[c], PublicLimit, c)
        BY <2>0 DEF Remembered
      <4>1. Kept(loginHits[c], LoginLimit, c)'
        <5>1. CASE loginHits' = loginHits
          BY <2>4, <4>0, <5>1 DEF Kept
        <5>2. CASE loginHits'[c] = Recent(loginHits[c]) \cup {e} /\ ~Full(loginHits[c], LoginLimit)
          BY <2>5, <2>7, <4>0, <5>2 DEF Kept, Enters
        <5> QED  BY <2>0, <3>2, <5>1, <5>2
      <4>2. Kept(generalHits[c], PublicLimit, c)'
        <5>1. CASE generalHits' = generalHits
          BY <2>4, <4>0, <5>1 DEF Kept
        <5>2. CASE generalHits'[c] = Recent(generalHits[c]) \cup {e} /\ ~Full(generalHits[c], PublicLimit)
          BY <2>5, <2>7, <4>0, <5>2 DEF Kept, Enters
        <5> QED  BY <2>0, <3>3, <5>1, <5>2
      <4> QED  BY <4>1, <4>2
    <3>7. \A h \in admitted'[c] : h.at <= now /\ h.n < taken'
      BY <2>0, <2>7, <3>1, <3>3 DEF Remembered, Entries, Enters
    <3>8. \A h \in admitted'[c] : now - h.at < Window =>
            h \in generalHits'[c] /\ (h.kind = "login" => h \in loginHits'[c])
      <4>1. \A h \in admitted[c] : now - h.at < Window =>
              h \in generalHits[c] /\ (h.kind = "login" => h \in loginHits[c])
        BY DEF Remembered, Recent
      <4>2. \A h : /\ h \in loginHits[c] /\ now - h.at < Window => h \in loginHits'[c]
                   /\ h \in generalHits[c] /\ now - h.at < Window => h \in generalHits'[c]
        BY <2>0, <3>2, <3>3 DEF Recent
      <4>3. \A h \in admitted'[c] : h \in admitted[c] \/
              (h = e /\ e \in generalHits'[c] /\ (kind = "login" => e \in loginHits'[c]))
        BY <2>0, <3>2, <3>3
      <4> QED  BY <3>1, <4>1, <4>2, <4>3
    <3> QED  BY <2>6, <3>5, <3>6, <3>7, <3>8
  <2>8. CASE UNCHANGED <<loginHits, generalHits, taken, admitted>>
    <3>1. /\ loginHits[c] \in SUBSET Entries /\ generalHits[c] \in SUBSET Entries
          /\ Kept(loginHits[c], LoginLimit, c) /\ Kept(generalHits[c], PublicLimit, c)
      BY <2>0 DEF Remembered
    <3>2. Kept(loginHits[c], LoginLimit, c)' /\ Kept(generalHits[c], PublicLimit, c)'
      BY <2>4, <2>8, <3>1 DEF Kept
    <3> QED  BY <2>0, <2>6, <2>8, <3>2 DEF Remembered, Recent
  <2> QED  BY <1>4, <2>7, <2>8 DEF Dispatches
<1> QED  BY <1>1, <1>2, <1>3, <1>4, Turns

\* What the limiter keeps of a client stays within the limits (LimiterTypeOK).
THEOREM LimiterTypeCorrect == Spec => []LimiterTypeOK
<1>1. Remembered => LimiterTypeOK
  <2> SUFFICES ASSUME Remembered, NEW c \in Clients
               PROVE  /\ now \in 0..MaxTime
                      /\ \A h \in loginHits[c] \cup generalHits[c] \cup admitted[c] :
                           h.at \in 0..now /\ h.n < taken /\ h.kind \in Kinds
                      /\ Cardinality(loginHits[c]) <= LoginLimit
                      /\ Cardinality(generalHits[c]) <= PublicLimit
                      /\ lastRequest[c].at \in {Long} \cup 0..now
    BY LimiterAssumption DEF LimiterTypeOK, Kinds, Remembered
  <2>1. now \in Nat /\ loginHits[c] \cup generalHits[c] \cup admitted[c] \subseteq Entries
    BY LimiterAssumption DEF Remembered
  <2> QED  BY <2>1 DEF Remembered, Kept, Entries
<1> QED  BY <1>1, RememberedInit, RememberedStep, PTL DEF Spec

-----------------------------------------------------------------------------
(* How much is let through in any span of a window's length.                *)

\* In the window that ends now it is what the lists say.
LEMMA UpToNow ==
  Remembered => \A c \in Clients :
    /\ Cardinality(Within(c, now, {"login"})) <= LoginLimit
    /\ Cardinality(Within(c, now, {"login", "other"})) <= PublicLimit
<1> SUFFICES ASSUME Remembered, NEW c \in Clients
             PROVE  /\ Cardinality(Within(c, now, {"login"})) <= LoginLimit
                    /\ Cardinality(Within(c, now, {"login", "other"})) <= PublicLimit
  OBVIOUS
<1>1. now \in Nat /\ admitted[c] \subseteq Entries
  BY LimiterAssumption DEF Remembered
<1>2. /\ Within(c, now, {"login"}) \subseteq loginHits[c]
      /\ Within(c, now, {"login", "other"}) \subseteq generalHits[c]
  BY <1>1, LimiterAssumption DEF Remembered, Recent, Within, Entries
<1>3. /\ IsFiniteSet(loginHits[c]) /\ Cardinality(loginHits[c]) <= LoginLimit
      /\ IsFiniteSet(generalHits[c]) /\ Cardinality(generalHits[c]) <= PublicLimit
  BY DEF Remembered, Kept
<1>4. ASSUME NEW S, NEW T \in SUBSET S, IsFiniteSet(S), NEW limit \in Nat,
             Cardinality(S) <= limit
      PROVE  Cardinality(T) <= limit
  BY <1>4, FS_Subset, FS_CardinalityType
<1> QED  BY <1>2, <1>3, <1>4, LimiterAssumption

\* The same in the next state.
LEMMA UpToNext ==
  Remembered' => \A c \in Clients :
    /\ Cardinality(Within(c, now, {"login"})') <= LoginLimit
    /\ Cardinality(Within(c, now, {"login", "other"})') <= PublicLimit
<1>1. (Remembered => \A c \in Clients :
         /\ Cardinality(Within(c, now, {"login"})) <= LoginLimit
         /\ Cardinality(Within(c, now, {"login", "other"})) <= PublicLimit)'
  BY UpToNow, PTL
<1> QED  BY <1>1

\* What was let through up to an earlier time is not changed by a step, but for
\* a restart, which forgets it.
LEMMA PastIsPast ==
  ASSUME Remembered, [Next]_limiterVars, NEW c \in Clients, NEW t \in 0..now', t # now',
         NEW kinds
  PROVE  (t \in 0..now /\ Within(c, t, kinds)' = Within(c, t, kinds)) \/ Within(c, t, kinds)' = {}
<1>0. now \in Nat
  BY LimiterAssumption DEF Remembered
<1>1. CASE UNCHANGED limiterVars
  BY <1>1 DEF limiterVars, Within
<1>2. CASE Tick
  BY <1>0, <1>2 DEF Tick, Within
<1>3. CASE Restart
  BY <1>3 DEF Restart, Fresh, Within
<1>4. ASSUME NEW d \in Clients, Dispatches(d)
      PROVE  t \in 0..now /\ Within(c, t, kinds)' = Within(c, t, kinds)
  <2>0. now' = now
    BY <1>4 DEF Dispatches
  <2>1. t \in Nat /\ t < now /\ t \in 0..now
    BY <1>0, <2>0
  <2>4. admitted \in [Clients -> SUBSET Entries]
    BY DEF Remembered
  <2>2. \/ admitted'[c] = admitted[c]
        \/ \E kind \in Kinds : admitted'[c] = admitted[c] \cup {Entry(kind)}
    BY <1>4, <2>4 DEF Dispatches, Enters
  <2>3. \A kind : Entry(kind).at = now
    BY DEF Entry
  <2>5. \A h \in admitted'[c] : h.at <= t => h \in admitted[c]
    BY <1>0, <2>1, <2>2, <2>3
  <2>6. Within(c, t, kinds)' = {h \in admitted'[c] : h.kind \in kinds /\ t - Window < h.at /\ h.at <= t}
    BY DEF Within
  <2> QED  BY <2>1, <2>2, <2>5, <2>6 DEF Within
<1> QED  BY <1>1, <1>2, <1>3, <1>4, Turns

\* No span of a window's length has more logins of a client that reach the
\* handler than the limit (LoginsLimited), wherever it starts: what the list has
\* dropped is out of every window that is still to come.
THEOREM LoginsStayLimited == Spec => []LoginsLimited
<1>1. ASSUME Remembered, LoginsLimited, [Next]_limiterVars  PROVE LoginsLimited'
  <2>1. ASSUME NEW c \in Clients, NEW t \in 0..now'
        PROVE  Cardinality(Within(c, t, {"login"})') <= LoginLimit
    <3>1. CASE t = now'
      BY <1>1, <3>1, RememberedStep, UpToNext DEF Within
    <3>2. CASE t # now'
      BY <1>1, <3>2, PastIsPast, FS_EmptySet, LimiterAssumption DEF LoginsLimited
    <3> QED  BY <3>1, <3>2
  <2> QED  BY <2>1 DEF LoginsLimited
<1>2. Init => LoginsLimited
  BY FS_EmptySet, LimiterAssumption DEF Init, LoginsLimited, Within
<1> QED  BY <1>1, <1>2, RememberedInit, RememberedStep, PTL DEF Spec

\* The same for all the requests of a client together (RequestsLimited), the
\* logins among them entered into the second list as well.
THEOREM RequestsStayLimited == Spec => []RequestsLimited
<1>1. ASSUME Remembered, RequestsLimited, [Next]_limiterVars  PROVE RequestsLimited'
  <2>1. ASSUME NEW c \in Clients, NEW t \in 0..now'
        PROVE  Cardinality(Within(c, t, {"login", "other"})') <= PublicLimit
    <3>1. CASE t = now'
      BY <1>1, <3>1, RememberedStep, UpToNext DEF Within
    <3>2. CASE t # now'
      BY <1>1, <3>2, PastIsPast, FS_EmptySet, LimiterAssumption DEF RequestsLimited
    <3> QED  BY <3>1, <3>2
  <2> QED  BY <2>1 DEF RequestsLimited
<1>2. Init => RequestsLimited
  BY FS_EmptySet, LimiterAssumption DEF Init, RequestsLimited, Within
<1> QED  BY <1>1, <1>2, RememberedInit, RememberedStep, PTL DEF Spec

\* A client that was silent for a window is let in (SilenceHelps): a list that
\* is full has an entry, and none of its entries is later than the last request,
\* for a request that is refused leaves none in the list that refuses it.
THEOREM SilenceIsEnough == Spec => SilenceHelps
<1>1. ASSUME Remembered, [Next]_limiterVars, NEW c \in Clients,
             lastRequest'[c].answer = "429", lastRequest'[c] # lastRequest[c]
      PROVE  now - lastRequest[c].at < Window
  <2>1. lastRequest \in [Clients -> [at : {Long} \cup 0..now, answer : {"none", "passed", "429"}]]
    BY <1>1 DEF Remembered
  <2>0. now \in Nat /\ Window \in Nat
    BY <1>1, LimiterAssumption DEF Remembered
  <2>2. Dispatches(c) /\ (Full(loginHits[c], LoginLimit) \/ Full(generalHits[c], PublicLimit))
    <3>1. ASSUME NEW d \in Clients, Dispatches(d)  PROVE d = c
      BY <1>1, <2>1, <3>1 DEF Dispatches, Answer
    <3>2. ~Tick /\ ~Restart /\ ~UNCHANGED limiterVars
      BY <1>1, <2>1 DEF Tick, Restart, Fresh, limiterVars
    <3>3. Dispatches(c)
      BY <1>1, <3>1, <3>2, Turns
    <3>4. ~Answer(c, "passed")
      BY <1>1, <2>1 DEF Answer
    <3> QED  BY <3>3, <3>4 DEF Dispatches
  <2>3. ASSUME NEW hits \in SUBSET Entries, NEW limit \in Nat \ {0}, Kept(hits, limit, c),
               Full(hits, limit)
        PROVE  now - lastRequest[c].at < Window
    <3>1. Recent(hits) # {}
      BY <2>3, FS_EmptySet DEF Full
    <3>2. PICK h \in hits : now - h.at < Window
      BY <3>1 DEF Recent
    <3>3. h.at \in Nat /\ h.at <= lastRequest[c].at /\ lastRequest[c].at \in Int
      BY <2>0, <2>1, <2>3, LimiterAssumption DEF Kept, Entries, Long
    <3> QED  BY <2>0, <3>2, <3>3
  <2>4. /\ loginHits[c] \in SUBSET Entries /\ Kept(loginHits[c], LoginLimit, c)
        /\ generalHits[c] \in SUBSET Entries /\ Kept(generalHits[c], PublicLimit, c)
    BY <1>1 DEF Remembered
  <2>5. LoginLimit \in Nat \ {0} /\ PublicLimit \in Nat \ {0}
    BY LimiterAssumption
  <2> QED  BY <2>2, <2>3, <2>4, <2>5
<1>2. Remembered /\ [Next]_limiterVars =>
        [\A c \in Clients :
           lastRequest'[c].answer = "429" /\ lastRequest'[c] # lastRequest[c] =>
             now - lastRequest[c].at < Window]_limiterVars
  BY <1>1
<1> QED  BY <1>2, RememberedInit, RememberedStep, PTL DEF Spec, SilenceHelps
=============================================================================
