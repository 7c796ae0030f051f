--------------------------- MODULE JsCacheProofs ---------------------------
(***************************************************************************)
(* The safety properties of JsCache for any scouts, files and faults.      *)
(***************************************************************************)
EXTENDS JsCache, TLAPS

\* An Event is set only by the call that made it, when that call ends.
SetHasEnded == \A c \in set : call[c].pc \in {"done", "cancelled"}

EventInv == CacheTypeOK /\ SetHasEnded /\ WaitersAreServed /\ RegisteredEventIsPending

\* What a scan without failures adds: a file goes from unrequested to one fetch
\* under way, which everybody else waits for, to cached.
Unrequested(u) ==
  requests[u] = 0 =>
    cache[u] = Nil /\ events[u] = Nil /\ \A c \in Calls : call[c].url # u

OneFetch(u) ==
  /\ requests[u] <= 1
  /\ requests[u] = 1 => cache[u] # Nil \/ events[u] # Nil

SharedBy(c) ==
  LET u == call[c].url IN
  /\ call[c].pc = "fetching" => events[u] = c /\ cache[u] = Nil
  /\ call[c].pc = "waiting" => cache[u] # Nil \/ events[u] = call[c].on
  /\ call[c].pc = "done" => u \in Urls /\ result[c] = cache[u] /\ cache[u] # Nil
  /\ call[c].pc # "cancelled"
  /\ call[c].pc = "new" => u = Nil

Shared ==
  /\ \A u \in Urls : Unrequested(u) /\ OneFetch(u)
  /\ \A c \in Calls : SharedBy(c)

\* A call has no result before it returns, so a failure is never undone.
NoResultYet == \A c \in Calls : call[c].pc # "done" => result[c] = Nil

HealthyInv == NoResultYet /\ (NoFailure => Shared)

-----------------------------------------------------------------------------
\* A call that returns the cached text disturbs no Event.
LEMMA CachedKeepsEvents ==
  ASSUME EventInv, NEW c \in Calls, NEW u \in Urls,
         call[c].pc \in {"new", "waiting"}, ReturnCached(c, u)
  PROVE  EventInv'
<1> USE NilIsNew DEF EventInv
<1>1. CacheTypeOK'
  BY DEF CacheTypeOK, ReturnCached
<1>2. SetHasEnded'
  BY DEF CacheTypeOK, ReturnCached, SetHasEnded
<1>3. WaitersAreServed'
  BY DEF CacheTypeOK, ReturnCached, WaitersAreServed
<1>4. RegisteredEventIsPending'
  BY DEF CacheTypeOK, ReturnCached, RegisteredEventIsPending
<1> QED  BY <1>1, <1>2, <1>3, <1>4

\* A call that starts a fetch registers an Event that nobody has set.
LEMMA FetchKeepsEvents ==
  ASSUME EventInv, NEW c \in Calls, NEW u \in Urls,
         call[c].pc \in {"new", "waiting"}, BeginFetch(c, u)
  PROVE  EventInv'
<1> USE NilIsNew DEF EventInv
<1>1. CacheTypeOK'
  <2>1. call[c] \in [pc : {"new", "waiting", "fetching", "done", "cancelled"},
                     url : Urls \cup {Nil}, on : Calls \cup {Nil}]
    BY DEF CacheTypeOK
  <2>2. call' = [call EXCEPT ![c] = [pc |-> "fetching", url |-> u, on |-> call[c].on]]
    BY DEF BeginFetch
  <2>3. events' \in [Urls -> Calls \cup {Nil}] /\ requests' \in [Urls -> Nat]
    BY DEF CacheTypeOK, BeginFetch
  <2> QED  BY <2>1, <2>2, <2>3 DEF CacheTypeOK, BeginFetch
<1>2. SetHasEnded'
  BY DEF CacheTypeOK, BeginFetch, SetHasEnded
<1>3. WaitersAreServed'
  BY DEF CacheTypeOK, BeginFetch, WaitersAreServed
<1>4. RegisteredEventIsPending'
  BY DEF CacheTypeOK, BeginFetch, RegisteredEventIsPending, SetHasEnded
<1> QED  BY <1>1, <1>2, <1>3, <1>4

\* The finally clause serves everyone who waits for the call's Event.
LEMMA ReleaseKeepsEvents ==
  ASSUME EventInv, NEW c \in Calls, NEW pc \in {"done", "cancelled"},
         call[c].pc = "fetching", Release(c, pc),
         cache' \in [Urls -> Calls \cup {Nil}],
         result' \in [Calls -> Calls \cup {Nil}], UNCHANGED requests
  PROVE  EventInv'
<1> USE NilIsNew DEF EventInv
<1>1. CacheTypeOK'
  <2>1. call[c] \in [pc : {"new", "waiting", "fetching", "done", "cancelled"},
                     url : Urls \cup {Nil}, on : Calls \cup {Nil}]
    BY DEF CacheTypeOK
  <2>4. [call[c] EXCEPT !.pc = pc] = [pc |-> pc, url |-> call[c].url, on |-> call[c].on]
    BY <2>1
  <2>2. call' = [call EXCEPT ![c] = [pc |-> pc, url |-> call[c].url, on |-> call[c].on]]
    BY <2>4 DEF Release
  <2>3. events' \in [Urls -> Calls \cup {Nil}] /\ set' \subseteq Calls
    BY DEF CacheTypeOK, Release
  <2> QED  BY <2>1, <2>2, <2>3 DEF CacheTypeOK
<1>2. SetHasEnded'
  BY DEF CacheTypeOK, Release, SetHasEnded
<1>3. WaitersAreServed'
  BY DEF CacheTypeOK, Release, WaitersAreServed
<1>4. RegisteredEventIsPending'
  BY DEF CacheTypeOK, Release, RegisteredEventIsPending
<1> QED  BY <1>1, <1>2, <1>3, <1>4

\* The Events are kept in order by every step of the cache.
THEOREM EventInvHolds == CacheSpec => []EventInv
<1> USE NilIsNew
<1>1. CacheInit => EventInv
  BY DEF CacheInit, EventInv, CacheTypeOK, SetHasEnded, WaitersAreServed, RegisteredEventIsPending
<1>2. EventInv /\ [CacheNext]_cacheVars => EventInv'
  <2> SUFFICES ASSUME EventInv, [CacheNext]_cacheVars PROVE EventInv'
    OBVIOUS
  <2>1. ASSUME NEW c \in Calls, Enter(c) PROVE EventInv'
    <3>1. PICK u \in Urls :
            \/ ReturnCached(c, u)
            \/ /\ cache[u] = Nil /\ events[u] # Nil
               /\ call' = [call EXCEPT ![c] = [pc |-> "waiting", url |-> u, on |-> events[u]]]
               /\ UNCHANGED <<cache, events, set, result, requests>>
            \/ cache[u] = Nil /\ events[u] = Nil /\ BeginFetch(c, u)
      BY <2>1 DEF Enter
    <3>2. call[c].pc = "new"
      BY <2>1 DEF Enter
    <3>3. CASE ReturnCached(c, u)
      BY <3>2, <3>3, CachedKeepsEvents
    <3>4. CASE BeginFetch(c, u)
      BY <3>2, <3>4, FetchKeepsEvents
    <3>5. CASE /\ events[u] # Nil
               /\ call' = [call EXCEPT ![c] = [pc |-> "waiting", url |-> u, on |-> events[u]]]
               /\ UNCHANGED <<cache, events, set, result, requests>>
      <4>1. events[u] \in Calls /\ call[events[u]].pc = "fetching"
        BY <3>5 DEF EventInv, CacheTypeOK, RegisteredEventIsPending
      <4>2. CacheTypeOK'
        BY <3>5, <4>1 DEF EventInv, CacheTypeOK
      <4>3. SetHasEnded'
        BY <3>2, <3>5 DEF EventInv, CacheTypeOK, SetHasEnded
      <4>4. WaitersAreServed'
        BY <3>2, <3>5, <4>1 DEF EventInv, CacheTypeOK, WaitersAreServed
      <4>5. RegisteredEventIsPending'
        BY <3>2, <3>5 DEF EventInv, CacheTypeOK, RegisteredEventIsPending
      <4> QED  BY <4>2, <4>3, <4>4, <4>5 DEF EventInv
    <3> QED  BY <3>1, <3>3, <3>4, <3>5
  <2>2. ASSUME NEW c \in Calls, Wake(c) PROVE EventInv'
    <3>1. call[c].pc = "waiting" /\ call[c].url \in Urls
      BY <2>2 DEF Wake, EventInv, CacheTypeOK
    <3>2. ReturnCached(c, call[c].url) \/ BeginFetch(c, call[c].url)
      BY <2>2 DEF Wake
    <3> QED  BY <3>1, <3>2, CachedKeepsEvents, FetchKeepsEvents
  <2>3. ASSUME NEW c \in Calls, FetchSucceeds(c) PROVE EventInv'
    <3>1. /\ cache' \in [Urls -> Calls \cup {Nil}]
          /\ result' \in [Calls -> Calls \cup {Nil}]
      BY <2>3 DEF FetchSucceeds, EventInv, CacheTypeOK
    <3> QED  BY <2>3, <3>1, ReleaseKeepsEvents DEF FetchSucceeds
  <2>4. ASSUME NEW c \in Calls, FetchFails(c) PROVE EventInv'
    <3>1. /\ cache' \in [Urls -> Calls \cup {Nil}]
          /\ result' \in [Calls -> Calls \cup {Nil}]
      BY <2>4 DEF FetchFails, EventInv, CacheTypeOK
    <3> QED  BY <2>4, <3>1, ReleaseKeepsEvents DEF FetchFails
  <2>5. ASSUME NEW c \in Calls, Cancel(c) PROVE EventInv'
    <3>1. /\ cache' \in [Urls -> Calls \cup {Nil}]
          /\ result' \in [Calls -> Calls \cup {Nil}]
      BY <2>5 DEF Cancel, EventInv, CacheTypeOK
    <3>2. CASE call[c].pc = "fetching" /\ Release(c, "cancelled")
      BY <2>5, <3>1, <3>2, ReleaseKeepsEvents DEF Cancel
    <3>3. CASE /\ call[c].pc = "waiting"
               /\ call' = [call EXCEPT ![c].pc = "cancelled"]
               /\ UNCHANGED <<set, events>>
      <4>1. CacheTypeOK'
        BY <2>5, <3>3 DEF Cancel, EventInv, CacheTypeOK
      <4>2. SetHasEnded'
        BY <3>3 DEF EventInv, CacheTypeOK, SetHasEnded
      <4>3. WaitersAreServed'
        BY <3>3 DEF EventInv, CacheTypeOK, WaitersAreServed
      <4>4. RegisteredEventIsPending'
        BY <3>3 DEF EventInv, CacheTypeOK, RegisteredEventIsPending
      <4> QED  BY <4>1, <4>2, <4>3, <4>4 DEF EventInv
    <3> QED  BY <2>5, <3>2, <3>3 DEF Cancel
  <2>6. CASE UNCHANGED cacheVars
    BY <2>6 DEF cacheVars, EventInv, CacheTypeOK, SetHasEnded, WaitersAreServed, RegisteredEventIsPending
  <2> QED  BY <2>1, <2>2, <2>3, <2>4, <2>5, <2>6 DEF CacheNext
<1> QED  BY <1>1, <1>2, PTL DEF CacheSpec

\* The state of fetch_js has its types, whatever scouts, files and faults there are.
THEOREM CacheTypes == CacheSpec => []CacheTypeOK
BY EventInvHolds, PTL DEF EventInv

\* No scout waits for an Event that will not be set, even after cancellations.
THEOREM NoLostWakeup == CacheSpec => []WaitersAreServed
BY EventInvHolds, PTL DEF EventInv

\* What _js_fetch_events holds for a file is the Event of a fetch of that file.
THEOREM RegisteredIsPending == CacheSpec => []RegisteredEventIsPending
BY EventInvHolds, PTL DEF EventInv

\* Sharing survives every step that a scan without faults can take.
LEMMA HealthyStep ==
  ASSUME EventInv, Shared, NEW c \in Calls,
         Enter(c) \/ Wake(c) \/ FetchSucceeds(c)
  PROVE  Shared'
<1> USE NilIsNew
<1>1. /\ \A u \in Urls : Unrequested(u) /\ OneFetch(u)
      /\ \A d \in Calls : SharedBy(d)
  BY DEF Shared
<1>2. ASSUME NEW u \in Urls, call[c].pc \in {"new", "waiting"}, ReturnCached(c, u)
      PROVE  Shared'
  BY <1>1, <1>2 DEF EventInv, CacheTypeOK, ReturnCached, Shared, Unrequested, OneFetch, SharedBy
<1>3. ASSUME NEW u \in Urls, call[c].pc = "new", cache[u] = Nil, events[u] = Nil,
             BeginFetch(c, u)
      PROVE  Shared'
  <2>1. requests[u] = 0
    <3>1. requests[u] \in Nat /\ OneFetch(u)
      BY <1>1 DEF EventInv, CacheTypeOK
    <3> QED  BY <1>3, <3>1 DEF OneFetch
  <2>2. \A v \in Urls : Unrequested(v)' /\ OneFetch(v)'
    BY <1>1, <1>3, <2>1 DEF EventInv, CacheTypeOK, BeginFetch, Unrequested, OneFetch
  <2>3. \A d \in Calls : SharedBy(d)'
    BY <1>1, <1>3, <2>1 DEF EventInv, CacheTypeOK, BeginFetch, Unrequested, SharedBy
  <2> QED  BY <2>2, <2>3 DEF Shared
<1>4. CASE Enter(c)
  <2>1. call[c].pc = "new"
    BY <1>4 DEF Enter
  <2>2. PICK u \in Urls :
          \/ ReturnCached(c, u)
          \/ /\ cache[u] = Nil /\ events[u] # Nil
             /\ call' = [call EXCEPT ![c] = [pc |-> "waiting", url |-> u, on |-> events[u]]]
             /\ UNCHANGED <<cache, events, set, result, requests>>
          \/ cache[u] = Nil /\ events[u] = Nil /\ BeginFetch(c, u)
    BY <1>4 DEF Enter
  <2>3. CASE /\ events[u] # Nil
             /\ call' = [call EXCEPT ![c] = [pc |-> "waiting", url |-> u, on |-> events[u]]]
             /\ UNCHANGED <<cache, events, set, result, requests>>
    <3>1. requests[u] # 0
      BY <1>1, <2>3 DEF Unrequested
    <3>2. \A v \in Urls : Unrequested(v)' /\ OneFetch(v)'
      BY <1>1, <2>3, <3>1 DEF EventInv, CacheTypeOK, Unrequested, OneFetch
    <3>3. \A d \in Calls : SharedBy(d)'
      BY <1>1, <2>3 DEF EventInv, CacheTypeOK, SharedBy
    <3> QED  BY <3>2, <3>3 DEF Shared
  <2> QED  BY <1>2, <1>3, <2>1, <2>2, <2>3 DEF Shared
<1>5. CASE Wake(c)
  <2>1. /\ call[c].pc = "waiting" /\ call[c].on \in set
        /\ call[c].url \in Urls /\ call[c].on # Nil
    BY <1>5 DEF Wake, EventInv, CacheTypeOK
  <2>2. cache[call[c].url] # Nil
    BY <1>1, <2>1 DEF EventInv, RegisteredEventIsPending, SharedBy
  <2>3. ReturnCached(c, call[c].url)
    BY <1>5, <2>2 DEF Wake
  <2> QED  BY <1>2, <2>1, <2>3 DEF Shared
<1>6. CASE FetchSucceeds(c)
  <2> DEFINE u == call[c].url
  <2>1. /\ u \in Urls /\ events[u] = c /\ cache[u] = Nil /\ requests[u] # 0
        /\ cache' = [cache EXCEPT ![u] = c] /\ result' = [result EXCEPT ![c] = c]
        /\ call' = [call EXCEPT ![c].pc = "done"] /\ events' = [events EXCEPT ![u] = Nil]
        /\ UNCHANGED requests
    BY <1>1, <1>6 DEF FetchSucceeds, Release, EventInv, CacheTypeOK, SharedBy, Unrequested
  <2>2. \A v \in Urls : Unrequested(v)' /\ OneFetch(v)'
    BY <1>1, <2>1 DEF EventInv, CacheTypeOK, Unrequested, OneFetch
  <2>3. \A d \in Calls : SharedBy(d)'
    BY <1>1, <2>1 DEF EventInv, CacheTypeOK, SharedBy
  <2> QED  BY <2>2, <2>3 DEF Shared
<1> QED  BY <1>4, <1>5, <1>6

\* A scan that has failed somewhere stays so, and a step that fails nothing is
\* one of the three above.
LEMMA FailureStep ==
  ASSUME EventInv, NoResultYet, NEW c \in Calls,
         Enter(c) \/ Wake(c) \/ FetchSucceeds(c) \/ FetchFails(c) \/ Cancel(c)
  PROVE  NoResultYet' /\ (NoFailure' => NoFailure /\ (Enter(c) \/ Wake(c) \/ FetchSucceeds(c)))
<1> USE NilIsNew DEF EventInv, NoResultYet, NoFailure
<1>1. CASE Enter(c)
  BY <1>1 DEF CacheTypeOK, Enter, ReturnCached, BeginFetch
<1>2. CASE Wake(c)
  BY <1>2 DEF CacheTypeOK, Wake, ReturnCached, BeginFetch
<1>3. CASE FetchSucceeds(c)
  BY <1>3 DEF CacheTypeOK, FetchSucceeds, Release
<1>4. CASE FetchFails(c)
  BY <1>4 DEF CacheTypeOK, FetchFails, Release
<1>5. CASE Cancel(c)
  BY <1>5 DEF CacheTypeOK, Cancel, Release
<1> QED  BY <1>1, <1>2, <1>3, <1>4, <1>5

\* While fetches succeed and no scout times out, one request serves every scout.
THEOREM HealthyIsShared == CacheSpec => []HealthyFetchIsShared
<1>1. CacheInit => HealthyInv
  BY NilIsNew DEF CacheInit, HealthyInv, NoResultYet, Shared, Unrequested, OneFetch, SharedBy
<1>2. EventInv /\ HealthyInv /\ [CacheNext]_cacheVars => HealthyInv'
  <2> SUFFICES ASSUME EventInv, HealthyInv, [CacheNext]_cacheVars PROVE HealthyInv'
    OBVIOUS
  <2>1. ASSUME NEW c \in Calls,
               Enter(c) \/ Wake(c) \/ FetchSucceeds(c) \/ FetchFails(c) \/ Cancel(c)
        PROVE  HealthyInv'
    BY <2>1, FailureStep, HealthyStep DEF HealthyInv
  <2>2. CASE UNCHANGED cacheVars
    BY <2>2 DEF cacheVars, HealthyInv, NoResultYet, NoFailure, Shared, Unrequested, OneFetch, SharedBy
  <2> QED  BY <2>1, <2>2 DEF CacheNext
<1>3. EventInv /\ HealthyInv => HealthyFetchIsShared
  BY DEF EventInv, CacheTypeOK, HealthyInv, HealthyFetchIsShared, Shared, OneFetch, SharedBy
<1> QED  BY <1>1, <1>2, <1>3, EventInvHolds, PTL DEF CacheSpec
=============================================================================
