------------------------------ MODULE JsCache ------------------------------
(***************************************************************************)
(* ScannerContext.fetch_js (src/worker/main_scanner.py): the cache of      *)
(* JavaScript files that the scouts of one scan share. Calls are           *)
(* coroutines of one event loop, so a step runs from one await to the next. *)
(* A call that finds no cached text and no fetch under way fetches, behind *)
(* an asyncio.Event that later calls wait for.                             *)
(***************************************************************************)
EXTENDS Naturals, FiniteSets

CONSTANTS
  Calls,    \* calls of fetch_js by the scouts of a scan; each makes at most one Event
  Urls,     \* JavaScript files
  Nil       \* Python's None, and the empty text

ASSUME NilIsNew == Nil \notin Calls \cup Urls

VARIABLES
  call,     \* [Calls -> [pc, url, on]]; on is the call whose Event it waits for
  cache,    \* js_cache: the text is named by the call that fetched it
  events,   \* _js_fetch_events
  set,      \* the Events that are set
  result,   \* what each call returned; Nil is the empty string
  requests  \* metrics["http_requests"], per file

cacheVars == <<call, cache, events, set, result, requests>>

CacheInit ==
  /\ call = [c \in Calls |-> [pc |-> "new", url |-> Nil, on |-> Nil]]
  /\ cache = [u \in Urls |-> Nil]
  /\ events = [u \in Urls |-> Nil]
  /\ set = {}
  /\ result = [c \in Calls |-> Nil]
  /\ requests = [u \in Urls |-> 0]

-----------------------------------------------------------------------------
ReturnCached(c, u) ==
  /\ cache[u] # Nil
  /\ call' = [call EXCEPT ![c] = [pc |-> "done", url |-> u, on |-> @.on]]
  /\ result' = [result EXCEPT ![c] = cache[u]]
  /\ UNCHANGED <<cache, events, set, requests>>

\* As BeginFetch, without the Event.
FetchUnannounced(c, u) ==
  /\ call' = [call EXCEPT ![c] = [pc |-> "fetching", url |-> u, on |-> @.on]]
  /\ requests' = [requests EXCEPT ![u] = @ + 1]
  /\ UNCHANGED <<cache, events, set, result>>

\* A new Event replaces whatever is registered for the file.
BeginFetch(c, u) ==
  /\ call' = [call EXCEPT ![c] = [pc |-> "fetching", url |-> u, on |-> @.on]]
  /\ events' = [events EXCEPT ![u] = c]
  /\ requests' = [requests EXCEPT ![u] = @ + 1]
  /\ UNCHANGED <<cache, set, result>>

\* The call, up to its first await.
Enter(c) ==
  /\ call[c].pc = "new"
  /\ \E u \in Urls :
       \/ ReturnCached(c, u)
       \/ /\ cache[u] = Nil /\ events[u] # Nil
          /\ call' = [call EXCEPT ![c] = [pc |-> "waiting", url |-> u, on |-> events[u]]]
          /\ UNCHANGED <<cache, events, set, result, requests>>
       \/ /\ cache[u] = Nil /\ events[u] = Nil
          /\ BeginFetch(c, u)

\* The Event a call waits for was set: the text is there, or it fetches itself.
Wake(c) ==
  /\ call[c].pc = "waiting" /\ call[c].on \in set
  /\ \/ ReturnCached(c, call[c].url)
     \/ cache[call[c].url] = Nil /\ BeginFetch(c, call[c].url)

\* As Release, run only when the fetch was not cancelled (no "finally").
ReleaseUnlessCancelled(c, pc) ==
  /\ call' = [call EXCEPT ![c].pc = pc]
  /\ set' = IF pc = "cancelled" THEN set ELSE set \cup {c}
  /\ events' = [events EXCEPT ![call[c].url] = Nil]

\* As Release, keeping the registration.
ReleaseRegistered(c, pc) ==
  /\ call' = [call EXCEPT ![c].pc = pc]
  /\ set' = set \cup {c}
  /\ UNCHANGED events

\* As Release, setting the registered Event in place of the call's own.
ReleaseSetsRegistered(c, pc) ==
  /\ call' = [call EXCEPT ![c].pc = pc]
  /\ set' = set \cup {events[call[c].url]}
  /\ events' = [events EXCEPT ![call[c].url] = Nil]

\* The finally clause: set the call's own Event, and drop the one registered for
\* the file, whichever call registered it.
Release(c, pc) ==
  /\ call' = [call EXCEPT ![c].pc = pc]
  /\ set' = set \cup {c}
  /\ events' = [events EXCEPT ![call[c].url] = Nil]

FetchSucceeds(c) ==
  /\ call[c].pc = "fetching"
  /\ cache' = [cache EXCEPT ![call[c].url] = c]
  /\ result' = [result EXCEPT ![c] = c]
  /\ Release(c, "done")
  /\ UNCHANGED requests

\* The GET raised, or its status is not 200.
FetchFails(c) ==
  /\ call[c].pc = "fetching"
  /\ Release(c, "done")
  /\ UNCHANGED <<cache, result, requests>>

\* The scout's wait_for cancels its coroutine where it awaits.
Cancel(c) ==
  /\ \/ /\ call[c].pc = "waiting"
        /\ call' = [call EXCEPT ![c].pc = "cancelled"]
        /\ UNCHANGED <<set, events>>
     \/ /\ call[c].pc = "fetching"
        /\ Release(c, "cancelled")
  /\ UNCHANGED <<cache, result, requests>>

CacheNext == \E c \in Calls : Enter(c) \/ Wake(c) \/ FetchSucceeds(c) \/ FetchFails(c) \/ Cancel(c)

CacheSpec == CacheInit /\ [][CacheNext]_cacheVars

\* The event loop resumes a woken coroutine, and a GET ends within its 10 s.
CacheFairness ==
  \A c \in Calls : WF_cacheVars(Wake(c)) /\ WF_cacheVars(FetchSucceeds(c) \/ FetchFails(c))

CacheFairSpec == CacheSpec /\ CacheFairness

-----------------------------------------------------------------------------
\* The types of the cache, its Events and the coroutines' records.
CacheTypeOK ==
  /\ call \in [Calls -> [pc : {"new", "waiting", "fetching", "done", "cancelled"},
                         url : Urls \cup {Nil}, on : Calls \cup {Nil}]]
  /\ \A c \in Calls : call[c].pc \in {"waiting", "fetching"} => call[c].url \in Urls
  /\ \A c \in Calls : call[c].pc = "waiting" => call[c].on \in Calls
  /\ cache \in [Urls -> Calls \cup {Nil}]
  /\ events \in [Urls -> Calls \cup {Nil}]
  /\ set \subseteq Calls
  /\ result \in [Calls -> Calls \cup {Nil}]
  /\ requests \in [Urls -> Nat]

\* Nobody waits for an Event that is never set: the call that made it is still
\* fetching, or has set it, even if its scout timed out or another call has
\* taken its place in _js_fetch_events.
WaitersAreServed ==
  \A c \in Calls : call[c].pc = "waiting" =>
    call[c].on \in set \/ call[call[c].on].pc = "fetching"

\* The Event registered for a file belongs to a fetch of that file in progress,
\* although a fetch that ends also drops the registrations of other fetches.
RegisteredEventIsPending ==
  \A u \in Urls : events[u] # Nil =>
    /\ events[u] \notin set
    /\ call[events[u]].pc = "fetching" /\ call[events[u]].url = u

\* Every fetch so far succeeded and no scout timed out.
NoFailure ==
  \A c \in Calls : call[c].pc # "cancelled" /\ (call[c].pc = "done" => result[c] # Nil)

\* What the Event is for: as long as fetches succeed and no scout times out, a
\* file is requested once, and every call that returns has the same text.
HealthyFetchIsShared ==
  NoFailure =>
    \A u \in Urls :
      /\ requests[u] <= 1
      /\ \A c \in Calls : call[c].pc = "done" /\ call[c].url = u => result[c] = cache[u]

\* A call that has to wait or fetch comes back to its scout.
CallEnds(c) == call[c].pc \in {"waiting", "fetching"} ~> call[c].pc \in {"done", "cancelled"}
=============================================================================
