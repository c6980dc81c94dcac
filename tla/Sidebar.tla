------------------------------ MODULE Sidebar ------------------------------
(***************************************************************************)
(* How a change of the session list reaches the sidebars that show it:     *)
(* publish_session_list_changed (api/session_events.py) tells every        *)
(* subscribed tab through a queue of one place, then its listener clears   *)
(* the cache of GET /api/sessions (api/route_session_list_cache.py); a tab *)
(* that is told fetches the list (static/sessions.js), from the cache or   *)
(* by a rebuild (_get_cached_session_list_payload, api/routes.py).         *)
(*                                                                         *)
(* A step is a critical section of _SESSION_EVENTS_LOCK, of                *)
(* _SESSIONS_CACHE_LOCK or of a queue, or what happens between two.  The   *)
(* list of a profile is a version number.  A cache entry goes stale by age *)
(* only: the stamp of its sources is constant while a turn streams, and    *)
(* that is when structural changes rely on publishing alone.  Left out:    *)
(* the other components of the cache key, session_id in an event, tabs that *)
(* disconnect (they refetch when they return) and the polls of the page.   *)
(***************************************************************************)
EXTENDS Integers, FiniteSets

CONSTANTS
  Publisher,   \* threads that change a session and publish it
  Tab,         \* browser tabs
  Profile,     \* profiles with sessions
  Everything,  \* the cache key of an all-profiles list
  Unscoped,    \* the scope of a change, or of an event, without a profile
  None,
  MaxChanges,  \* bound of the exploration: changes of any list
  CacheMax,    \* _SESSIONS_CACHE_MAX_ENTRIES
  MaxAttempts  \* times a rebuild is tried, 3 in the code

ASSUME SidebarAssumption ==
  /\ {Everything, Unscoped, None} \intersect Profile = {}
  /\ Tab \intersect (Profile \union {Everything, None}) = {}
  /\ Cardinality({Everything, Unscoped, None}) = 3
  /\ MaxChanges \in Nat /\ CacheMax \in Nat \ {0} /\ MaxAttempts \in Nat \ {0}

Key == Profile \union {Everything}
Scope == Profile \union {Unscoped}
Builder == Tab \union Key   \* a request, or the background rebuild of a key

VARIABLES
  data,      \* the version of each profile's session list
  settled,   \* history: the version whose cache clear is complete
  view,      \* the active profile of each tab and the key it fetches
  queue,     \* _SESSION_EVENTS_SUBSCRIBERS: the event waiting in its queue
  told,      \* tabs with a refresh scheduled
  owed,      \* history: tabs owed a refetch since a change was published
  pub,       \* where each publisher is
  cache,     \* _SESSIONS_CACHE
  globals,   \* _SESSIONS_CACHE_GLOBAL_INVALIDATION_VERSION
  alls,      \* _SESSIONS_CACHE_ALL_PROFILES_INVALIDATION_VERSION
  profiles,  \* _SESSIONS_CACHE_PROFILE_INVALIDATION_VERSION
  inflight,  \* _SESSIONS_CACHE_INFLIGHT
  job,       \* where each request and each background rebuild is
  shown      \* what each tab shows

events == <<queue, told, owed>>
cacheVars == <<cache, globals, alls, profiles, inflight>>
vars == <<data, settled, view, events, pub, cacheVars, job, shown>>

Lists == [Profile -> 0..MaxChanges]

\* The part of the lists, or of their versions, that a fetch of key k returns.
Shows(k) == IF k = Everything THEN Profile ELSE {k}
ListOf(k) == [p \in Profile |-> IF p \in Shows(k) THEN data[p] ELSE 0]
Known(k) == [p \in Profile |-> IF p \in Shows(k) THEN settled[p] ELSE 0]

Resting == [step |-> "idle", scope |-> Unscoped, news |-> Unscoped, profile |-> None,
            version |-> 0, todo |-> {}, tab |-> None, held |-> None]
NoJob == [step |-> "idle", key |-> None, stamp |-> <<0, 0>>, list |-> None,
          tries |-> 0, floor |-> None]

Init ==
  /\ data = [p \in Profile |-> 0] /\ settled = data
  /\ view \in [Tab -> {v \in [profile : Profile, key : Key] : v.key \in {v.profile, Everything}}]
  /\ queue = [b \in Tab |-> None]
  /\ told = {} /\ owed = {}
  /\ pub = [w \in Publisher |-> Resting]
  /\ cache = [k \in Key |-> None]
  /\ globals = 0 /\ alls = 0 /\ profiles = [p \in Profile |-> 0]
  /\ inflight = {}
  /\ job = [r \in Builder |-> NoJob]
  /\ shown = [b \in Tab |-> data]

-----------------------------------------------------------------------------
(* Publishing a change.  The root profile publishes an unscoped event, but *)
(* clears the cache of its own profile only.                               *)

\* _sessionEventProfilesMatch: does a tab act on this event?
Concerns(news, b) == news # None /\ news \in {Unscoped, view[b].profile}

Change(w, p) ==
  /\ pub[w] = Resting
  /\ data[p] < MaxChanges
  /\ data' = [data EXCEPT ![p] = @ + 1]
  /\ \E scope, news \in {p, Unscoped} :
       /\ scope = Unscoped => news = Unscoped
       /\ pub' = [pub EXCEPT ![w] = [Resting EXCEPT !.step = "changed", !.profile = p,
                    !.version = data'[p], !.scope = scope, !.news = news]]
  /\ UNCHANGED <<settled, view, events, cacheVars, job, shown>>

Publish(w) ==
  /\ pub[w].step = "changed"
  /\ pub' = [pub EXCEPT ![w].step = "sending", ![w].todo = Tab]
  /\ owed' = owed \union {b \in Tab : view[b].profile = pub[w].profile}
  /\ UNCHANGED <<data, settled, view, queue, told, cacheVars, job, shown>>

Put(w, b) ==
  /\ pub[w].step = "sending"
  /\ b \in pub[w].todo
  /\ IF queue[b] = None
     THEN /\ queue' = [queue EXCEPT ![b] = pub[w].news]
          /\ pub' = [pub EXCEPT ![w].todo = @ \ {b}]
     ELSE /\ pub' = [pub EXCEPT ![w].step = "full", ![w].tab = b]
          /\ UNCHANGED queue
  /\ UNCHANGED <<data, settled, view, told, owed, cacheVars, job, shown>>

\* The queue was Full: take what waits there, if the tab has not yet.
TakePending(w) ==
  /\ pub[w].step = "full"
  /\ pub' = [pub EXCEPT ![w].step = "merging", ![w].held = queue[pub[w].tab]]
  /\ queue' = [queue EXCEPT ![pub[w].tab] = None]
  /\ UNCHANGED <<data, settled, view, told, owed, cacheVars, job, shown>>

\* _coalesced_sessions_changed_payload
Coalesced(pending, incoming) ==
  IF pending \in {None, incoming} THEN incoming ELSE Unscoped

\* The second put_nowait; when it finds the queue Full the event is dropped.
PutMerged(w) ==
  LET b == pub[w].tab
  IN /\ pub[w].step = "merging"
     /\ queue' = [queue EXCEPT ![b] = IF @ = None THEN Coalesced(pub[w].held, pub[w].news) ELSE @]
     /\ pub' = [pub EXCEPT ![w].step = "sending", ![w].todo = @ \ {b},
                           ![w].tab = None, ![w].held = None]
     /\ UNCHANGED <<data, settled, view, told, owed, cacheVars, job, shown>>

\* Mutant: an unscoped clear forgets the profile versions and counts nothing.
BumpGlobalForgotten(scope) == globals

BumpGlobal(scope) == IF scope = Unscoped THEN globals + 1 ELSE globals

\* Mutant: clearing a profile leaves the all-profiles lists.
ClearedKeysOwn(scope) == IF scope = Unscoped THEN Key ELSE {scope}

ClearedKeys(scope) == IF scope = Unscoped THEN Key ELSE {scope, Everything}

\* The listener: _on_session_list_changed, _session_list_cache_clear.
ClearCache(w) ==
  LET scope == pub[w].scope
      p == pub[w].profile
  IN /\ pub[w].step = "sending"
     /\ pub[w].todo = {}
     /\ globals' = BumpGlobal(scope)
     /\ alls' = alls + 1
     /\ profiles' = [q \in Profile |-> IF scope = Unscoped THEN 0
                       ELSE IF q = scope THEN profiles[q] + 1 ELSE profiles[q]]
     /\ cache' = [k \in Key |-> IF k \in ClearedKeys(scope) THEN None ELSE cache[k]]
     /\ settled' = [settled EXCEPT ![p] = IF @ < pub[w].version THEN pub[w].version ELSE @]
     /\ pub' = [pub EXCEPT ![w] = Resting]
     /\ UNCHANGED <<data, view, events, inflight, job, shown>>

-----------------------------------------------------------------------------
\* The event reaches the tab, which schedules a refresh if it concerns it.
Receive(b) ==
  /\ queue[b] # None
  /\ queue' = [queue EXCEPT ![b] = None]
  /\ told' = IF Concerns(queue[b], b) THEN told \union {b} ELSE told
  /\ UNCHANGED <<data, settled, view, owed, pub, cacheVars, job, shown>>

-----------------------------------------------------------------------------
(* GET /api/sessions.                                                      *)

Stamp(k) == <<globals, IF k = Everything THEN alls ELSE profiles[k]>>

Answer(b, list) ==
  /\ shown' = [shown EXCEPT ![b] = list]
  /\ job' = [job EXCEPT ![b] = NoJob]

Refresh(b) ==
  /\ b \in told
  /\ job[b] = NoJob
  /\ told' = told \ {b} /\ owed' = owed \ {b}
  /\ job' = [job EXCEPT ![b] = [NoJob EXCEPT !.step = "lookup", !.key = view[b].key,
                                             !.floor = Known(view[b].key)]]
  /\ UNCHANGED <<data, settled, view, queue, pub, cacheVars, shown>>

Lookup(b) ==
  LET entry == cache[job[b].key]
  IN /\ job[b].step = "lookup"
     /\ IF entry # None /\ entry.fresh
        THEN Answer(b, entry.list)
        ELSE /\ job' = [job EXCEPT ![b].step = "claim",
                                   ![b].list = IF entry = None THEN None ELSE entry.list]
             /\ UNCHANGED shown
     /\ UNCHANGED <<data, settled, view, events, pub, cacheVars>>

(* An aged list is returned at once and rebuilt in the background; without *)
(* one, the request rebuilds it or waits for the request that does.        *)
Claim(b) ==
  LET k == job[b].key
      aged == job[b].list
  IN /\ job[b].step = "claim"
     /\ inflight' = inflight \union {k}
     /\ IF aged # None
        THEN /\ shown' = [shown EXCEPT ![b] = aged]
             /\ job' = [job EXCEPT ![b] = NoJob,
                          ![k] = IF k \in inflight THEN @
                                 ELSE [NoJob EXCEPT !.step = "stamping", !.key = k]]
        ELSE /\ job' = [job EXCEPT ![b].step = IF k \in inflight THEN "waiting" ELSE "stamping"]
             /\ UNCHANGED shown
     /\ UNCHANGED <<data, settled, view, events, pub, cache, globals, alls, profiles>>

\* The rebuild is done, or 250 ms are over; an aged entry is popped.
WakeUp(b) ==
  LET k == job[b].key
      entry == cache[k]
  IN /\ job[b].step = "waiting"
     /\ IF entry # None /\ entry.fresh
        THEN Answer(b, entry.list) /\ UNCHANGED cache
        ELSE /\ cache' = [cache EXCEPT ![k] = None]
             /\ job' = [job EXCEPT ![b].step = "alone"]
             /\ UNCHANGED shown
     /\ UNCHANGED <<data, settled, view, events, pub, globals, alls, profiles, inflight>>

\* A request that waited in vain builds once, without the claim.
Alone(r) == job[r].tries = MaxAttempts + 1

ReadStamp(r) ==
  /\ job[r].step \in {"stamping", "alone"}
  /\ job' = [job EXCEPT ![r].step = "building", ![r].stamp = Stamp(job[r].key),
               ![r].tries = IF job[r].step = "alone" THEN MaxAttempts + 1 ELSE @ + 1]
  /\ UNCHANGED <<data, settled, view, events, pub, cacheVars, shown>>

Build(r) ==
  /\ job[r].step = "building"
  /\ job' = [job EXCEPT ![r].step = "storing", ![r].list = ListOf(job[r].key)]
  /\ UNCHANGED <<data, settled, view, events, pub, cacheVars, shown>>

\* The builder raised: the claim is released all the same.
BuildFails(r) ==
  /\ job[r].step = "building"
  /\ job' = [job EXCEPT ![r].step = "done", ![r].list = None]
  /\ UNCHANGED <<data, settled, view, events, pub, cacheVars, shown>>

\* Mutant: the list is stored whatever happened while it was built.
StillValidAlways(r) == TRUE

StillValid(r) == Stamp(job[r].key) = job[r].stamp

\* _session_list_cache_set, with the trim to CacheMax entries.
Inserted(k, list) ==
  LET others == {j \in Key \ {k} : cache[j] # None}
      surplus == Cardinality(others) + 1 - CacheMax
  IN {[j \in Key |-> IF j = k THEN [list |-> list, fresh |-> TRUE]
                     ELSE IF j \in gone THEN None ELSE cache[j]] :
       gone \in {g \in SUBSET others : Cardinality(g) = IF surplus > 0 THEN surplus ELSE 0}}

Store(r) ==
  /\ job[r].step = "storing"
  /\ IF StillValid(r)
     THEN /\ cache' \in Inserted(job[r].key, job[r].list)
          /\ job' = [job EXCEPT ![r].step = "done"]
     ELSE /\ job' = [job EXCEPT ![r].step = IF job[r].tries < MaxAttempts
                                            THEN "stamping" ELSE "done"]
          /\ UNCHANGED cache
  /\ UNCHANGED <<data, settled, view, events, pub, globals, alls, profiles, inflight, shown>>

\* Mutant: the claim of a rebuild that raised is kept.
ReleasedBuilt(r) == IF Alone(r) \/ job[r].list = None THEN {} ELSE {job[r].key}

Released(r) == IF Alone(r) THEN {} ELSE {job[r].key}

\* _session_list_cache_done, then the request returns its list.
Finish(r) ==
  /\ job[r].step = "done"
  /\ inflight' = inflight \ Released(r)
  /\ job' = [job EXCEPT ![r] = NoJob]
  /\ shown' = IF r \in Tab /\ job[r].list # None
              THEN [shown EXCEPT ![r] = job[r].list] ELSE shown
  /\ UNCHANGED <<data, settled, view, events, pub, cache, globals, alls, profiles>>

\* The time to live of an entry is over.
Expire(k) ==
  /\ cache[k] # None
  /\ cache[k].fresh
  /\ cache' = [cache EXCEPT ![k].fresh = FALSE]
  /\ UNCHANGED <<data, settled, view, events, pub, globals, alls, profiles, inflight, job, shown>>

-----------------------------------------------------------------------------
Next ==
  \/ \E w \in Publisher :
       \/ Publish(w) \/ TakePending(w) \/ PutMerged(w) \/ ClearCache(w)
       \/ \E p \in Profile : Change(w, p)
       \/ \E b \in Tab : Put(w, b)
  \/ \E b \in Tab :
       Receive(b) \/ Refresh(b) \/ Lookup(b) \/ Claim(b) \/ WakeUp(b)
  \/ \E r \in Builder : ReadStamp(r) \/ Build(r) \/ BuildFails(r) \/ Store(r) \/ Finish(r)
  \/ \E k \in Key : Expire(k)

Spec == Init /\ [][Next]_vars

-----------------------------------------------------------------------------
(* Types; and a rebuild is claimed exactly while somebody is at it, so no  *)
(* request waits for a rebuild that will not come (the finally of          *)
(* _get_cached_session_list_payload).                                      *)
Owns(r) == job[r].step \in {"stamping", "building", "storing", "done"} /\ ~Alone(r)

SidebarTypeOK ==
  /\ data \in Lists /\ settled \in Lists
  /\ queue \in [Tab -> Scope \union {None}]
  /\ told \subseteq Tab /\ owed \subseteq Tab
  /\ \A k \in Key : cache[k] = None \/ cache[k] \in [list : Lists, fresh : BOOLEAN]
  /\ Cardinality({k \in Key : cache[k] # None}) <= CacheMax
  /\ inflight = {job[r].key : r \in {s \in Builder : Owns(s)}}
  /\ \A r, s \in Builder : Owns(r) /\ Owns(s) /\ job[r].key = job[s].key => r = s

(* "A rename/archive/delete clear that lands during projection" cannot "be *)
(* undone by this stale write" (api/route_session_list_cache.py,           *)
(* _session_list_cache_set): no entry, fresh or aged, is older than a      *)
(* change whose clear is complete.                                         *)
ClearsAreFinal ==
  \A k \in Key : cache[k] # None => \A p \in Shows(k) : cache[k].list[p] >= settled[p]

(* A tab gets to see at least what was settled when it asked, whichever of *)
(* the paths answers: hit, aged hit, own rebuild, another's, fallback.     *)
AnswersAreCurrent ==
  [][\A b \in Tab :
       job[b] # NoJob /\ shown[b] # shown'[b] =>
         \A p \in Shows(job[b].key) : shown'[b][p] >= job[b].floor[p]]_vars

\* Is an event that concerns tab b still on its way to it?
OnItsWay(b) ==
  \/ b \in told
  \/ Concerns(queue[b], b)
  \/ \E w \in Publisher :
       \/ b \in pub[w].todo /\ Concerns(pub[w].news, b)
       \/ b = pub[w].tab /\ Concerns(pub[w].held, b)

(* "Merge bounded-queue refresh events without dropping profile-relevant   *)
(* work" (api/session_events.py, _coalesced_sessions_changed_payload): a   *)
(* tab that is owed a refetch will do one.  Not so when the coalescing of  *)
(* two publishers overlaps: the second put finds the queue full again, and *)
(* drops what it merged (publish_session_list_changed).                    *)
TabsAreTold == \A b \in owed : OnItsWay(b)
=============================================================================
