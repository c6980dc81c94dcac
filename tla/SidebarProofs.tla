--------------------------- MODULE SidebarProofs ---------------------------
(***************************************************************************)
(* Proofs about module Sidebar, for every set of publishers, tabs and      *)
(* profiles and any number of changes: a cleared list never comes back, no *)
(* tab is answered with less than was settled when it asked, and every     *)
(* rebuild that is claimed has somebody at it.                             *)
(***************************************************************************)
EXTENDS Sidebar, FiniteSetTheorems, TLAPS

Entry == [list : Lists, fresh : BOOLEAN]

Task == [step : {"idle", "changed", "sending", "full", "merging"},
         scope : Scope, news : Scope, profile : Profile \union {None},
         version : 0..MaxChanges, todo : SUBSET Tab,
         tab : Tab \union {None}, held : Scope \union {None}]

Work == [step : {"idle", "lookup", "claim", "waiting", "alone", "stamping",
                 "building", "storing", "done"},
         key : Key \union {None}, stamp : Nat \X Nat, list : Lists \union {None},
         tries : Nat, floor : Lists \union {None}]

DataOK ==
  /\ data \in Lists /\ settled \in Lists
  /\ \A p \in Profile : settled[p] <= data[p]
  /\ globals \in Nat /\ alls \in Nat /\ profiles \in [Profile -> Nat]
  /\ view \in [Tab -> [profile : Profile, key : Key]]
  /\ cache \in [Key -> Entry \union {None}]
  /\ shown \in [Tab -> Lists]
  /\ queue \in [Tab -> Scope \union {None}]

\* A publisher clears what its change made stale.
PubOK ==
  /\ pub \in [Publisher -> Task]
  /\ \A w \in Publisher : pub[w].step # "idle" =>
       /\ pub[w].profile \in Profile
       /\ pub[w].scope \in {pub[w].profile, Unscoped}
       /\ pub[w].version <= data[pub[w].profile]
       /\ pub[w].step \in {"full", "merging"} => pub[w].tab \in Tab

\* The version counted for key k within one global version.
Local(k) == IF k = Everything THEN alls ELSE profiles[k]

(* The stamp of a list being built is not ahead of the present one, in the *)
(* order in which clears advance it; so a list whose stamp still fits was  *)
(* built after every clear that is complete.                               *)
NotAhead(r) ==
  /\ job[r].stamp[1] <= globals
  /\ job[r].stamp[1] = globals => job[r].stamp[2] <= Local(job[r].key)

Built(r) ==
  /\ job[r].list \in Lists
  /\ job[r].stamp = <<globals, Local(job[r].key)>> =>
       \A p \in Shows(job[r].key) : job[r].list[p] >= settled[p]

\* What a request may answer is not older than what was settled at its start.
Asked(b) ==
  /\ job[b].floor \in Lists
  /\ \A p \in Shows(job[b].key) : job[b].floor[p] <= settled[p]
  /\ job[b].list # None =>
       \A p \in Shows(job[b].key) : job[b].list[p] >= job[b].floor[p]

JobOK(r) ==
  /\ job[r].step # "idle" => job[r].key \in Key
  /\ job[r].step \in {"building", "storing"} => NotAhead(r)
  /\ job[r].step = "storing" => Built(r)
  /\ r \in Tab /\ job[r].step # "idle" => Asked(r)

JobsOK == job \in [Builder -> Work] /\ \A r \in Builder : JobOK(r)

SInv == DataOK /\ PubOK /\ JobsOK /\ ClearsAreFinal

-----------------------------------------------------------------------------
LEMMA KeysApart ==
  /\ Everything \notin Profile /\ Unscoped \notin Profile /\ None \notin Profile
  /\ \A b \in Tab : b \notin Key
  /\ MaxChanges \in Nat
  BY SidebarAssumption DEF Key

LEMMA ShownProfiles ==
  ASSUME NEW k \in Key
  PROVE  /\ Shows(k) \subseteq Profile
         /\ k # Everything => k \in Profile /\ Shows(k) = {k}
  BY KeysApart DEF Key, Shows

LEMMA InitOK == Init => SInv
  <1> SUFFICES ASSUME Init PROVE SInv
    OBVIOUS
  <1>1. DataOK
    BY KeysApart DEF Init, DataOK, Lists, Key
  <1>2. PubOK
    BY KeysApart DEF Init, PubOK, Resting, Task, Scope
  <1>3. NoJob \in Work /\ NoJob.step = "idle"
    BY DEF NoJob, Work
  <1>4. JobsOK
    BY <1>3 DEF Init, JobsOK, JobOK
  <1>5. ClearsAreFinal
    BY DEF Init, ClearsAreFinal
  <1> QED
    BY <1>1, <1>2, <1>3, <1>4, <1>5 DEF SInv

-----------------------------------------------------------------------------
(* Publishing up to the clear touches neither the cache nor a request.     *)
LEMMA ChangePreserves ==
  ASSUME SInv, NEW w \in Publisher, NEW p \in Profile, Change(w, p)
  PROVE  SInv'
  <1>1. /\ data' = [data EXCEPT ![p] = @ + 1]
        /\ data \in Lists /\ data[p] \in Nat /\ data[p] < MaxChanges
    BY KeysApart DEF SInv, DataOK, Lists, Change
  <1>2. /\ data' \in Lists
        /\ data'[p] = data[p] + 1
        /\ \A q \in Profile : data[q] <= data'[q]
    BY <1>1, KeysApart DEF Lists
  <1>3. DataOK'
    BY <1>2, KeysApart DEF SInv, DataOK, Change, cacheVars, events, Lists
  <1>4. PubOK'
    <2>1. PICK scope, news \in {p, Unscoped} :
            pub' = [pub EXCEPT ![w] = [Resting EXCEPT !.step = "changed", !.profile = p,
                      !.version = data'[p], !.scope = scope, !.news = news]]
      BY DEF Change
    <2> DEFINE new == [Resting EXCEPT !.step = "changed", !.profile = p,
                         !.version = data'[p], !.scope = scope, !.news = news]
    <2>2. data'[p] \in 0..MaxChanges
      BY <1>2 DEF Lists
    <2>3. /\ new \in Task /\ new.profile = p /\ new.scope = scope
          /\ new.version = data'[p] /\ new.step = "changed"
      BY <2>2 DEF Resting, Task, Scope
    <2>4. \A v \in Publisher : pub'[v] = IF v = w THEN new ELSE pub[v]
      BY <2>1 DEF SInv, PubOK
    <2>5. pub' \in [Publisher -> Task]
      BY <2>1, <2>3 DEF SInv, PubOK
    <2>6. ASSUME NEW v \in Publisher, pub'[v].step # "idle"
          PROVE  /\ pub'[v].profile \in Profile
                 /\ pub'[v].scope \in {pub'[v].profile, Unscoped}
                 /\ pub'[v].version <= data'[pub'[v].profile]
                 /\ pub'[v].step \in {"full", "merging"} => pub'[v].tab \in Tab
      <3>1. CASE v = w
        <4>1. data'[p] \in Int
          BY <2>2
        <4> QED
          <5> HIDE DEF new
          <5> QED
            BY <3>1, <2>3, <2>4, <4>1
      <3>2. CASE v # w
        <4>1. /\ pub[v].profile \in Profile
              /\ pub[v].scope \in {pub[v].profile, Unscoped}
              /\ pub[v].version <= data[pub[v].profile]
              /\ pub[v].version \in Int
              /\ pub[v].step \in {"full", "merging"} => pub[v].tab \in Tab
          BY <3>2, <2>4, <2>6 DEF SInv, PubOK, Task
        <4>2. data[pub[v].profile] \in Int /\ data'[pub[v].profile] \in Int
          BY <4>1, <1>1, <1>2 DEF Lists
        <4> QED
          BY <3>2, <2>4, <4>1, <4>2, <1>2
      <3> QED
        BY <3>1, <3>2
    <2> QED
      BY <2>5, <2>6 DEF PubOK
  <1>5. JobsOK' /\ ClearsAreFinal'
    BY DEF SInv, JobsOK, JobOK, NotAhead, Local, Built, Asked, ClearsAreFinal, Change,
          cacheVars, events
  <1> QED
    BY <1>3, <1>4, <1>5 DEF SInv

(* A publisher on its way to its clear: it forgets nothing of what it      *)
(* publishes, and only the queues change.                                  *)
LEMMA SendingPreserves ==
  ASSUME SInv, NEW w \in Publisher, NEW new \in Task,
         pub[w].step # "idle",
         pub' = [pub EXCEPT ![w] = new],
         new.profile = pub[w].profile,
         new.scope = pub[w].scope,
         new.version = pub[w].version,
         new.step \in {"full", "merging"} => new.tab \in Tab,
         queue' \in [Tab -> Scope \union {None}],
         UNCHANGED <<data, settled, view, cacheVars, job, shown>>
  PROVE  SInv'
  <1>1. DataOK'
    BY DEF SInv, DataOK, cacheVars
  <1>2. PubOK'
    BY DEF SInv, PubOK
  <1>3. JobsOK' /\ ClearsAreFinal'
    BY DEF SInv, JobsOK, JobOK, NotAhead, Local, Built, Asked, ClearsAreFinal, cacheVars
  <1> QED
    BY <1>1, <1>2, <1>3 DEF SInv

LEMMA PublishPreserves ==
  ASSUME SInv, NEW w \in Publisher, Publish(w) PROVE SInv'
  <1> DEFINE new == [pub[w] EXCEPT !.step = "sending", !.todo = Tab]
  <1>1. /\ pub \in [Publisher -> Task] /\ pub[w].step = "changed"
        /\ queue' \in [Tab -> Scope \union {None}]
    BY DEF SInv, PubOK, DataOK, Publish
  <1>2. pub' = [pub EXCEPT ![w] = new]
    BY <1>1 DEF Publish
  <1>3. new \in Task
    BY ZenonT(60), <1>1 DEF Task
  <1> QED
    BY ZenonT(60), <1>1, <1>2, <1>3, SendingPreserves DEF Publish, Task

LEMMA PutPreserves ==
  ASSUME SInv, NEW w \in Publisher, NEW b \in Tab, Put(w, b) PROVE SInv'
  <1> DEFINE kept == [pub[w] EXCEPT !.todo = @ \ {b}]
             full == [pub[w] EXCEPT !.step = "full", !.tab = b]
  <1>1. /\ pub \in [Publisher -> Task] /\ pub[w].step = "sending"
        /\ queue \in [Tab -> Scope \union {None}]
    BY DEF SInv, PubOK, DataOK, Put
  <1>2. /\ pub' \in {[pub EXCEPT ![w] = kept], [pub EXCEPT ![w] = full]}
        /\ queue' \in {queue, [queue EXCEPT ![b] = pub[w].news]}
    BY <1>1 DEF Put
  <1>3. kept \in Task /\ full \in Task /\ pub[w].news \in Scope
    BY ZenonT(60), <1>1 DEF Task
  <1>4. queue' \in [Tab -> Scope \union {None}]
    BY <1>1, <1>2, <1>3
  <1>5. CASE pub' = [pub EXCEPT ![w] = kept]
    BY <1>1, <1>3, <1>4, <1>5, SendingPreserves DEF Put, Task
  <1>6. CASE pub' = [pub EXCEPT ![w] = full]
    BY <1>1, <1>3, <1>4, <1>6, SendingPreserves DEF Put, Task
  <1> QED
    BY <1>2, <1>5, <1>6

LEMMA TakePendingPreserves ==
  ASSUME SInv, NEW w \in Publisher, TakePending(w) PROVE SInv'
  <1> DEFINE new == [pub[w] EXCEPT !.step = "merging", !.held = queue[pub[w].tab]]
  <1>1. /\ pub \in [Publisher -> Task] /\ pub[w].step = "full"
        /\ queue \in [Tab -> Scope \union {None}]
        /\ pub[w].tab \in Tab
    BY DEF SInv, PubOK, DataOK, TakePending
  <1>2. /\ pub' = [pub EXCEPT ![w] = new]
        /\ queue' \in [Tab -> Scope \union {None}]
    BY <1>1 DEF TakePending
  <1>3. new \in Task
    BY ZenonT(60), <1>1 DEF Task
  <1> QED
    BY ZenonT(60), <1>1, <1>2, <1>3, SendingPreserves DEF TakePending, Task

LEMMA PutMergedPreserves ==
  ASSUME SInv, NEW w \in Publisher, PutMerged(w) PROVE SInv'
  <1> DEFINE new == [pub[w] EXCEPT !.step = "sending", !.todo = @ \ {pub[w].tab},
                                   !.tab = None, !.held = None]
             sum == Coalesced(pub[w].held, pub[w].news)
  <1>1. /\ pub \in [Publisher -> Task] /\ pub[w].step = "merging"
        /\ queue \in [Tab -> Scope \union {None}]
        /\ pub[w].tab \in Tab
    BY DEF SInv, PubOK, DataOK, PutMerged
  <1>2. sum \in Scope
    BY <1>1 DEF Coalesced, Task, Scope
  <1>3. queue' \in {queue, [queue EXCEPT ![pub[w].tab] = sum]}
    BY <1>1 DEF PutMerged
  <1>4. queue' \in [Tab -> Scope \union {None}]
    BY <1>1, <1>2, <1>3
  <1>5. pub' = [pub EXCEPT ![w] = new]
    BY <1>1 DEF PutMerged
  <1>6. new \in Task
    BY ZenonT(60), <1>1 DEF Task
  <1>7. /\ new.profile = pub[w].profile /\ new.scope = pub[w].scope
        /\ new.version = pub[w].version /\ new.step = "sending"
    BY <1>1 DEF Task
  <1>8. UNCHANGED <<data, settled, view, cacheVars, job, shown>>
    BY DEF PutMerged
  <1> HIDE DEF new, sum
  <1> QED
    BY <1>1, <1>4, <1>5, <1>6, <1>7, <1>8, SendingPreserves

LEMMA ReceivePreserves ==
  ASSUME SInv, NEW b \in Tab, Receive(b) PROVE SInv'
  <1>1. DataOK'
    BY DEF SInv, DataOK, Receive, cacheVars
  <1>2. PubOK' /\ JobsOK' /\ ClearsAreFinal'
    BY DEF SInv, PubOK, JobsOK, JobOK, NotAhead, Local, Built, Asked, ClearsAreFinal,
           Receive, cacheVars
  <1> QED
    BY <1>1, <1>2 DEF SInv

-----------------------------------------------------------------------------
(* The clear: what it leaves in the cache was built after it.              *)
LEMMA ClearCachePreserves ==
  ASSUME SInv, NEW w \in Publisher, ClearCache(w) PROVE SInv'
  <1>0. PICK scope, p, version :
          scope = pub[w].scope /\ p = pub[w].profile /\ version = pub[w].version
    OBVIOUS
  <1>1. /\ p \in Profile /\ scope \in {p, Unscoped}
        /\ version \in Nat /\ version \in 0..MaxChanges /\ version <= data[p]
    BY <1>0, KeysApart DEF SInv, PubOK, Task, ClearCache
  <1>2. /\ data \in Lists /\ settled \in Lists
        /\ globals \in Nat /\ alls \in Nat /\ profiles \in [Profile -> Nat]
        /\ cache \in [Key -> Entry \union {None}]
        /\ \A q \in Profile : settled[q] <= data[q]
    BY DEF SInv, DataOK
  <1>3. /\ settled' \in Lists
        /\ \A q \in Profile : settled[q] <= settled'[q]
        /\ \A q \in Profile : settled'[q] <= data[q]
        /\ \A q \in Profile : q # p => settled'[q] = settled[q]
    BY <1>0, <1>1, <1>2, KeysApart DEF ClearCache, Lists
  <1>4. /\ globals' \in Nat /\ alls' \in Nat /\ profiles' \in [Profile -> Nat]
        /\ scope = Unscoped => globals' = globals + 1
        /\ scope # Unscoped => globals' = globals
    BY <1>0, <1>1, <1>2 DEF ClearCache, BumpGlobal
  <1>5. cache' \in [Key -> Entry \union {None}]
    BY <1>2 DEF ClearCache
  <1>6. /\ Local(Everything)' = Local(Everything) + 1
        /\ scope # Unscoped => /\ Local(p)' = Local(p) + 1
                               /\ \A q \in Profile \ {p} : Local(q)' = Local(q)
    BY <1>0, <1>1, <1>2, KeysApart DEF ClearCache, Local
  <1>7. DataOK'
    BY <1>2, <1>3, <1>4, <1>5 DEF SInv, DataOK, ClearCache, events
  <1>8. PubOK'
    <2>1. Resting \in Task /\ Resting.step = "idle"
      BY KeysApart DEF Resting, Task, Scope
    <2> QED
      BY <2>1 DEF SInv, PubOK, ClearCache
  <1>9. ClearsAreFinal'
    <2> SUFFICES ASSUME NEW k \in Key, cache'[k] # None, NEW q \in Shows(k)
                 PROVE  cache'[k].list[q] >= settled'[q]
      BY DEF ClearsAreFinal
    <2>1. k \notin ClearedKeys(scope) /\ cache'[k] = cache[k]
      BY <1>0 DEF ClearCache
    <2>2. k # p /\ k # Everything
      BY <1>1, <2>1 DEF ClearedKeys, Key
    <2>3. q = k /\ q \in Profile
      BY <2>2, ShownProfiles
    <2> QED
      BY <1>3, <2>1, <2>2, <2>3 DEF SInv, ClearsAreFinal
  <1>10. JobsOK'
    <2>1. job' = job /\ job \in [Builder -> Work]
      BY DEF SInv, JobsOK, ClearCache
    <2> SUFFICES ASSUME NEW r \in Builder PROVE JobOK(r)'
      BY <2>1 DEF JobsOK
    <2>0. PICK k : k = job[r].key
      OBVIOUS
    <2>2. JobOK(r)
      BY DEF SInv, JobsOK
    <2>3. job[r].stamp[1] \in Nat /\ job[r].stamp[2] \in Nat
      BY <2>1 DEF Work
    <2>4. ASSUME job[r].step # "idle", NotAhead(r)
          PROVE  /\ NotAhead(r)'
                 /\ job[r].stamp = <<globals', Local(k)'>> =>
                      /\ scope # Unscoped /\ k # p /\ k # Everything
                      /\ job[r].stamp = <<globals, Local(k)>>
      <3>1. k \in Key
        BY <2>0, <2>2, <2>4 DEF JobOK
      <3>2. Local(k) \in Nat /\ Local(k)' \in Nat
        BY <1>2, <1>4, <3>1 DEF Local, Key
      <3>3. /\ job[r].stamp[1] <= globals
            /\ job[r].stamp[1] = globals => job[r].stamp[2] <= Local(k)
        BY <2>0, <2>4 DEF NotAhead
      <3>4. scope # Unscoped => Local(k) <= Local(k)'
        BY <1>6, <3>1, <3>2, KeysApart DEF Key
      <3>5. /\ job'[r].stamp[1] <= globals'
            /\ job'[r].stamp[1] = globals' => job'[r].stamp[2] <= Local(k)'
        BY <1>2, <1>4, <2>1, <2>3, <3>2, <3>3, <3>4
      <3>6. ASSUME job[r].stamp = <<globals', Local(k)'>>
            PROVE  /\ scope # Unscoped /\ k # p /\ k # Everything
                   /\ job[r].stamp = <<globals, Local(k)>>
        <4>1. job[r].stamp[1] = globals' /\ job[r].stamp[2] = Local(k)'
          BY <3>6
        <4>2. scope # Unscoped
          BY <1>2, <1>4, <3>3, <4>1
        <4>3. globals' = globals /\ Local(k)' <= Local(k)
          BY <1>4, <3>3, <4>1, <4>2
        <4>4. k # p /\ k # Everything
          BY <1>6, <3>2, <4>2, <4>3
        <4> QED
          BY <1>6, <3>1, <3>6, <4>2, <4>3, <4>4 DEF Key
      <3> QED
        BY <2>0, <2>1, <3>5, <3>6 DEF NotAhead
    <2>5. ASSUME job[r].step = "storing" PROVE Built(r)'
      <3>1. Built(r) /\ NotAhead(r) /\ k \in Key
        BY <2>0, <2>2, <2>5 DEF JobOK
      <3>2. ASSUME job[r].stamp = <<globals', Local(k)'>>, NEW q \in Shows(k)
            PROVE  job[r].list[q] >= settled'[q]
        <4>1. k # p /\ k # Everything /\ job[r].stamp = <<globals, Local(k)>>
          BY <2>4, <2>5, <3>1, <3>2
        <4>2. q = k /\ q \in Profile
          BY <3>1, <3>2, <4>1, ShownProfiles
        <4> QED
          BY <1>3, <3>1, <2>0, <4>1, <4>2 DEF Built
      <3> QED
        BY <2>0, <2>1, <3>1, <3>2 DEF Built
    <2>6. ASSUME Asked(r), k \in Key PROVE Asked(r)'
      <3>1. \A q \in Shows(k) : q \in Profile
        BY <2>6, ShownProfiles
      <3>2. job[r].floor \in Lists /\ \A q \in Shows(k) : job[r].floor[q] <= settled[q]
        BY <2>0, <2>6 DEF Asked
      <3>3. \A q \in Shows(k) : job[r].floor[q] <= settled'[q]
        BY <1>2, <1>3, <3>1, <3>2, KeysApart DEF Lists
      <3> QED
        BY <2>0, <2>1, <2>6, <3>3 DEF Asked
    <2> QED
      BY <2>0, <2>1, <2>2, <2>4, <2>5, <2>6 DEF JobOK
  <1> QED
    BY <1>7, <1>8, <1>9, <1>10 DEF SInv

-----------------------------------------------------------------------------
(* Fetching.  A step of a request or of a rebuild keeps the invariant if   *)
(* the jobs it changes are sound, and the cache stays current.             *)
LEMMA FetchingPreserves ==
  ASSUME SInv,
         cache' \in [Key -> Entry \union {None}],
         shown' \in [Tab -> Lists],
         queue' \in [Tab -> Scope \union {None}],
         job' \in [Builder -> Work],
         \A r \in Builder : job'[r] = job[r] \/ JobOK(r)',
         ClearsAreFinal',
         UNCHANGED <<data, settled, view, pub, globals, alls, profiles>>
  PROVE  SInv'
  <1>1. DataOK'
    BY DEF SInv, DataOK
  <1>2. PubOK'
    BY DEF SInv, PubOK
  <1>3. ASSUME NEW r \in Builder, job'[r] = job[r] PROVE JobOK(r)'
    BY <1>3 DEF SInv, JobsOK, JobOK, NotAhead, Local, Built, Asked
  <1>4. JobsOK'
    BY <1>3 DEF JobsOK
  <1> QED
    BY <1>1, <1>2, <1>4 DEF SInv

\* What the invariant says of one job.
LEMMA JobFacts ==
  ASSUME SInv, NEW r \in Builder
  PROVE  /\ job \in [Builder -> Work] /\ job[r] \in Work /\ JobOK(r)
         /\ NoJob \in Work /\ NoJob.step = "idle"
         /\ cache \in [Key -> Entry \union {None}]
         /\ shown \in [Tab -> Lists]
         /\ queue \in [Tab -> Scope \union {None}]
         /\ data \in Lists /\ settled \in Lists
         /\ ClearsAreFinal
         /\ job[r].step # "idle" =>
              /\ job[r].key \in Key
              /\ Shows(job[r].key) \subseteq Profile
  BY ShownProfiles DEF SInv, DataOK, JobsOK, JobOK, NoJob, Work

LEMMA IdleIsOK ==
  ASSUME NEW r, job'[r].step = "idle" PROVE JobOK(r)'
  BY DEF JobOK

\* A tab that starts a fetch is owed what was settled.
LEMMA RefreshPreserves ==
  ASSUME SInv, NEW b \in Tab, Refresh(b) PROVE SInv'
  <1>0. b \in Builder
    BY DEF Builder
  <1>1. PICK k : k = view[b].key
    OBVIOUS
  <1>2. PICK new : new = [NoJob EXCEPT !.step = "lookup", !.key = k, !.floor = Known(k)]
    OBVIOUS
  <1>3. k \in Key /\ Shows(k) \subseteq Profile
    BY <1>1, ShownProfiles DEF SInv, DataOK
  <1>4. /\ Known(k) \in Lists
        /\ \A p \in Shows(k) : Known(k)[p] = settled[p] /\ settled[p] \in Nat
    BY <1>0, <1>3, JobFacts, KeysApart DEF Known, Lists
  <1>5. /\ new \in Work /\ new.step = "lookup" /\ new.key = k
        /\ new.floor = Known(k) /\ new.list = None
    BY <1>2, <1>3, <1>4 DEF NoJob, Work
  <1>6. job' = [job EXCEPT ![b] = new]
    BY <1>1, <1>2 DEF Refresh
  <1>7. job' \in [Builder -> Work] /\ job'[b] = new
    BY <1>0, <1>5, <1>6, JobFacts
  <1>8. JobOK(b)'
    <2>1. settled' = settled
      BY DEF Refresh
    <2>2. Asked(b)'
      BY <1>4, <1>5, <1>7, <2>1 DEF Asked, Lists
    <2> QED
      BY <1>3, <1>5, <1>7, <2>2 DEF JobOK
  <1>9. \A r \in Builder : job'[r] = job[r] \/ JobOK(r)'
    BY <1>0, <1>6, <1>8, JobFacts
  <1>10. ClearsAreFinal'
    BY DEF SInv, ClearsAreFinal, Refresh, cacheVars
  <1> QED
    BY <1>0, <1>7, <1>9, <1>10, JobFacts, FetchingPreserves DEF Refresh, cacheVars

(* A current entry is at least what was settled when the request began:    *)
(* the answer of a hit, and the aged list that Lookup keeps.               *)
LEMMA EntryIsCurrent ==
  ASSUME SInv, NEW b \in Tab, job[b].step # "idle",
         NEW entry, entry = cache[job[b].key], entry # None
  PROVE  /\ entry \in Entry
         /\ \A p \in Shows(job[b].key) : entry.list[p] >= job[b].floor[p]
  <1>0. b \in Builder
    BY DEF Builder
  <1>1. /\ Asked(b) /\ job[b].key \in Key /\ Shows(job[b].key) \subseteq Profile
        /\ entry \in Entry
    BY <1>0, JobFacts DEF JobOK
  <1>2. \A p \in Shows(job[b].key) :
          /\ entry.list[p] >= settled[p] /\ job[b].floor[p] <= settled[p]
          /\ settled[p] \in Int /\ job[b].floor[p] \in Int /\ entry.list[p] \in Int
    BY <1>0, <1>1, JobFacts, KeysApart DEF ClearsAreFinal, Asked, Entry, Lists
  <1> QED
    BY <1>1, <1>2

LEMMA LookupPreserves ==
  ASSUME SInv, NEW b \in Tab, Lookup(b) PROVE SInv'
  <1>0. b \in Builder /\ job[b].step = "lookup"
    BY DEF Builder, Lookup
  <1>1. PICK entry : entry = cache[job[b].key]
    OBVIOUS
  <1>2. ClearsAreFinal'
    BY DEF SInv, ClearsAreFinal, Lookup, cacheVars
  <1>3. CASE entry # None /\ entry.fresh
    <2>1. shown' = [shown EXCEPT ![b] = entry.list] /\ job' = [job EXCEPT ![b] = NoJob]
      BY <1>1, <1>3 DEF Lookup, Answer
    <2>2. shown' \in [Tab -> Lists]
      BY <1>0, <1>1, <1>3, <2>1, EntryIsCurrent, JobFacts DEF Entry
    <2>3. job' \in [Builder -> Work] /\ \A r \in Builder : job'[r] = job[r] \/ JobOK(r)'
      BY <1>0, <2>1, JobFacts, IdleIsOK
    <2> QED
      BY <1>0, <1>2, <2>2, <2>3, JobFacts, FetchingPreserves DEF Lookup, cacheVars, events
  <1>4. CASE ~(entry # None /\ entry.fresh)
    <2>1. PICK aged : aged = IF entry = None THEN None ELSE entry.list
      OBVIOUS
    <2>2. PICK new : new = [job[b] EXCEPT !.step = "claim", !.list = aged]
      OBVIOUS
    <2>3. job' = [job EXCEPT ![b] = new] /\ UNCHANGED shown
      BY <1>0, <1>1, <1>4, <2>1, <2>2, JobFacts DEF Lookup
    <2>4. aged \in Lists \union {None}
      BY <1>0, <1>1, <2>1, EntryIsCurrent DEF Entry
    <2>5. /\ new \in Work /\ new.step = "claim" /\ new.key = job[b].key
          /\ new.floor = job[b].floor /\ new.list = aged
      BY ZenonT(60), <1>0, <2>2, <2>4, JobFacts DEF Work
    <2>6. job' \in [Builder -> Work] /\ job'[b] = new
      BY <1>0, <2>3, <2>5, JobFacts
    <2>7. Asked(b) /\ job[b].key \in Key
      BY <1>0, JobFacts DEF JobOK
    <2>8. JobOK(b)'
      BY <1>0, <1>1, <2>1, <2>5, <2>6, <2>7, EntryIsCurrent DEF JobOK, Asked, Lookup
    <2>9. \A r \in Builder : job'[r] = job[r] \/ JobOK(r)'
      BY <1>0, <2>3, <2>8, JobFacts
    <2> QED
      BY <1>0, <1>2, <2>3, <2>6, <2>9, JobFacts, FetchingPreserves
         DEF Lookup, cacheVars, events
  <1> QED
    BY <1>3, <1>4

LEMMA ClaimPreserves ==
  ASSUME SInv, NEW b \in Tab, Claim(b) PROVE SInv'
  <1>0. b \in Builder /\ job[b].step = "claim"
    BY DEF Builder, Claim
  <1>1. PICK k, aged : k = job[b].key /\ aged = job[b].list
    OBVIOUS
  <1>2. k \in Key /\ k \in Builder /\ k \notin Tab /\ k # b
    BY <1>0, <1>1, JobFacts, KeysApart DEF Builder
  <1>3. ClearsAreFinal'
    BY DEF SInv, ClearsAreFinal, Claim
  <1>4. CASE aged # None
    <2>1. PICK new : new = IF k \in inflight THEN job[k]
                           ELSE [NoJob EXCEPT !.step = "stamping", !.key = k]
      OBVIOUS
    <2>2. /\ shown' = [shown EXCEPT ![b] = aged]
          /\ job' = [job EXCEPT ![b] = NoJob, ![k] = new]
      BY <1>0, <1>1, <1>2, <1>4, <2>1, JobFacts DEF Claim
    <2>3. aged \in Lists
      BY <1>0, <1>1, <1>4, JobFacts DEF Work
    <2>4. new \in Work /\ (new # job[k] => new.step = "stamping" /\ new.key = k)
      <3>1. [NoJob EXCEPT !.step = "stamping", !.key = k] \in Work
        BY <1>2 DEF NoJob, Work
      <3>2. job[k] \in Work
        BY <1>2, JobFacts
      <3>3. CASE k \in inflight
        BY <2>1, <3>2, <3>3
      <3>4. CASE k \notin inflight
        <4>1. new = [NoJob EXCEPT !.step = "stamping", !.key = k]
          BY <2>1, <3>4
        <4> QED
          BY <3>1, <4>1 DEF NoJob
      <3> QED
        BY <3>3, <3>4
    <2>5. shown' \in [Tab -> Lists] /\ job' \in [Builder -> Work]
      BY <1>0, <1>2, <2>2, <2>3, <2>4, JobFacts
    <2>6. \A r \in Builder : job'[r] = IF r = k THEN new ELSE IF r = b THEN NoJob ELSE job[r]
      BY <1>0, <1>2, <2>2, JobFacts
    <2>7. JobOK(b)'
      BY <1>0, <1>2, <2>6, JobFacts, IdleIsOK
    <2>8. new # job[k] => JobOK(k)'
      BY <1>2, <2>4, <2>6 DEF JobOK
    <2>9. \A r \in Builder : job'[r] = job[r] \/ JobOK(r)'
      BY <1>0, <1>2, <2>6, <2>7, <2>8
    <2> QED
      BY <1>0, <1>3, <2>5, <2>9, JobFacts, FetchingPreserves DEF Claim, events
  <1>5. CASE aged = None
    <2>1. PICK new : new = [job[b] EXCEPT !.step = IF k \in inflight THEN "waiting"
                                                   ELSE "stamping"]
      OBVIOUS
    <2>2. job' = [job EXCEPT ![b] = new] /\ UNCHANGED shown
      BY <1>0, <1>1, <1>5, <2>1, JobFacts DEF Claim
    <2>3. /\ new \in Work /\ new.step \in {"waiting", "stamping"} /\ new.key = job[b].key
          /\ new.floor = job[b].floor /\ new.list = job[b].list
      BY <1>0, <2>1, JobFacts DEF Work
    <2>4. job' \in [Builder -> Work] /\ job'[b] = new
      BY <1>0, <2>2, <2>3, JobFacts
    <2>5. Asked(b) /\ job[b].key \in Key
      BY <1>0, JobFacts DEF JobOK
    <2>6. JobOK(b)'
      BY <2>3, <2>4, <2>5 DEF JobOK, Asked, Claim
    <2>7. \A r \in Builder : job'[r] = job[r] \/ JobOK(r)'
      BY <1>0, <2>2, <2>6, JobFacts
    <2> QED
      BY <1>0, <1>3, <2>2, <2>4, <2>7, JobFacts, FetchingPreserves DEF Claim, events
  <1> QED
    BY <1>4, <1>5

LEMMA WakeUpPreserves ==
  ASSUME SInv, NEW b \in Tab, WakeUp(b) PROVE SInv'
  <1>0. b \in Builder /\ job[b].step = "waiting"
    BY DEF Builder, WakeUp
  <1>1. PICK k, entry : k = job[b].key /\ entry = cache[k]
    OBVIOUS
  <1>2. CASE entry # None /\ entry.fresh
    <2>1. /\ shown' = [shown EXCEPT ![b] = entry.list] /\ job' = [job EXCEPT ![b] = NoJob]
          /\ UNCHANGED cache
      BY <1>1, <1>2 DEF WakeUp, Answer
    <2>2. shown' \in [Tab -> Lists]
      BY <1>0, <1>1, <1>2, <2>1, EntryIsCurrent, JobFacts DEF Entry
    <2>3. job' \in [Builder -> Work] /\ \A r \in Builder : job'[r] = job[r] \/ JobOK(r)'
      BY <1>0, <2>1, JobFacts, IdleIsOK
    <2>4. ClearsAreFinal'
      BY <2>1 DEF SInv, ClearsAreFinal, WakeUp
    <2> QED
      BY <1>0, <2>1, <2>2, <2>3, <2>4, JobFacts, FetchingPreserves DEF WakeUp, events
  <1>3. CASE ~(entry # None /\ entry.fresh)
    <2>1. PICK new : new = [job[b] EXCEPT !.step = "alone"]
      OBVIOUS
    <2>2. /\ job' = [job EXCEPT ![b] = new] /\ UNCHANGED shown
          /\ cache' = [cache EXCEPT ![k] = None]
      BY <1>0, <1>1, <1>3, <2>1, JobFacts DEF WakeUp
    <2>3. /\ new \in Work /\ new.step = "alone" /\ new.key = job[b].key
          /\ new.floor = job[b].floor /\ new.list = job[b].list
      BY <1>0, <2>1, JobFacts DEF Work
    <2>4. job' \in [Builder -> Work] /\ job'[b] = new
      BY <1>0, <2>2, <2>3, JobFacts
    <2>5. Asked(b) /\ job[b].key \in Key
      BY <1>0, JobFacts DEF JobOK
    <2>6. JobOK(b)'
      BY <2>3, <2>4, <2>5 DEF JobOK, Asked, WakeUp
    <2>7. \A r \in Builder : job'[r] = job[r] \/ JobOK(r)'
      BY <1>0, <2>2, <2>6, JobFacts
    <2>8. cache' \in [Key -> Entry \union {None}]
      BY <1>0, <2>2, JobFacts
    <2>9. \A j \in Key : cache'[j] # None => cache'[j] = cache[j]
      BY <1>0, <2>2, JobFacts
    <2>10. ClearsAreFinal'
      BY <2>9 DEF SInv, ClearsAreFinal, WakeUp
    <2> QED
      BY <1>0, <2>2, <2>4, <2>7, <2>8, <2>10, JobFacts, FetchingPreserves DEF WakeUp, events
  <1> QED
    BY <1>2, <1>3

-----------------------------------------------------------------------------
(* Rebuilding.                                                             *)
LEMMA ReadStampPreserves ==
  ASSUME SInv, NEW r \in Builder, ReadStamp(r) PROVE SInv'
  <1>0. job[r].step \in {"stamping", "alone"}
    BY DEF ReadStamp
  <1>1. PICK k, tries : /\ k = job[r].key
                        /\ tries = IF job[r].step = "alone" THEN MaxAttempts + 1
                                   ELSE job[r].tries + 1
    OBVIOUS
  <1>2. PICK new : new = [job[r] EXCEPT !.step = "building", !.stamp = Stamp(k),
                                        !.tries = tries]
    OBVIOUS
  <1>3. k \in Key /\ tries \in Nat
    BY <1>0, <1>1, JobFacts, SidebarAssumption DEF Work
  <1>4. /\ globals \in Nat /\ Local(k) \in Nat
        /\ Stamp(k) = <<globals, Local(k)>> /\ Stamp(k) \in Nat \X Nat
    BY <1>3 DEF SInv, DataOK, Stamp, Local, Key
  <1>5. /\ new \in Work /\ new.step = "building" /\ new.key = k /\ new.stamp = Stamp(k)
        /\ new.floor = job[r].floor /\ new.list = job[r].list
    <2>1. job[r] \in Work /\ job[r].key = k
      BY <1>1, JobFacts
    <2> QED
      BY <1>2, <1>3, <1>4, <2>1 DEF Work
  <1>6. job' = [job EXCEPT ![r] = new]
    BY <1>0, <1>1, <1>2, JobFacts DEF ReadStamp
  <1>7. job' \in [Builder -> Work] /\ job'[r] = new
    BY <1>5, <1>6, JobFacts
  <1>8. globals' = globals /\ alls' = alls /\ profiles' = profiles /\ settled' = settled
    BY DEF ReadStamp, cacheVars
  <1>9. NotAhead(r)'
    BY <1>4, <1>5, <1>7, <1>8 DEF NotAhead, Local
  <1>10. r \in Tab => Asked(r)'
    <2>1. r \in Tab => Asked(r)
      BY <1>0, JobFacts DEF JobOK
    <2> QED
      BY <1>1, <1>5, <1>7, <1>8, <2>1 DEF Asked
  <1>11. JobOK(r)'
    BY <1>3, <1>5, <1>7, <1>9, <1>10 DEF JobOK
  <1>12. \A s \in Builder : job'[s] = job[s] \/ JobOK(s)'
    BY <1>6, <1>11, JobFacts
  <1>13. ClearsAreFinal'
    BY DEF SInv, ClearsAreFinal, ReadStamp, cacheVars
  <1> QED
    BY <1>7, <1>12, <1>13, JobFacts, FetchingPreserves DEF ReadStamp, cacheVars, events

\* What is built now is at least what is settled now.
LEMMA BuildPreserves ==
  ASSUME SInv, NEW r \in Builder, Build(r) PROVE SInv'
  <1>0. job[r].step = "building"
    BY DEF Build
  <1>1. PICK k : k = job[r].key
    OBVIOUS
  <1>2. PICK new : new = [job[r] EXCEPT !.step = "storing", !.list = ListOf(k)]
    OBVIOUS
  <1>3. k \in Key /\ Shows(k) \subseteq Profile
    BY <1>0, <1>1, JobFacts
  <1>4. /\ ListOf(k) \in Lists
        /\ \A p \in Shows(k) : /\ ListOf(k)[p] \in Int /\ settled[p] \in Int
                               /\ ListOf(k)[p] >= settled[p]
    <2>1. \A p \in Profile : /\ data[p] \in 0..MaxChanges /\ settled[p] \in 0..MaxChanges
                             /\ settled[p] <= data[p]
      BY DEF SInv, DataOK, Lists
    <2> QED
      BY <1>3, <2>1, KeysApart DEF ListOf, Lists
  <1>5. /\ new \in Work /\ new.step = "storing" /\ new.key = k /\ new.stamp = job[r].stamp
        /\ new.floor = job[r].floor /\ new.list = ListOf(k)
    <2>1. job[r] \in Work /\ job[r].key = k
      BY <1>1, JobFacts
    <2> QED
      BY <1>2, <1>3, <1>4, <2>1 DEF Work
  <1>6. job' = [job EXCEPT ![r] = new]
    BY <1>0, <1>1, <1>2, JobFacts DEF Build
  <1>7. job' \in [Builder -> Work] /\ job'[r] = new
    BY <1>5, <1>6, JobFacts
  <1>8. globals' = globals /\ alls' = alls /\ profiles' = profiles /\ settled' = settled
    BY DEF Build, cacheVars
  <1>9. NotAhead(r)' /\ Built(r)'
    <2>1. NotAhead(r)
      BY <1>0, JobFacts DEF JobOK
    <2> QED
      BY <1>1, <1>4, <1>5, <1>7, <1>8, <2>1 DEF NotAhead, Local, Built
  <1>10. r \in Tab => Asked(r)'
    <2>1. r \in Tab => Asked(r)
      BY <1>0, JobFacts DEF JobOK
    <2>2. r \in Tab => \A p \in Shows(k) : job[r].floor[p] \in Int
      BY <1>3, <2>1, KeysApart DEF Asked, Lists
    <2>3. r \in Tab => \A p \in Shows(k) : ListOf(k)[p] >= job[r].floor[p]
      BY <1>1, <1>4, <2>1, <2>2 DEF Asked
    <2> QED
      BY <1>1, <1>5, <1>7, <1>8, <2>1, <2>3 DEF Asked
  <1>11. JobOK(r)'
    BY <1>3, <1>5, <1>7, <1>9, <1>10 DEF JobOK
  <1>12. \A s \in Builder : job'[s] = job[s] \/ JobOK(s)'
    BY <1>6, <1>11, JobFacts
  <1>13. ClearsAreFinal'
    BY DEF SInv, ClearsAreFinal, Build, cacheVars
  <1> QED
    BY <1>7, <1>12, <1>13, JobFacts, FetchingPreserves DEF Build, cacheVars, events

LEMMA BuildFailsPreserves ==
  ASSUME SInv, NEW r \in Builder, BuildFails(r) PROVE SInv'
  <1>0. job[r].step = "building"
    BY DEF BuildFails
  <1>2. PICK new : new = [job[r] EXCEPT !.step = "done", !.list = None]
    OBVIOUS
  <1>5. /\ new \in Work /\ new.step = "done" /\ new.key = job[r].key
        /\ new.floor = job[r].floor /\ new.list = None
    BY ZenonT(60), <1>0, <1>2, JobFacts DEF Work
  <1>6. job' = [job EXCEPT ![r] = new]
    BY <1>0, <1>2, JobFacts DEF BuildFails
  <1>7. job' \in [Builder -> Work] /\ job'[r] = new
    BY <1>5, <1>6, JobFacts
  <1>8. job[r].key \in Key /\ (r \in Tab => Asked(r)) /\ settled' = settled
    BY <1>0, JobFacts DEF JobOK, BuildFails
  <1>11. JobOK(r)'
    BY <1>5, <1>7, <1>8 DEF JobOK, Asked
  <1>12. \A s \in Builder : job'[s] = job[s] \/ JobOK(s)'
    BY <1>6, <1>11, JobFacts
  <1>13. ClearsAreFinal'
    BY DEF SInv, ClearsAreFinal, BuildFails, cacheVars
  <1> QED
    BY <1>7, <1>12, <1>13, JobFacts, FetchingPreserves DEF BuildFails, cacheVars, events

(* The list goes into the cache only when its stamp still fits, and then   *)
(* no clear was completed since it was built.                              *)
LEMMA StorePreserves ==
  ASSUME SInv, NEW r \in Builder, Store(r) PROVE SInv'
  <1>0. job[r].step = "storing"
    BY DEF Store
  <1>1. PICK k, list : k = job[r].key /\ list = job[r].list
    OBVIOUS
  <1>2. k \in Key /\ Built(r) /\ (r \in Tab => Asked(r)) /\ list \in Lists
    BY <1>0, <1>1, JobFacts DEF JobOK, Built
  <1>3. PICK step \in {"stamping", "done"} : job' = [job EXCEPT ![r].step = step]
    BY DEF Store
  <1>4. PICK new : new = [job[r] EXCEPT !.step = step]
    OBVIOUS
  <1>5. /\ new \in Work /\ new.step = step /\ new.key = k
        /\ new.floor = job[r].floor /\ new.list = list
    BY SMTT(60), <1>0, <1>1, <1>4, JobFacts DEF Work
  <1>6. job' = [job EXCEPT ![r] = new]
    BY <1>3, <1>4
  <1>7. job' \in [Builder -> Work] /\ job'[r] = new
    BY <1>5, <1>6, JobFacts
  <1>8. settled' = settled
    BY DEF Store
  <1>9. r \in Tab => Asked(r)'
    BY <1>1, <1>2, <1>5, <1>7, <1>8 DEF Asked
  <1>10. JobOK(r)'
    BY <1>2, <1>5, <1>7, <1>9 DEF JobOK
  <1>11. \A s \in Builder : job'[s] = job[s] \/ JobOK(s)'
    BY <1>6, <1>10, JobFacts
  <1>12. cache' \in [Key -> Entry \union {None}] /\ ClearsAreFinal'
    <2>1. CASE StillValid(r)
      <3>1. cache' \in Inserted(k, list)
        BY <1>1, <2>1 DEF Store
      <3>2. PICK gone : cache' = [j \in Key |->
                IF j = k THEN [list |-> list, fresh |-> TRUE]
                ELSE IF j \in gone THEN None ELSE cache[j]]
        BY <3>1 DEF Inserted
      <3>3. [list |-> list, fresh |-> TRUE] \in Entry
        BY <1>2 DEF Entry
      <3>4. cache' \in [Key -> Entry \union {None}]
        BY <3>2, <3>3, JobFacts
      <3>5. job[r].stamp = <<globals, Local(k)>>
        BY <1>1, <2>1 DEF StillValid, Stamp, Local
      <3>6. \A p \in Shows(k) : list[p] >= settled[p]
        BY <1>1, <1>2, <3>5 DEF Built
      <3>7. ASSUME NEW j \in Key, cache'[j] # None, NEW p \in Shows(j)
            PROVE  cache'[j].list[p] >= settled'[p]
        <4>1. CASE j = k
          BY <1>8, <3>2, <3>6, <3>7, <4>1
        <4>2. CASE j # k
          <5>1. cache'[j] = cache[j]
            BY <3>2, <3>7, <4>2
          <5> QED
            BY <1>8, <3>7, <5>1 DEF SInv, ClearsAreFinal
        <4> QED
          BY <4>1, <4>2
      <3> QED
        BY <3>4, <3>7 DEF ClearsAreFinal
    <2>2. CASE ~StillValid(r)
      <3>1. cache' = cache
        BY <2>2 DEF Store
      <3> QED
        BY <1>8, <3>1, JobFacts DEF ClearsAreFinal
    <2> QED
      BY <2>1, <2>2
  <1> QED
    BY <1>7, <1>11, <1>12, JobFacts, FetchingPreserves DEF Store, events

LEMMA FinishPreserves ==
  ASSUME SInv, NEW r \in Builder, Finish(r) PROVE SInv'
  <1>0. job[r].step = "done" /\ job' = [job EXCEPT ![r] = NoJob]
    BY DEF Finish
  <1>1. job[r].list \in Lists \union {None}
    BY JobFacts DEF Work
  <1>2. shown' \in [Tab -> Lists]
    BY <1>1, JobFacts DEF Finish
  <1>3. job' \in [Builder -> Work] /\ \A s \in Builder : job'[s] = job[s] \/ JobOK(s)'
    BY <1>0, JobFacts, IdleIsOK
  <1>4. ClearsAreFinal'
    BY DEF SInv, ClearsAreFinal, Finish
  <1> QED
    BY <1>2, <1>3, <1>4, JobFacts, FetchingPreserves DEF Finish, events

LEMMA ExpirePreserves ==
  ASSUME SInv, NEW k \in Key, Expire(k) PROVE SInv'
  <1>1. cache \in [Key -> Entry \union {None}] /\ cache[k] \in Entry
    BY DEF SInv, DataOK, Expire
  <1>2. PICK aged : aged = [cache[k] EXCEPT !.fresh = FALSE]
    OBVIOUS
  <1>3. aged \in Entry /\ aged.list = cache[k].list
    BY <1>1, <1>2 DEF Entry
  <1>4. cache' = [cache EXCEPT ![k] = aged]
    BY <1>1, <1>2 DEF Expire
  <1>5. cache' \in [Key -> Entry \union {None}]
    BY <1>1, <1>3, <1>4
  <1>6. ASSUME NEW j \in Key, cache'[j] # None, NEW p \in Shows(j)
        PROVE  cache'[j].list[p] >= settled'[p]
    <2>1. cache[j] # None /\ cache'[j].list = cache[j].list
      BY <1>1, <1>3, <1>4, <1>6 DEF Expire
    <2> QED
      BY <2>1 DEF SInv, ClearsAreFinal, Expire
  <1>7. ClearsAreFinal'
    BY <1>6 DEF ClearsAreFinal
  <1>8. /\ job' = job /\ job \in [Builder -> Work] /\ shown' = shown /\ queue' = queue
        /\ shown \in [Tab -> Lists] /\ queue \in [Tab -> Scope \union {None}]
    BY DEF SInv, DataOK, JobsOK, Expire, events
  <1> QED
    BY <1>5, <1>7, <1>8, FetchingPreserves DEF Expire, events

-----------------------------------------------------------------------------
LEMMA NextPreserves == SInv /\ [Next]_vars => SInv'
  <1> SUFFICES ASSUME SInv, [Next]_vars PROVE SInv'
    OBVIOUS
  <1>1. ASSUME NEW w \in Publisher,
               Publish(w) \/ TakePending(w) \/ PutMerged(w) \/ ClearCache(w)
        PROVE  SInv'
    BY <1>1, PublishPreserves, TakePendingPreserves, PutMergedPreserves,
       ClearCachePreserves
  <1>2. ASSUME NEW w \in Publisher, NEW p \in Profile, Change(w, p) PROVE SInv'
    BY <1>2, ChangePreserves
  <1>3. ASSUME NEW w \in Publisher, NEW b \in Tab, Put(w, b) PROVE SInv'
    BY <1>3, PutPreserves
  <1>4. ASSUME NEW b \in Tab,
               Receive(b) \/ Refresh(b) \/ Lookup(b) \/ Claim(b) \/ WakeUp(b)
        PROVE  SInv'
    BY <1>4, ReceivePreserves, RefreshPreserves, LookupPreserves, ClaimPreserves,
       WakeUpPreserves
  <1>5. ASSUME NEW r \in Builder,
               ReadStamp(r) \/ Build(r) \/ BuildFails(r) \/ Store(r) \/ Finish(r)
        PROVE  SInv'
    BY <1>5, ReadStampPreserves, BuildPreserves, BuildFailsPreserves, StorePreserves,
       FinishPreserves
  <1>6. ASSUME NEW k \in Key, Expire(k) PROVE SInv'
    BY <1>6, ExpirePreserves
  <1>7. CASE UNCHANGED vars
    BY <1>7 DEF vars, events, cacheVars, SInv, DataOK, PubOK, JobsOK, JobOK, NotAhead,
           Local, Built, Asked, ClearsAreFinal
  <1> QED
    BY <1>1, <1>2, <1>3, <1>4, <1>5, <1>6, <1>7 DEF Next

(* No entry of the cache, fresh or aged, is older than a change whose      *)
(* clear is complete (_session_list_cache_set stores only under the stamp  *)
(* read before the build), however many publishers and requests overlap.   *)
THEOREM ClearedStaysCleared == Spec => []ClearsAreFinal
  <1>1. SInv => ClearsAreFinal
    BY DEF SInv
  <1> QED
    BY <1>1, InitOK, NextPreserves, PTL DEF Spec

-----------------------------------------------------------------------------
\* The list a tab is given is the entry, or the list its request holds.
LEMMA AnswerStep ==
  ASSUME SInv, [Next]_vars, NEW b \in Tab, job[b] # NoJob, shown'[b] # shown[b]
  PROVE  \A p \in Shows(job[b].key) : shown'[b][p] >= job[b].floor[p]
  <1>0. /\ b \in Builder /\ shown \in [Tab -> Lists]
        /\ job[b].step # "idle" => Asked(b)
    BY JobFacts DEF Builder, JobOK
  <1>1. ASSUME NEW c \in Tab, Lookup(c)
        PROVE  \A p \in Shows(job[b].key) : shown'[b][p] >= job[b].floor[p]
    <2>1. PICK entry : entry = cache[job[c].key]
      OBVIOUS
    <2>2. entry # None /\ shown' = [shown EXCEPT ![c] = entry.list]
      BY <1>1, <2>1 DEF Lookup, Answer
    <2>3. c = b /\ shown'[b] = entry.list /\ job[b].step = "lookup"
      BY <1>0, <1>1, <2>2 DEF Lookup
    <2> QED
      BY <2>1, <2>2, <2>3, EntryIsCurrent
  <1>2. ASSUME NEW c \in Tab, WakeUp(c)
        PROVE  \A p \in Shows(job[b].key) : shown'[b][p] >= job[b].floor[p]
    <2>1. PICK entry : entry = cache[job[c].key]
      OBVIOUS
    <2>2. entry # None /\ shown' = [shown EXCEPT ![c] = entry.list]
      BY <1>2, <2>1 DEF WakeUp, Answer
    <2>3. c = b /\ shown'[b] = entry.list /\ job[b].step = "waiting"
      BY <1>0, <1>2, <2>2 DEF WakeUp
    <2> QED
      BY <2>1, <2>2, <2>3, EntryIsCurrent
  <1>3. ASSUME NEW c \in Tab, Claim(c)
        PROVE  \A p \in Shows(job[b].key) : shown'[b][p] >= job[b].floor[p]
    <2>1. job[c].list # None /\ shown' = [shown EXCEPT ![c] = job[c].list]
      BY <1>3 DEF Claim
    <2>2. c = b /\ shown'[b] = job[b].list /\ job[b].step = "claim"
      BY <1>0, <1>3, <2>1 DEF Claim
    <2> QED
      BY <1>0, <2>1, <2>2 DEF Asked
  <1>4. ASSUME NEW r \in Builder, Finish(r)
        PROVE  \A p \in Shows(job[b].key) : shown'[b][p] >= job[b].floor[p]
    <2>1. job[r].list # None /\ shown' = [shown EXCEPT ![r] = job[r].list]
      BY <1>4 DEF Finish
    <2>2. r = b /\ shown'[b] = job[b].list /\ job[b].step = "done"
      BY SMTT(60), <1>0, <1>4, <2>1 DEF Finish
    <2> QED
      BY <1>0, <2>1, <2>2 DEF Asked
  <1>5. ASSUME NEW w \in Publisher,
               \/ Publish(w) \/ TakePending(w) \/ PutMerged(w) \/ ClearCache(w)
               \/ \E p \in Profile : Change(w, p)
               \/ \E c \in Tab : Put(w, c)
        PROVE  FALSE
    BY Zenon, <1>5 DEF Publish, TakePending, PutMerged, ClearCache, Change, Put
  <1>6. ASSUME NEW c \in Tab, Receive(c) \/ Refresh(c) PROVE FALSE
    BY <1>6 DEF Receive, Refresh
  <1>7. ASSUME NEW r \in Builder, ReadStamp(r) \/ Build(r) \/ BuildFails(r) \/ Store(r)
        PROVE  FALSE
    BY <1>7 DEF ReadStamp, Build, BuildFails, Store
  <1>8. ASSUME NEW k \in Key, Expire(k) PROVE FALSE
    BY <1>8 DEF Expire
  <1>9. UNCHANGED vars => FALSE
    BY DEF vars
  <1> QED
    BY <1>1, <1>2, <1>3, <1>4, <1>5, <1>6, <1>7, <1>8, <1>9 DEF Next

(* Whichever path of _get_cached_session_list_payload answers, a tab sees  *)
(* at least what was settled when it asked.                                *)
THEOREM TabsSeeWhatIsSettled == Spec => AnswersAreCurrent
  <1>1. SInv /\ [Next]_vars =>
          [\A b \in Tab :
             job[b] # NoJob /\ shown[b] # shown'[b] =>
               \A p \in Shows(job[b].key) : shown'[b][p] >= job[b].floor[p]]_vars
    BY AnswerStep
  <1> QED
    BY <1>1, InitOK, NextPreserves, PTL DEF Spec, AnswersAreCurrent

-----------------------------------------------------------------------------
(* The claims: who rebuilds a list holds the only claim of its key.        *)

\* Does a request with this job hold the claim of its key?
Holds(j) == /\ j.step \in {"stamping", "building", "storing", "done"}
            /\ j.tries # MaxAttempts + 1

\* A job is tried as often as allowed; a background rebuild holds its claim.
TriesOK(r, j) ==
  /\ j.step \in {"idle", "lookup", "claim", "waiting", "alone"} => j.tries = 0
  /\ j.step = "stamping" => j.tries < MaxAttempts
  /\ r \in Key /\ j.step # "idle" => Holds(j) /\ j.key = r

ClaimsOK ==
  /\ \A r \in Builder : TriesOK(r, job[r])
  /\ inflight \subseteq Key
  /\ \A r \in Builder : Holds(job[r]) => job[r].key \in inflight
  /\ \A k \in inflight : \E r \in Builder : Holds(job[r]) /\ job[r].key = k
  /\ \A r, s \in Builder : Holds(job[r]) /\ Holds(job[s]) /\ job[r].key = job[s].key => r = s

Cached == {k \in Key : cache[k] # None}

Trimmed == IsFiniteSet(Cached) /\ Cardinality(Cached) <= CacheMax

CInv == ClaimsOK /\ Trimmed /\ told \subseteq Tab /\ owed \subseteq Tab

\* A step of one job that neither takes nor gives back a claim.
LEMMA ClaimsKept ==
  ASSUME SInv, ClaimsOK, NEW r \in Builder, NEW new \in Work,
         job' = [job EXCEPT ![r] = new], inflight' = inflight,
         Holds(new) <=> Holds(job[r]), Holds(new) => new.key = job[r].key,
         TriesOK(r, new)
  PROVE  ClaimsOK'
  <1>1. \A s \in Builder : job'[s] = IF s = r THEN new ELSE job[s]
    BY DEF SInv, JobsOK
  <1>2. \A s \in Builder : /\ Holds(job'[s]) <=> Holds(job[s])
                           /\ Holds(job[s]) => job'[s].key = job[s].key
                           /\ TriesOK(s, job'[s])
    BY <1>1 DEF ClaimsOK
  <1> HIDE DEF Holds, TriesOK
  <1> QED
    BY <1>2 DEF ClaimsOK

LEMMA RefreshClaims ==
  ASSUME SInv, ClaimsOK, NEW b \in Tab, Refresh(b) PROVE ClaimsOK'
  <1> DEFINE new == [NoJob EXCEPT !.step = "lookup", !.key = view[b].key,
                                  !.floor = Known(view[b].key)]
  <1>1. job' = [job EXCEPT ![b] = new] /\ inflight' = inflight /\ job[b] = NoJob
    BY DEF Refresh, cacheVars
  <1>2. b \in Builder /\ b \notin Key
    BY KeysApart DEF Builder
  <1>3. new \in Work
    <2>1. view[b].key \in Key
      BY DEF SInv, DataOK
    <2>2. Known(view[b].key) \in Lists
      BY KeysApart DEF SInv, DataOK, Known, Lists
    <2> QED
      BY <2>1, <2>2 DEF NoJob, Work
  <1>4. ~Holds(new) /\ ~Holds(job[b]) /\ TriesOK(b, new)
    BY <1>1, <1>2 DEF Holds, TriesOK, NoJob
  <1> HIDE DEF new
  <1> QED
    BY <1>1, <1>2, <1>3, <1>4, ClaimsKept

LEMMA LookupClaims ==
  ASSUME SInv, ClaimsOK, NEW b \in Tab, Lookup(b) PROVE ClaimsOK'
  <1>1. b \in Builder /\ b \notin Key /\ job[b] \in Work /\ job[b].step = "lookup"
        /\ inflight' = inflight /\ ~Holds(job[b]) /\ job[b].tries = 0
    BY KeysApart DEF Builder, SInv, JobsOK, Lookup, cacheVars, Holds, ClaimsOK, TriesOK
  <1>2. PICK list : list = IF cache[job[b].key] = None THEN None ELSE cache[job[b].key].list
    OBVIOUS
  <1>3. list \in Lists \union {None}
    BY <1>1, <1>2 DEF SInv, JobsOK, JobOK, DataOK, Entry
  <1> DEFINE new == [job[b] EXCEPT !.step = "claim", !.list = list]
  <1>4. job' = [job EXCEPT ![b] = NoJob] \/ job' = [job EXCEPT ![b] = new]
    BY <1>1, <1>2 DEF Lookup, Answer, SInv, JobsOK
  <1>5. /\ new \in Work /\ ~Holds(new) /\ TriesOK(b, new)
        /\ NoJob \in Work /\ ~Holds(NoJob) /\ TriesOK(b, NoJob)
    BY <1>1, <1>3 DEF Work, Holds, TriesOK, NoJob
  <1> HIDE DEF new
  <1> QED
    BY <1>1, <1>4, <1>5, ClaimsKept

LEMMA WakeUpClaims ==
  ASSUME SInv, ClaimsOK, NEW b \in Tab, WakeUp(b) PROVE ClaimsOK'
  <1>1. b \in Builder /\ b \notin Key /\ job[b] \in Work /\ job[b].step = "waiting"
        /\ inflight' = inflight /\ ~Holds(job[b]) /\ job[b].tries = 0
    BY KeysApart DEF Builder, SInv, JobsOK, WakeUp, cacheVars, Holds, ClaimsOK, TriesOK
  <1> DEFINE new == [job[b] EXCEPT !.step = "alone"]
  <1>2. job' = [job EXCEPT ![b] = NoJob] \/ job' = [job EXCEPT ![b] = new]
    BY <1>1 DEF WakeUp, Answer, SInv, JobsOK
  <1>3. /\ new \in Work /\ ~Holds(new) /\ TriesOK(b, new)
        /\ NoJob \in Work /\ ~Holds(NoJob) /\ TriesOK(b, NoJob)
    BY <1>1 DEF Work, Holds, TriesOK, NoJob
  <1> HIDE DEF new
  <1> QED
    BY <1>1, <1>2, <1>3, ClaimsKept

LEMMA ReadStampClaims ==
  ASSUME SInv, ClaimsOK, NEW r \in Builder, ReadStamp(r) PROVE ClaimsOK'
  <1>1. job[r] \in Work /\ job[r].step \in {"stamping", "alone"} /\ inflight' = inflight
        /\ TriesOK(r, job[r]) /\ MaxAttempts \in Nat /\ job[r].key \in Key
    BY SidebarAssumption DEF SInv, JobsOK, JobOK, ReadStamp, cacheVars, ClaimsOK
  <1>2. PICK stamp, tries : /\ stamp = Stamp(job[r].key)
                            /\ tries = IF job[r].step = "alone" THEN MaxAttempts + 1
                                       ELSE job[r].tries + 1
    OBVIOUS
  <1>3. stamp \in Nat \X Nat
    BY <1>1, <1>2 DEF Stamp, SInv, DataOK, Key
  <1> DEFINE new == [job[r] EXCEPT !.step = "building", !.stamp = stamp, !.tries = tries]
  <1>4. job' = [job EXCEPT ![r] = new]
    BY <1>1, <1>2 DEF ReadStamp, SInv, JobsOK
  <1>5. tries \in Nat /\ job[r].tries \in Nat
    BY <1>1, <1>2 DEF Work
  <1>6. new \in Work /\ new.key = job[r].key /\ new.step = "building" /\ new.tries = tries
    BY <1>1, <1>3, <1>5 DEF Work
  <1> HIDE DEF new
  <1>7. Holds(new) <=> Holds(job[r])
    BY <1>1, <1>2, <1>5, <1>6 DEF Holds, TriesOK
  <1>8. TriesOK(r, new)
    BY <1>1, <1>6, <1>7 DEF TriesOK
  <1> QED
    BY <1>1, <1>4, <1>6, <1>7, <1>8, ClaimsKept

LEMMA BuildClaims ==
  ASSUME SInv, ClaimsOK, NEW r \in Builder, Build(r) \/ BuildFails(r) PROVE ClaimsOK'
  <1>1. job[r] \in Work /\ job[r].step = "building" /\ inflight' = inflight
        /\ TriesOK(r, job[r])
    BY DEF SInv, JobsOK, Build, BuildFails, cacheVars, ClaimsOK
  <1>2. ListOf(job[r].key) \in Lists
    BY KeysApart DEF SInv, DataOK, ListOf, Lists
  <1> DEFINE built == [job[r] EXCEPT !.step = "storing", !.list = ListOf(job[r].key)]
             failed == [job[r] EXCEPT !.step = "done", !.list = None]
  <1>3. job' = [job EXCEPT ![r] = built] \/ job' = [job EXCEPT ![r] = failed]
    BY <1>1 DEF Build, BuildFails, SInv, JobsOK
  <1>4. /\ built \in Work /\ built.key = job[r].key /\ built.tries = job[r].tries
        /\ built.step = "storing"
        /\ failed \in Work /\ failed.key = job[r].key /\ failed.tries = job[r].tries
        /\ failed.step = "done"
    BY <1>1, <1>2 DEF Work
  <1> HIDE DEF built, failed
  <1>5. /\ Holds(built) <=> Holds(job[r])
        /\ Holds(failed) <=> Holds(job[r])
        /\ TriesOK(r, built) /\ TriesOK(r, failed)
    BY <1>1, <1>4 DEF Holds, TriesOK
  <1> QED
    BY <1>1, <1>3, <1>4, <1>5, ClaimsKept

LEMMA StoreClaims ==
  ASSUME SInv, ClaimsOK, NEW r \in Builder, Store(r) PROVE ClaimsOK'
  <1>1. job[r] \in Work /\ job[r].step = "storing" /\ inflight' = inflight
        /\ TriesOK(r, job[r]) /\ MaxAttempts \in Nat
    BY SidebarAssumption DEF SInv, JobsOK, Store, ClaimsOK
  <1> DEFINE over == [job[r] EXCEPT !.step = "done"]
             again == [job[r] EXCEPT !.step = "stamping"]
  <1>2. \/ job' = [job EXCEPT ![r] = over]
        \/ job[r].tries < MaxAttempts /\ job' = [job EXCEPT ![r] = again]
    BY <1>1 DEF Store, SInv, JobsOK
  <1>3. /\ over \in Work /\ over.key = job[r].key /\ over.tries = job[r].tries
        /\ over.step = "done"
        /\ again \in Work /\ again.key = job[r].key /\ again.tries = job[r].tries
        /\ again.step = "stamping"
    BY <1>1 DEF Work
  <1> HIDE DEF over, again
  <1>4. /\ Holds(over) <=> Holds(job[r])
        /\ Holds(again) <=> Holds(job[r])
        /\ TriesOK(r, over)
        /\ job[r].tries < MaxAttempts => TriesOK(r, again)
    BY <1>1, <1>3 DEF Holds, TriesOK
  <1> QED
    BY <1>1, <1>2, <1>3, <1>4, ClaimsKept

LEMMA ClaimClaims ==
  ASSUME SInv, ClaimsOK, NEW b \in Tab, Claim(b) PROVE ClaimsOK'
  <1>1. PICK k : k = job[b].key
    OBVIOUS
  <1>2. /\ b \in Builder /\ b \notin Key /\ k \in Builder /\ k \in Key
        /\ job \in [Builder -> Work] /\ job[b].step = "claim" /\ ~Holds(job[b])
        /\ job[b].tries = 0 /\ inflight' = inflight \union {k}
        /\ MaxAttempts \in Nat \ {0}
    BY <1>1, KeysApart, SidebarAssumption
    DEF Builder, SInv, JobsOK, JobOK, Claim, Holds, ClaimsOK, TriesOK
  \* Nobody rebuilds a list without a claim.
  <1>3. k \notin inflight => \A r \in Builder : ~(Holds(job[r]) /\ job[r].key = k)
    BY DEF ClaimsOK
  <1> DEFINE fresh == [NoJob EXCEPT !.step = "stamping", !.key = k]
             waits == [job[b] EXCEPT !.step = "waiting"]
             own == [job[b] EXCEPT !.step = "stamping"]
  <1>4. /\ Holds(fresh) /\ fresh.key = k /\ TriesOK(k, fresh)
        /\ ~Holds(NoJob) /\ TriesOK(b, NoJob)
    BY <1>2 DEF NoJob, Holds, TriesOK
  <1>5. /\ ~Holds(waits) /\ TriesOK(b, waits)
        /\ Holds(own) /\ own.key = k /\ TriesOK(b, own)
    BY <1>1, <1>2 DEF Holds, TriesOK, Work
  <1>6. \/ \A r \in Builder : job'[r] = IF r = b THEN NoJob
                                        ELSE IF r = k /\ k \notin inflight THEN fresh ELSE job[r]
        \/ k \in inflight /\ \A r \in Builder : job'[r] = IF r = b THEN waits ELSE job[r]
        \/ k \notin inflight /\ \A r \in Builder : job'[r] = IF r = b THEN own ELSE job[r]
    BY <1>1, <1>2 DEF Claim
  <1> HIDE DEF fresh, waits, own
  <1>7. CASE k \in inflight
    <2>1. \A r \in Builder : \/ job'[r] = job[r]
                             \/ r = b /\ ~Holds(job'[r]) /\ TriesOK(r, job'[r])
      BY <1>4, <1>5, <1>6, <1>7
    <2>2. inflight' = inflight
      BY <1>2, <1>7
    <2> HIDE DEF Holds, TriesOK
    <2> QED
      BY <1>2, <2>1, <2>2 DEF ClaimsOK
  <1>8. CASE k \notin inflight
    <2>1. PICK new \in {b, k} :
            /\ Holds(job'[new]) /\ job'[new].key = k /\ TriesOK(new, job'[new])
            /\ \A r \in Builder \ {new} :
                  \/ job'[r] = job[r]
                  \/ r = b /\ ~Holds(job'[r]) /\ TriesOK(r, job'[r])
      BY <1>2, <1>4, <1>5, <1>6, <1>8
    <2>2. new \in Builder
      BY <1>2
    <2>3. /\ \A r \in Builder : TriesOK(r, job'[r])
          /\ \A r \in Builder \ {new} :
                Holds(job'[r]) => Holds(job[r]) /\ job'[r].key = job[r].key
          /\ \A r \in Builder \ {b, k} : job'[r] = job[r]
      BY <2>1 DEF ClaimsOK
    <2>4. \A j \in inflight : \E r \in Builder : Holds(job'[r]) /\ job'[r].key = j
      <3>1. SUFFICES ASSUME NEW j \in inflight
                     PROVE  \E r \in Builder : Holds(job'[r]) /\ job'[r].key = j
        OBVIOUS
      <3>2. PICK r \in Builder : Holds(job[r]) /\ job[r].key = j
        BY DEF ClaimsOK
      <3>3. r # b
        BY <1>2, <3>2
      <3>4. TriesOK(k, job[k])
        BY <1>2 DEF ClaimsOK
      <3>5. r # k
        BY <1>2, <1>8, <3>2, <3>4 DEF TriesOK, Holds
      <3>6. job'[r] = job[r]
        BY <2>3, <3>3, <3>5
      <3> QED
        BY <3>2, <3>6
    <2>5. /\ \A r \in Builder : Holds(job'[r]) => job'[r].key \in inflight'
          /\ \A j \in inflight' : \E r \in Builder : Holds(job'[r]) /\ job'[r].key = j
      BY <1>2, <2>1, <2>2, <2>3, <2>4 DEF ClaimsOK
    <2>6. ASSUME NEW r \in Builder, NEW s \in Builder, Holds(job'[r]), Holds(job'[s]),
                 job'[r].key = job'[s].key
          PROVE  r = s
      <3>1. CASE r # new /\ s # new
        BY <2>3, <2>6, <3>1 DEF ClaimsOK
      <3>2. ASSUME NEW q \in Builder, q # new, Holds(job'[q]), job'[q].key = k PROVE FALSE
        BY <1>3, <1>8, <2>3, <3>2
      <3> QED
        BY <2>1, <2>6, <3>1, <3>2
    <2>7. inflight' \subseteq Key
      BY <1>2 DEF ClaimsOK
    <2> HIDE DEF Holds, TriesOK
    <2> QED
      BY <2>3, <2>5, <2>6, <2>7 DEF ClaimsOK
  <1> QED
    BY <1>7, <1>8

LEMMA FinishClaims ==
  ASSUME SInv, ClaimsOK, NEW r \in Builder, Finish(r) PROVE ClaimsOK'
  <1>1. /\ job \in [Builder -> Work] /\ job[r].step = "done"
        /\ job' = [job EXCEPT ![r] = NoJob]
        /\ inflight' = inflight \ Released(r)
    BY DEF SInv, JobsOK, Finish
  <1>2. Released(r) = IF Holds(job[r]) THEN {job[r].key} ELSE {}
    BY <1>1 DEF Released, Alone, Holds
  <1>3. \A s \in Builder : job'[s] = IF s = r THEN NoJob ELSE job[s]
    BY <1>1
  <1>4. ~Holds(NoJob) /\ TriesOK(r, NoJob)
    BY DEF Holds, TriesOK, NoJob
  <1> HIDE DEF Holds, TriesOK
  <1>5. /\ \A s \in Builder : TriesOK(s, job'[s])
        /\ inflight' \subseteq Key
        /\ \A s, q \in Builder : Holds(job'[s]) /\ Holds(job'[q]) /\ job'[s].key = job'[q].key => s = q
    BY <1>1, <1>3, <1>4 DEF ClaimsOK
  <1>6. \A s \in Builder : Holds(job'[s]) => job'[s].key \in inflight'
    BY <1>1, <1>2, <1>3, <1>4 DEF ClaimsOK
  <1>7. \A k \in inflight' : \E s \in Builder : Holds(job'[s]) /\ job'[s].key = k
    BY <1>1, <1>2, <1>3 DEF ClaimsOK
  <1> QED
    BY <1>5, <1>6, <1>7 DEF ClaimsOK

-----------------------------------------------------------------------------
(* The cache: what a step may leave in it.                                 *)
LEMMA FewerKeys ==
  ASSUME Trimmed, Cached' \subseteq Cached, CacheMax \in Nat
  PROVE  Trimmed'
  <1>1. IsFiniteSet(Cached') /\ Cardinality(Cached') <= Cardinality(Cached)
    BY FS_Subset DEF Trimmed
  <1>2. Cardinality(Cached') \in Nat /\ Cardinality(Cached) \in Nat
    BY <1>1, FS_CardinalityType DEF Trimmed
  <1> QED
    BY <1>1, <1>2 DEF Trimmed

\* A stored list takes the place of the surplus.
LEMMA StoreTrims ==
  ASSUME SInv, Trimmed, NEW r \in Builder, Store(r), cache' # cache
  PROVE  Trimmed'
  <1>1. PICK k : k = job[r].key
    OBVIOUS
  <1>2. /\ k \in Key /\ cache' \in Inserted(k, job[r].list)
        /\ CacheMax \in Nat \ {0} /\ cache \in [Key -> Entry \union {None}]
    BY <1>1, SidebarAssumption DEF SInv, DataOK, JobsOK, JobOK, Store
  <1> DEFINE others == {j \in Key \ {k} : cache[j] # None}
             surplus == Cardinality(others) + 1 - CacheMax
  <1>3. PICK gone \in {g \in SUBSET others : Cardinality(g) = IF surplus > 0 THEN surplus ELSE 0} :
          cache' = [j \in Key |-> IF j = k THEN [list |-> job[r].list, fresh |-> TRUE]
                                  ELSE IF j \in gone THEN None ELSE cache[j]]
    BY <1>2 DEF Inserted
  <1>4. IsFiniteSet(others) /\ others \subseteq Cached /\ k \notin others
    <2>1. others \subseteq Cached
      BY DEF Cached
    <2> QED
      BY <2>1, FS_Subset DEF Trimmed
  <1>5. /\ gone \subseteq others
        /\ Cardinality(gone) = IF surplus > 0 THEN surplus ELSE 0
    BY <1>3
  <1>6. Cached' \subseteq (others \ gone) \union {k}
    BY <1>2, <1>3 DEF Cached
  <1> HIDE DEF others
  <1>7. /\ IsFiniteSet(others \ gone) /\ Cardinality(others) \in Nat /\ Cardinality(gone) \in Nat
        /\ Cardinality(others \ gone) = Cardinality(others) - Cardinality(gone)
    <2>1. IsFiniteSet(gone)
      BY <1>4, <1>5, FS_Subset
    <2>2. others \intersect gone = gone
      BY <1>5
    <2> QED
      BY <1>4, <2>1, <2>2, FS_Difference, FS_CardinalityType
  <1>8. k \notin others \ gone
    BY <1>4
  <1>9. /\ IsFiniteSet((others \ gone) \union {k})
        /\ Cardinality((others \ gone) \union {k}) = Cardinality(others \ gone) + 1
    BY <1>7, <1>8, FS_AddElement
  <1>10. /\ IsFiniteSet(Cached')
         /\ Cardinality(Cached') <= Cardinality(others \ gone) + 1
    BY <1>6, <1>9, FS_Subset
  <1>11. Cardinality(Cached') \in Nat
    BY <1>10, FS_CardinalityType
  <1>12. Cardinality(others \ gone) + 1 <= CacheMax
    BY <1>2, <1>5, <1>7
  <1>13. Cardinality(Cached') <= CacheMax
    BY <1>2, <1>7, <1>10, <1>11, <1>12
  <1> QED
    BY <1>10, <1>13 DEF Trimmed

-----------------------------------------------------------------------------
LEMMA CInvInit == Init => CInv
  <1> SUFFICES ASSUME Init PROVE CInv
    OBVIOUS
  <1>1. \A r \in Builder : job[r] = NoJob /\ ~Holds(job[r]) /\ TriesOK(r, job[r])
    BY DEF Init, NoJob, Holds, TriesOK
  <1>2. inflight = {}
    BY DEF Init
  <1>3. ClaimsOK
    BY <1>1, <1>2 DEF ClaimsOK
  <1>4. Cached = {}
    BY DEF Init, Cached
  <1>5. Trimmed
    BY <1>4, FS_EmptySet, SidebarAssumption DEF Trimmed
  <1> QED
    BY <1>3, <1>5 DEF Init, CInv

LEMMA CInvStep ==
  ASSUME SInv, CInv, [Next]_vars
  PROVE  CInv'
  <1>1. CacheMax \in Nat
    BY SidebarAssumption
  <1>2. ASSUME UNCHANGED <<job, inflight>> PROVE ClaimsOK'
    BY <1>2 DEF CInv, ClaimsOK, TriesOK, Holds
  <1>3. ASSUME cache' = cache PROVE Trimmed'
    BY <1>3 DEF CInv, Trimmed, Cached
  <1>4. ASSUME NEW w \in Publisher,
               \/ Publish(w) \/ TakePending(w) \/ PutMerged(w)
               \/ \E p \in Profile : Change(w, p)
               \/ \E b \in Tab : Put(w, b)
        PROVE  CInv'
    <2>1. UNCHANGED <<job, inflight, cache, told>> /\ owed' \subseteq Tab
      BY Zenon, <1>4 DEF Publish, TakePending, PutMerged, Change, Put, events, cacheVars, CInv
    <2> QED
      BY SMTT(60), <1>2, <1>3, <2>1 DEF CInv
  <1>5. ASSUME NEW w \in Publisher, ClearCache(w) PROVE CInv'
    <2>1. UNCHANGED <<job, inflight, told, owed>> /\ Cached' \subseteq Cached
      BY <1>5 DEF ClearCache, events, Cached
    <2> QED
      BY <1>1, <1>2, <2>1, FewerKeys DEF CInv
  <1>6. ASSUME NEW b \in Tab, Receive(b) PROVE CInv'
    <2>1. UNCHANGED <<job, inflight, cache, owed>> /\ told' \subseteq Tab
      BY <1>6 DEF Receive, cacheVars, CInv
    <2> QED
      BY <1>2, <1>3, <2>1 DEF CInv
  <1>7. ASSUME NEW b \in Tab, Refresh(b) PROVE CInv'
    <2>1. cache' = cache /\ told' \subseteq Tab /\ owed' \subseteq Tab
      BY <1>7 DEF Refresh, cacheVars, CInv
    <2> QED
      BY <1>3, <1>7, <2>1, RefreshClaims DEF CInv
  <1>8. ASSUME NEW b \in Tab, Lookup(b) \/ Claim(b) PROVE CInv'
    <2>1. UNCHANGED <<cache, told, owed>>
      BY <1>8 DEF Lookup, Claim, cacheVars, events
    <2> QED
      BY <1>3, <1>8, <2>1, LookupClaims, ClaimClaims DEF CInv
  <1>9. ASSUME NEW b \in Tab, WakeUp(b) PROVE CInv'
    <2>1. UNCHANGED <<told, owed>> /\ Cached' \subseteq Cached
      <3>1. cache' = cache \/ cache' = [cache EXCEPT ![job[b].key] = None]
        BY <1>9 DEF WakeUp
      <3> QED
        BY <1>9, <3>1 DEF WakeUp, events, Cached, SInv, DataOK
    <2> QED
      BY <1>1, <1>9, <2>1, FewerKeys, WakeUpClaims DEF CInv
  <1>10. ASSUME NEW r \in Builder, ReadStamp(r) \/ Build(r) \/ BuildFails(r) PROVE CInv'
    <2>1. UNCHANGED <<cache, told, owed>>
      BY <1>10 DEF ReadStamp, Build, BuildFails, cacheVars, events
    <2> QED
      BY <1>3, <1>10, <2>1, ReadStampClaims, BuildClaims DEF CInv
  <1>11. ASSUME NEW r \in Builder, Store(r) PROVE CInv'
    <2>1. UNCHANGED <<told, owed>>
      BY <1>11 DEF Store, events
    <2> QED
      BY <1>3, <1>11, <2>1, StoreTrims, StoreClaims DEF CInv
  <1>12. ASSUME NEW r \in Builder, Finish(r) PROVE CInv'
    <2>1. UNCHANGED <<cache, told, owed>>
      BY <1>12 DEF Finish, events
    <2> QED
      BY <1>3, <1>12, <2>1, FinishClaims DEF CInv
  <1>13. ASSUME NEW k \in Key, Expire(k) PROVE CInv'
    <2>1. UNCHANGED <<job, inflight, told, owed>>
      BY <1>13 DEF Expire, events
    <2>2. Cached' \subseteq Cached
      BY <1>13 DEF Expire, Cached, SInv, DataOK
    <2> QED
      BY <1>1, <1>2, <2>1, <2>2, FewerKeys DEF CInv
  <1>14. CASE UNCHANGED vars
    BY <1>2, <1>3, <1>14 DEF vars, events, cacheVars, CInv
  <1> QED
    BY <1>4, <1>5, <1>6, <1>7, <1>8, <1>9, <1>10, <1>11, <1>12, <1>13, <1>14 DEF Next

(* A list is marked as being rebuilt exactly while one request or one      *)
(* background thread is at it, however builds fail, go stale or give up,   *)
(* so no request waits for a rebuild that will not come; and the cache     *)
(* never exceeds its limit (_get_cached_session_list_payload,              *)
(* _session_list_cache_set).                                               *)
THEOREM ClaimsHaveOwners == Spec => []SidebarTypeOK
  <1>1. SInv /\ CInv => SidebarTypeOK
    <2>1. SUFFICES ASSUME SInv, CInv PROVE SidebarTypeOK
      OBVIOUS
    <2>2. \A r \in Builder : Owns(r) <=> Holds(job[r])
      BY DEF Owns, Alone, Holds
    <2>3. inflight = {job[r].key : r \in {s \in Builder : Owns(s)}}
      BY <2>1, <2>2 DEF CInv, ClaimsOK
    <2>4. \A r, s \in Builder : Owns(r) /\ Owns(s) /\ job[r].key = job[s].key => r = s
      BY <2>1, <2>2 DEF CInv, ClaimsOK
    <2>5. Cardinality({k \in Key : cache[k] # None}) <= CacheMax
      BY <2>1 DEF CInv, Trimmed, Cached
    <2> QED
      BY <2>1, <2>3, <2>4, <2>5 DEF SidebarTypeOK, SInv, DataOK, CInv, Entry
  <1> QED
    BY <1>1, InitOK, CInvInit, NextPreserves, CInvStep, PTL DEF Spec
=============================================================================
