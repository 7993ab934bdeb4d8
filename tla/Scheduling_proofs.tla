------------------------- MODULE Scheduling_proofs -------------------------
(* No object that still needs the controller is forgotten, and no status   *)
(* shows what is not there, however far the informers trail behind the API *)
(* server, for any number of failures, crashes and edits.                  *)
EXTENDS Cluster_proofs

Busy(b) == pc # "idle" /\ work.key = b

(* The key is queued, or an event that queues it is on its way.            *)
Pending(b) == b \in queue \/ Event(cache[b], api[b])

(* The uid has been given out, and the object would be gone if it was      *)
(* being deleted without a finalizer.                                      *)
Issued(o, edits) == o # Gone => o.uid <= edits /\ (o.deleting => o.finalizer)

(* What an informer shows, c, is the past of what it follows, o: of the    *)
(* same object, an earlier state; or an object that is gone, and as long   *)
(* as it shows one that is being deleted, the controller cannot have given *)
(* the next one its finalizer.                                             *)
Older(c, o) ==
  c # Gone /\ o # Gone =>
    IF c.uid = o.uid
    THEN /\ c.generation <= o.generation
         /\ c.deleting => o.deleting
         /\ c.finalizer => o.finalizer
         /\ c.generation = o.generation => c.spec = o.spec /\ c.deleting = o.deleting
    ELSE c.deleting => ~o.finalizer

InformersKnown ==
  \A b \in Bootstraps :
    /\ Issued(api[b], used.edits)
    /\ Issued(cache[b], used.edits)
    /\ Older(cache[b], api[b])

(* An object the informer shows as being deleted is there until the worker *)
(* drops its finalizer.                                                    *)
StillThere(b) ==
  cache[b] # Gone /\ cache[b].deleting => api[b] # Gone /\ api[b].uid = cache[b].uid

(* Once an attempt has begun, either its object is going to be queued      *)
(* again or nobody has edited it: the interval the worker looks at when it *)
(* is done is that of the object, and the finalizer it wants is stored     *)
(* unless it failed.                                                       *)
Wanted ==
  api[work.key] # Gone /\ ~Pending(work.key) =>
    /\ api[work.key].spec = work.obj.spec
    /\ api[work.key].deleting = work.obj.deleting
    /\ work.read.finalizer => api[work.key].finalizer
    /\ pc \in {"status", "done"} /\ ~work.failed => api[work.key].finalizer
    /\ pc = "done" /\ ~work.failed => ~work.obj.deleting

(* A worker that prunes may have been shown an object that is gone; the    *)
(* next one of that name then has no finalizer it could take by mistake.   *)
JobKnown ==
  pc # "idle" =>
    /\ pc \notin {"prune", "done"} => ~work.obj.deleting /\ StillThere(work.key)
    /\ pc = "prune" =>
         /\ work.obj.deleting
         /\ api[work.key] # Gone => api[work.key].deleting \/ ~api[work.key].finalizer
    /\ ~work.obj.deleting => work.obj.finalizer
    /\ Wanted

Remembered == \A b \in Bootstraps : Needs(b) => Pending(b) \/ b \in delayed \/ Busy(b)

SchedulingInv == InformersKnown /\ JobKnown /\ Remembered

-----------------------------------------------------------------------------
(* The API server and the informers.                                       *)

LEMMA NoEvent ==
  ASSUME NEW o PROVE ~Event(o, o)
  BY DEF Event

LEMMA OlderItself ==
  ASSUME NEW o \in Object \cup {Gone}
  PROVE  Older(o, o)
  BY DEF Older, Object

(* Nothing is lost between the API server and the queue.                   *)
LEMMA StorePending ==
  ASSUME TypeOK, NEW b \in Bootstraps, NEW o, Store(b, o)
  PROVE  /\ api'[b] = o
         /\ cache'[b] = cache[b] \/ cache'[b] = o
         /\ \A d \in Bootstraps \ {b} :
              api'[d] = api[d] /\ cache'[d] = cache[d] /\ (Pending(d)' <=> Pending(d))
         /\ Pending(b)' <=> b \in queue \/ Event(cache[b], o)
<1>1. /\ api' = [api EXCEPT ![b] = o] /\ api'[b] = o
      /\ \A d \in Bootstraps \ {b} : api'[d] = api[d]
  BY DEF Store, TypeOK
<1>2. CASE CacheLag
  <2>1. UNCHANGED <<cache, queue>>
    BY <1>2 DEF Store
  <2> QED
    BY <1>1, <2>1 DEF Pending
<1>3. CASE ~CacheLag
  <2>1. Observe(b, o)
    BY <1>3 DEF Store
  <2>2. cache'[b] = o /\ \A d \in Bootstraps \ {b} : cache'[d] = cache[d]
    BY <2>1 DEF Observe, TypeOK
  <2>3. queue' = IF Event(cache[b], o) THEN queue \cup {b} ELSE queue
    BY <2>1 DEF Observe
  <2>4. \A d \in Bootstraps \ {b} : Pending(d)' <=> Pending(d)
    BY <1>1, <2>2, <2>3 DEF Pending
  <2>5. ~Event(cache'[b], api'[b])
    BY <1>1, <2>2, NoEvent
  <2>6. Pending(b)' <=> b \in queue'
    BY <2>5 DEF Pending
  <2> QED
    BY <1>1, <2>2, <2>3, <2>4, <2>6
<1> QED
  BY <1>2, <1>3

LEMMA StoreInforms ==
  ASSUME TypeOK, InformersKnown, NEW b \in Bootstraps, NEW o \in Object \cup {Gone},
         Store(b, o), used.edits <= used'.edits, used'.edits \in Nat,
         Issued(o, used'.edits), Older(cache[b], o)
  PROVE  InformersKnown'
<1>1. /\ api'[b] = o
      /\ cache'[b] = cache[b] \/ cache'[b] = o
      /\ \A d \in Bootstraps \ {b} : api'[d] = api[d] /\ cache'[d] = cache[d]
  BY StorePending
<1>2. \A p \in Object \cup {Gone} : Issued(p, used.edits) => Issued(p, used'.edits)
  BY DEF Issued, TypeOK, Object
<1>3. api \in [Bootstraps -> Object \cup {Gone}] /\ cache \in [Bootstraps -> Object \cup {Gone}]
  BY DEF TypeOK
<1>4. Older(o, o)
  BY OlderItself
<1>5. \A d \in Bootstraps : /\ Issued(api[d], used.edits) /\ Issued(cache[d], used.edits)
                            /\ Older(cache[d], api[d])
  BY DEF InformersKnown
<1>6. ASSUME NEW d \in Bootstraps
      PROVE  /\ Issued(api'[d], used'.edits) /\ Issued(cache'[d], used'.edits)
             /\ Older(cache'[d], api'[d])
  <2>1. Issued(api[d], used'.edits) /\ Issued(cache[d], used'.edits)
    BY <1>2, <1>3, <1>5
  <2>2. CASE d # b
    BY <1>1, <1>5, <2>1, <2>2
  <2>3. CASE d = b
    BY <1>1, <1>4, <2>1, <2>3
  <2> QED
    BY <2>2, <2>3
<1> QED
  BY <1>6 DEF InformersKnown

-----------------------------------------------------------------------------
LEMMA ReturnKeeps ==
  ASSUME work \in Work, NEW o \in Object, NEW failed, Return(o, failed),
         o.spec = work.obj.spec, o.deleting = work.obj.deleting,
         o.finalizer = work.obj.finalizer
  PROVE  /\ pc' = "conditions"
         /\ work'.key = work.key /\ work'.read = work.read
         /\ work'.obj.spec = work.obj.spec /\ work'.obj.deleting = work.obj.deleting
         /\ work'.obj.finalizer = work.obj.finalizer
<1>1. /\ pc' = "conditions" /\ work'.key = work.key /\ work'.read = work.read
      /\ work'.obj = [o EXCEPT !.observed = o.generation]
  BY DEF Return, Work
<1> QED
  BY <1>1 DEF Object

(* A working copy that has got another condition, or another status. *)
LEMMA CopyKept ==
  ASSUME NEW o \in Object, NEW reason \in Reasons
  PROVE  LET p == [o EXCEPT !.ready = reason]
         IN  /\ p \in Object /\ p.spec = o.spec
             /\ p.deleting = o.deleting /\ p.finalizer = o.finalizer
  BY DEF Object

(* The worker up to the patches: it never leaves the object it works on. *)
LEMMA AttemptKeeps ==
  ASSUME TypeOK, Check \/ Fetch \/ Inspect \/ ApplyFails \/ Wait \/ \E c \in CRDNames : Apply(c)
  PROVE  /\ pc \in {"check", "fetch", "inspect", "apply"}
         /\ pc' \in {"fetch", "inspect", "apply", "conditions"}
         /\ UNCHANGED <<api, cache, queue, delayed>>
         /\ work'.key = work.key /\ work'.read = work.read
         /\ work'.obj.spec = work.obj.spec /\ work'.obj.deleting = work.obj.deleting
         /\ work'.obj.finalizer = work.obj.finalizer
<1>1. /\ pc \in {"check", "fetch", "inspect", "apply"}
      /\ work \in Work /\ work.obj \in Object
      /\ UNCHANGED <<api, cache, queue, delayed>>
  BY DEF TypeOK, Check, Fetch, Inspect, ApplyFails, Wait, Apply, Work
<1> DEFINE SameJob == /\ work'.key = work.key /\ work'.read = work.read
                   /\ work'.obj.spec = work.obj.spec /\ work'.obj.deleting = work.obj.deleting
                   /\ work'.obj.finalizer = work.obj.finalizer
           Similar(o) == /\ o \in Object /\ o.spec = work.obj.spec
                         /\ o.deleting = work.obj.deleting /\ o.finalizer = work.obj.finalizer
<1>2. \A o, failed : Similar(o) /\ Return(o, failed) => SameJob /\ pc' = "conditions"
  BY <1>1, ReturnKeeps
<1>3. Similar(work.obj) /\ Similar(Counting) /\ Similar(Inspected) /\ Similar(Done)
  <2>1. Similar(Counting) /\ Similar(Inspected)
    BY <1>1, CountingType DEF Counting, Inspected, Object
  <2>2. Similar(Done)
    BY <1>1, CountedType DEF Done, Object, Work, Reasons
  <2> QED
    BY <1>1, <2>1, <2>2
<1>4. \A o \in {work.obj, Counting, Inspected}, reason \in Reasons : \A failed :
        Return([o EXCEPT !.ready = reason], failed) => SameJob /\ pc' = "conditions"
  <2> SUFFICES ASSUME NEW o \in {work.obj, Counting, Inspected}, NEW reason \in Reasons,
                      NEW failed, Return([o EXCEPT !.ready = reason], failed)
               PROVE  SameJob /\ pc' = "conditions"
    OBVIOUS
  <2> DEFINE p == [o EXCEPT !.ready = reason]
  <2>1. Similar(p)
    <3>1. Similar(o)
      BY <1>3
    <3> QED
      BY <3>1, CopyKept
  <2>2. Return(p, failed)
    OBVIOUS
  <2> HIDE DEF p
  <2> QED
    BY <1>2, <2>1, <2>2
<1>5. CASE Check
  <2>1. CASE /\ pc' = "fetch"
             /\ work' = [work EXCEPT !.revision = Answer.revision,
                                     !.obj.attempted = Answer.revision]
    BY <1>1, <2>1 DEF Work, Object
  <2>2. \A failed : \/ Return(work.obj, failed)
                    \/ Return([work.obj EXCEPT !.ready = "Succeeded"], failed)
                    => SameJob /\ pc' = "conditions"
    BY <1>2, <1>3, <1>4 DEF Reasons
  <2> HIDE DEF SameJob
  <2> QED
    BY <1>1, <1>5, <2>1, <2>2 DEF Check, SameJob
<1>6. CASE Fetch
  <2>1. CASE pc' = "inspect" /\ work' = [work EXCEPT !.content = Fetched]
    BY <1>1, <2>1 DEF Work
  <2>2. Return(work.obj, TRUE) => SameJob /\ pc' = "conditions"
    BY <1>2, <1>3
  <2> HIDE DEF SameJob
  <2> QED
    BY <1>1, <1>4, <1>6, <2>1, <2>2 DEF Fetch, Fail, Reasons, SameJob
<1>7. CASE Inspect
  <2>1. CASE pc' = "apply" /\ work' = [work EXCEPT !.obj = Inspected, !.todo = Objects]
    <3>1. work'.obj = Inspected /\ work'.key = work.key /\ work'.read = work.read
      BY <1>1, <2>1 DEF Work
    <3>2. /\ Inspected.spec = work.obj.spec /\ Inspected.deleting = work.obj.deleting
          /\ Inspected.finalizer = work.obj.finalizer
      BY <1>3
    <3> QED
      BY <1>1, <2>1, <3>1, <3>2
  <2>2. Return(Inspected, TRUE) => SameJob /\ pc' = "conditions"
    BY <1>2, <1>3
  <2> HIDE DEF SameJob
  <2> QED
    BY <1>1, <1>4, <1>7, <2>1, <2>2 DEF Inspect, Fail, Reasons, SameJob
<1>8. CASE ApplyFails
  BY <1>1, <1>4, <1>8 DEF ApplyFails, Fail, Reasons
<1>9. CASE Wait
  <2>1. \A failed : Return(Done, failed) => SameJob /\ pc' = "conditions"
    BY <1>2, <1>3
  <2> HIDE DEF SameJob
  <2> QED
    BY <1>1, <1>4, <1>9, <2>1 DEF Wait, Fail, Reasons, SameJob
<1>10. ASSUME NEW c \in CRDNames, Apply(c) PROVE SameJob /\ pc' = "apply"
  BY <1>10, ApplyWrites DEF Apply, Work
<1> QED
  BY <1>1, <1>5, <1>6, <1>7, <1>8, <1>9, <1>10

LEMMA FaultEdits ==
  ASSUME TypeOK, Fault \/ UNCHANGED used
  PROVE  used'.edits = used.edits
  BY DEF Fault, TypeOK

LEMMA InformersFrame ==
  ASSUME InformersKnown, UNCHANGED <<api, cache>>, used'.edits = used.edits
  PROVE  InformersKnown'
  BY DEF InformersKnown

LEMMA AttemptScheduled ==
  ASSUME TypeOK, SchedulingInv,
         Check \/ Fetch \/ Inspect \/ ApplyFails \/ Wait \/ \E c \in CRDNames : Apply(c)
  PROVE  SchedulingInv'
<1>1. /\ pc \notin {"idle", "prune", "done"} /\ pc' \notin {"idle", "prune", "status", "done"}
      /\ UNCHANGED <<api, cache, queue, delayed>>
      /\ work'.key = work.key /\ work'.read = work.read
      /\ work'.obj.spec = work.obj.spec /\ work'.obj.deleting = work.obj.deleting
      /\ work'.obj.finalizer = work.obj.finalizer
  BY AttemptKeeps
<1>2. Fault \/ UNCHANGED used
  BY DEF Check, Fetch, Inspect, ApplyFails, Wait, Apply
<1>3. InformersKnown'
  BY <1>1, <1>2, FaultEdits, InformersFrame DEF SchedulingInv
<1>4. \A b : (Pending(b)' <=> Pending(b)) /\ (StillThere(b) => StillThere(b)')
  BY <1>1 DEF Pending, StillThere
<1>5. JobKnown'
  BY <1>1, <1>4 DEF SchedulingInv, JobKnown, Wanted
<1>6. Remembered'
  BY <1>1, <1>4 DEF SchedulingInv, Remembered, Needs, Busy
<1> QED
  BY <1>3, <1>5, <1>6 DEF SchedulingInv

-----------------------------------------------------------------------------
(* Users: whatever they do to an object is an event that queues it, unless *)
(* it is gone, and the informer shows the past of what they leave.         *)

(* What o is to what was stored before it. *)
Follows(o, now) ==
  IF o = Gone THEN now # Gone => ~now.deleting
  ELSE IF now = Gone THEN ~o.deleting /\ ~o.finalizer
       ELSE o.uid = now.uid /\ o.finalizer = now.finalizer /\ (now.deleting => o.deleting)

(* A new object has a uid no informer has ever seen. *)
LEMMA CreateFollows ==
  ASSUME TypeOK, InformersKnown, NEW b \in Bootstraps, Create(b)
  PROVE  \E o \in Object : /\ Store(b, o) /\ Issued(o, used.edits + 1)
                           /\ Older(cache[b], o) /\ Event(cache[b], o) /\ Follows(o, api[b])
<1>1. PICK spec \in Specs : Store(b, NewObject(used.edits + 1, spec))
  BY DEF Create
<1> DEFINE o == NewObject(used.edits + 1, spec)
<1>2. used.edits \in Nat
  BY DEF TypeOK
<1>3. o \in Object /\ o # Gone
  BY <1>2, NewObjectType, ObjectAssumption
<1>4. o.uid = used.edits + 1 /\ o.deleting = FALSE /\ o.finalizer = FALSE
  BY DEF NewObject
<1>5. api[b] = Gone /\ Store(b, o)
  BY <1>1 DEF Create
<1> HIDE DEF o
<1>6. cache[b] # Gone => cache[b] \in Object /\ cache[b].uid # o.uid
  <2>1. cache[b] # Gone => cache[b] \in Object /\ cache[b].uid \in Nat /\ cache[b].uid <= used.edits
    BY DEF TypeOK, InformersKnown, Issued, Object
  <2> QED
    BY <1>2, <1>4, <2>1
<1>7. Issued(o, used.edits + 1)
  BY <1>2, <1>4 DEF Issued
<1>8. Older(cache[b], o) /\ Event(cache[b], o)
  BY <1>3, <1>4, <1>6 DEF Older, Event
<1>9. Follows(o, api[b])
  BY <1>3, <1>4, <1>5 DEF Follows
<1> QED
  BY <1>3, <1>5, <1>7, <1>8, <1>9

(* A later generation of the object.                                       *)
LEMMA NextGeneration ==
  ASSUME TypeOK, InformersKnown, NEW b \in Bootstraps, NEW o \in Object, api[b] # Gone,
         o.uid = api[b].uid, o.finalizer = api[b].finalizer,
         o.generation = api[b].generation + 1, api[b].deleting => o.deleting,
         o.deleting => o.finalizer
  PROVE  /\ Issued(o, used.edits + 1) /\ Older(cache[b], o) /\ Event(cache[b], o)
         /\ Follows(o, api[b])
<1>1. /\ api[b] \in Object /\ api[b].uid \in Nat /\ api[b].generation \in Nat
      /\ api[b].uid <= used.edits /\ used.edits \in Nat /\ o # Gone
      /\ cache[b] # Gone => cache[b] \in Object /\ cache[b].generation \in Nat
  BY ObjectAssumption DEF TypeOK, InformersKnown, Issued, Object
<1>2. Issued(o, used.edits + 1)
  BY <1>1 DEF Issued
<1>3. cache[b] # Gone /\ cache[b].uid = o.uid
        => /\ cache[b].generation < o.generation
           /\ cache[b].deleting => o.deleting
           /\ cache[b].finalizer => o.finalizer
  BY <1>1 DEF InformersKnown, Older
<1>4. cache[b] # Gone /\ cache[b].uid # o.uid => (cache[b].deleting => ~o.finalizer)
  BY <1>1 DEF InformersKnown, Older
<1>5. cache[b] # Gone /\ cache[b].uid = o.uid
        => /\ cache[b].generation <= o.generation
           /\ cache[b].generation # o.generation
  BY <1>1, <1>3
<1>6. Older(cache[b], o)
  BY <1>3, <1>4, <1>5 DEF Older
<1>7. Event(cache[b], o)
  BY <1>1, <1>5 DEF Event
<1>8. Follows(o, api[b])
  BY <1>1 DEF Follows
<1> QED
  BY <1>2, <1>6, <1>7, <1>8

LEMMA EditFollows ==
  ASSUME TypeOK, InformersKnown, NEW b \in Bootstraps, EditSpec(b) \/ Delete(b)
  PROVE  \E o \in Object \cup {Gone} :
           /\ Store(b, o) /\ Issued(o, used.edits + 1)
           /\ Older(cache[b], o) /\ Follows(o, api[b])
           /\ o # Gone => Event(cache[b], o)
<1>1. api[b] \in Object /\ api[b] # Gone /\ (api[b].deleting => api[b].finalizer)
  BY DEF EditSpec, Delete, TypeOK, InformersKnown, Issued
<1> DEFINE next == api[b].generation + 1
<1>2. next \in Nat
  BY <1>1 DEF Object
<1>3. CASE EditSpec(b)
  <2>1. PICK spec \in Specs : Store(b, [api[b] EXCEPT !.spec = spec, !.generation = next])
    BY <1>3 DEF EditSpec
  <2> DEFINE o == [api[b] EXCEPT !.spec = spec, !.generation = next]
  <2> HIDE DEF next
  <2>2. /\ o \in Object /\ o.generation = next /\ o.uid = api[b].uid
        /\ o.deleting = api[b].deleting /\ o.finalizer = api[b].finalizer
    BY <1>1, <1>2 DEF Object
  <2>3. Store(b, o)
    BY <2>1
  <2> HIDE DEF o
  <2>4. o.generation = api[b].generation + 1
    BY <2>2 DEF next
  <2> QED
    BY <1>1, <2>2, <2>3, <2>4, NextGeneration
<1>4. CASE Delete(b) /\ api[b].finalizer
  <2> DEFINE o == [api[b] EXCEPT !.deleting = TRUE, !.generation = next]
  <2>1. Store(b, o)
    BY <1>4 DEF Delete
  <2> HIDE DEF next
  <2>2. /\ o \in Object /\ o.generation = next /\ o.uid = api[b].uid
        /\ o.deleting = TRUE /\ o.finalizer = api[b].finalizer
    BY <1>1, <1>2 DEF Object
  <2> HIDE DEF o
  <2>3. o.generation = api[b].generation + 1
    BY <2>2 DEF next
  <2> QED
    BY <1>1, <1>4, <2>1, <2>2, <2>3, NextGeneration
<1>5. CASE Delete(b) /\ ~api[b].finalizer
  <2>1. Store(b, Gone) /\ ~api[b].deleting
    BY <1>5 DEF Delete
  <2> QED
    BY <2>1 DEF Issued, Older, Follows
<1> QED
  BY <1>3, <1>4, <1>5

LEMMA UsersScheduled ==
  ASSUME TypeOK, SchedulingInv, NEW b \in Bootstraps, Create(b) \/ EditSpec(b) \/ Delete(b)
  PROVE  SchedulingInv'
<1>1. /\ UNCHANGED <<delayed, pc, work>> /\ used.edits \in Nat
      /\ used'.edits = used.edits + 1
  BY DEF Create, EditSpec, Delete, Edit, TypeOK
<1>2. PICK o \in Object \cup {Gone} :
        /\ Store(b, o) /\ Issued(o, used.edits + 1)
        /\ Older(cache[b], o) /\ Follows(o, api[b])
        /\ o # Gone => Event(cache[b], o)
  BY CreateFollows, EditFollows DEF SchedulingInv
<1>3. /\ api'[b] = o
      /\ cache'[b] = cache[b] \/ cache'[b] = o
      /\ \A d \in Bootstraps \ {b} :
           api'[d] = api[d] /\ cache'[d] = cache[d] /\ (Pending(d)' <=> Pending(d))
      /\ o # Gone => Pending(b)'
  BY <1>2, StorePending
<1>4. InformersKnown'
  <2>1. used.edits <= used'.edits /\ used'.edits \in Nat /\ Issued(o, used'.edits)
    BY <1>1, <1>2
  <2> QED
    BY <1>2, <2>1, StoreInforms DEF SchedulingInv
<1>5. Remembered'
  BY <1>1, <1>3 DEF SchedulingInv, Remembered, Needs, Busy
<1>6. StillThere(b) => StillThere(b)'
  <2>1. CASE cache'[b] = o
    BY <1>3, <2>1 DEF StillThere
  <2>2. CASE cache'[b] = cache[b]
    BY <1>2, <1>3, <2>2 DEF StillThere, Follows, SchedulingInv, InformersKnown, Older
  <2> QED
    BY <1>3, <2>1, <2>2
<1>7. JobKnown'
  <2>1. pc # "idle" => work.key \in Bootstraps
    BY DEF TypeOK, Work
  <2>2. CASE work.key = b
    BY <1>1, <1>2, <1>3, <1>6, <2>2 DEF SchedulingInv, JobKnown, Wanted, Follows
  <2>3. ASSUME NEW d \in Bootstraps \ {b}, work.key = d PROVE JobKnown'
    BY <1>1, <1>3, <2>3 DEF SchedulingInv, JobKnown, Wanted, StillThere
  <2> QED
    BY <1>1, <2>1, <2>2, <2>3 DEF JobKnown
<1> QED
  BY <1>4, <1>5, <1>7 DEF SchedulingInv

-----------------------------------------------------------------------------
(* The patches: each stores what is wanted, or the attempt has failed.     *)
LEMMA PatchKeeps ==
  ASSUME TypeOK, NEW next, NEW needed, NEW patched, work \in Work,
         Patch(next, needed, patched)
  PROVE  /\ pc' = next /\ UNCHANGED delayed /\ used'.edits = used.edits
         /\ work'.key = work.key /\ work'.read = work.read /\ work'.obj = work.obj
         /\ \/ ~needed /\ UNCHANGED <<api, cache, queue>> /\ work' = work
            \/ api[work.key] # Gone /\ Store(work.key, patched) /\ work' = work
            \/ UNCHANGED <<api, cache, queue>> /\ work'.failed
<1>1. used'.edits = used.edits
  BY FaultEdits DEF Patch
<1>2. CASE ~needed /\ UNCHANGED <<api, cache, queue, work, used>>
  BY <1>1, <1>2 DEF Patch
<1>3. CASE /\ api[work.key] # Gone
           /\ Store(work.key, patched)
           /\ UNCHANGED <<work, used>>
  BY <1>1, <1>3 DEF Patch
<1>4. CASE work' = [work EXCEPT !.failed = TRUE] /\ UNCHANGED <<api, cache, queue>>
  <2>1. /\ work'.key = work.key /\ work'.read = work.read /\ work'.obj = work.obj
        /\ work'.failed = TRUE
    BY <1>4 DEF Work
  <2> QED
    BY <1>1, <1>4, <2>1 DEF Patch
<1> QED
  BY <1>2, <1>3, <1>4 DEF Patch

(* An object patched is the same one, with its spec, and with its          *)
(* finalizer if it had one; a patch is no event.                           *)
ObjectKept(k) ==
  /\ InformersKnown'
  /\ \A d \in Bootstraps \ {k} : api'[d] = api[d]
  /\ \A d \in Bootstraps : Pending(d)' <=> Pending(d)
  /\ StillThere(k) => StillThere(k)'
  /\ api'[k] # Gone =>
       /\ api[k] # Gone
       /\ api'[k].spec = api[k].spec
       /\ api'[k].deleting = api[k].deleting
       /\ api[k].finalizer => api'[k].finalizer

LEMMA NothingPatched ==
  ASSUME InformersKnown, UNCHANGED <<api, cache, queue>>, used'.edits = used.edits,
         NEW k \in Bootstraps
  PROVE  ObjectKept(k)
  BY InformersFrame DEF ObjectKept, Pending, StillThere

LEMMA ObjectPatched ==
  ASSUME TypeOK, InformersKnown, NEW k \in Bootstraps, NEW o \in Object,
         api[k] # Gone, Store(k, o), used'.edits = used.edits,
         o.uid = api[k].uid, o.generation = api[k].generation,
         o.spec = api[k].spec, o.deleting = api[k].deleting,
         \/ o.finalizer = api[k].finalizer
         \/ o.finalizer /\ StillThere(k)
  PROVE  ObjectKept(k) /\ api'[k] = o
<1>1. /\ api'[k] = o
      /\ cache'[k] = cache[k] \/ cache'[k] = o
      /\ \A d \in Bootstraps \ {k} : api'[d] = api[d] /\ (Pending(d)' <=> Pending(d))
      /\ Pending(k)' <=> k \in queue \/ Event(cache[k], o)
  BY StorePending
<1>2. o # Gone /\ api[k] \in Object /\ used.edits \in Nat /\ used.edits <= used'.edits
  BY ObjectAssumption DEF TypeOK
<1>3. Event(cache[k], o) <=> Event(cache[k], api[k])
  BY <1>2 DEF Event
<1>4. \A d \in Bootstraps : Pending(d)' <=> Pending(d)
  BY <1>1, <1>3 DEF Pending
<1>5. Issued(o, used'.edits) /\ Older(cache[k], o)
  <2>1. Issued(api[k], used.edits) /\ Older(cache[k], api[k])
    BY DEF InformersKnown
  <2>2. Issued(o, used'.edits)
    BY <1>2, <2>1 DEF Issued
  <2>3. Older(cache[k], o)
    BY <1>2, <2>1 DEF Older, StillThere
  <2> QED
    BY <2>2, <2>3
<1>6. InformersKnown'
  BY <1>2, <1>5, StoreInforms
<1>7. StillThere(k) => StillThere(k)'
  BY <1>1, <1>2 DEF StillThere
<1> QED
  BY <1>1, <1>2, <1>4, <1>6, <1>7 DEF ObjectKept

LEMMA ObjectsPatched ==
  ASSUME TypeOK, SchedulingInv, PatchConditions \/ PatchMetadata \/ PatchStatus,
         NEW k \in Bootstraps, work.key = k
  PROVE  /\ ObjectKept(k)
         /\ pc \in {"conditions", "metadata", "status"} /\ pc' \in {"metadata", "status", "done"}
         /\ pc' = "metadata" <=> pc = "conditions"
         /\ pc' = "status" <=> pc = "metadata"
         /\ UNCHANGED delayed
         /\ work'.key = k /\ work'.read = work.read /\ work'.obj = work.obj
         /\ ~work'.failed => ~work.failed
         /\ pc = "metadata" /\ ~work'.failed /\ api'[k] # Gone
              => work.read.finalizer \/ api'[k].finalizer
<1> DEFINE now == api[k]
<1>1. /\ work \in Work /\ work.obj \in Object /\ work.read \in Object
      /\ work.obj.finalizer /\ StillThere(k) /\ InformersKnown
      /\ now # Gone => now \in Object
  BY DEF TypeOK, Work, PatchConditions, PatchMetadata, PatchStatus, SchedulingInv, JobKnown
<1>2. CASE PatchConditions
  <2> DEFINE o == [now EXCEPT !.ready = work.obj.ready]
  <2>1. pc = "conditions" /\ Patch("metadata", work.obj.ready # work.read.ready, o)
    BY <1>2 DEF PatchConditions
  <2>2. now # Gone => /\ o \in Object /\ o.uid = now.uid /\ o.generation = now.generation
                      /\ o.spec = now.spec /\ o.deleting = now.deleting
                      /\ o.finalizer = now.finalizer
    BY <1>1 DEF Object
  <2> HIDE DEF o
  <2>3. /\ pc' = "metadata" /\ UNCHANGED delayed /\ used'.edits = used.edits
        /\ work'.key = k /\ work'.read = work.read /\ work'.obj = work.obj
        /\ \/ UNCHANGED <<api, cache, queue>>
           \/ now # Gone /\ Store(k, o)
        /\ ~work'.failed => ~work.failed
    BY <1>1, <2>1, PatchKeeps
  <2>4. ObjectKept(k)
    BY <1>1, <2>2, <2>3, NothingPatched, ObjectPatched
  <2> QED
    BY <2>1, <2>3, <2>4
<1>3. CASE PatchMetadata
  <2> DEFINE o == [now EXCEPT !.finalizer = work.obj.finalizer]
  <2>1. pc = "metadata" /\ Patch("status", work.obj.finalizer # work.read.finalizer, o)
    BY <1>3 DEF PatchMetadata
  <2>2. now # Gone => /\ o \in Object /\ o.uid = now.uid /\ o.generation = now.generation
                      /\ o.spec = now.spec /\ o.deleting = now.deleting
                      /\ o.finalizer
    BY <1>1 DEF Object
  <2> HIDE DEF o
  <2>3. /\ pc' = "status" /\ UNCHANGED delayed /\ used'.edits = used.edits
        /\ work'.key = k /\ work'.read = work.read /\ work'.obj = work.obj
        /\ \/ work.obj.finalizer = work.read.finalizer /\ UNCHANGED <<api, cache, queue>>
                /\ work' = work
           \/ now # Gone /\ Store(k, o) /\ work' = work
           \/ UNCHANGED <<api, cache, queue>> /\ work'.failed
    BY <1>1, <2>1, PatchKeeps
  <2>4. CASE UNCHANGED <<api, cache, queue>>
    <3>1. ObjectKept(k)
      BY <1>1, <2>3, <2>4, NothingPatched
    <3>2. ~work'.failed => ~work.failed /\ (now # Gone => work.read.finalizer \/ now.finalizer)
      BY <1>1, <2>2, <2>3, <2>4, StorePending
    <3> QED
      BY <2>1, <2>3, <2>4, <3>1, <3>2
  <2>5. CASE now # Gone /\ Store(k, o) /\ work' = work
    <3>1. ObjectKept(k) /\ api'[k] = o
      BY <1>1, <2>2, <2>3, <2>5, ObjectPatched
    <3> QED
      BY <2>1, <2>2, <2>3, <2>5, <3>1
  <2> QED
    BY <2>3, <2>4, <2>5
<1>4. CASE PatchStatus
  <2>1. pc = "status" /\ \E needed, o : Patch("done", needed, o)
    BY <1>4 DEF PatchStatus
  <2>2. /\ pc' = "done" /\ UNCHANGED delayed /\ used'.edits = used.edits
        /\ work'.key = k /\ work'.read = work.read /\ work'.obj = work.obj
        /\ ~work'.failed => ~work.failed
    BY <1>1, <2>1, PatchKeeps
  <2>3. ObjectKept(k)
    <3>1. CASE UNCHANGED <<api, cache, queue>>
      BY <1>1, <2>2, <3>1, NothingPatched
    <3>2. CASE ~UNCHANGED <<api, cache, queue>>
      <4>1. PICK o \in Object :
              /\ api[k] # Gone /\ Store(k, o)
              /\ o.uid = api[k].uid /\ o.generation = api[k].generation
              /\ o.deleting = api[k].deleting
              /\ o.spec = api[k].spec /\ o.finalizer = api[k].finalizer
        BY <1>4, <3>2, StatusPatched
      <4> QED
        BY <1>1, <2>2, <4>1, ObjectPatched
    <3> QED
      BY <3>1, <3>2
  <2> QED
    BY <2>1, <2>2, <2>3
<1> QED
  BY <1>2, <1>3, <1>4

LEMMA PatchScheduled ==
  ASSUME TypeOK, SchedulingInv, PatchConditions \/ PatchMetadata \/ PatchStatus
  PROVE  SchedulingInv'
<1>1. PICK k \in Bootstraps : work.key = k
  BY DEF TypeOK, Work, PatchConditions, PatchMetadata, PatchStatus
<1>2. /\ ObjectKept(k)
      /\ pc \in {"conditions", "metadata", "status"} /\ pc' \in {"metadata", "status", "done"}
      /\ pc' = "metadata" <=> pc = "conditions"
      /\ pc' = "status" <=> pc = "metadata"
      /\ UNCHANGED delayed
      /\ work'.key = k /\ work'.read = work.read /\ work'.obj = work.obj
      /\ ~work'.failed => ~work.failed
      /\ pc = "metadata" /\ ~work'.failed /\ api'[k] # Gone
           => work.read.finalizer \/ api'[k].finalizer
  BY <1>1, ObjectsPatched
<1>3. JobKnown'
  BY <1>1, <1>2 DEF ObjectKept, SchedulingInv, JobKnown, Wanted
<1>4. Remembered'
  BY <1>1, <1>2 DEF ObjectKept, SchedulingInv, Remembered, Needs, Busy
<1> QED
  BY <1>2, <1>3, <1>4 DEF ObjectKept, SchedulingInv

-----------------------------------------------------------------------------
(* The worker takes a key, deletes an object, is done.                     *)
LEMMA BeginFailsScheduled ==
  ASSUME TypeOK, SchedulingInv, NEW b \in Bootstraps, BeginFails(b)
  PROVE  SchedulingInv'
<1>1. /\ pc = "idle" /\ queue' = queue \ {b} /\ delayed' = delayed \cup {b}
      /\ UNCHANGED <<api, cache, pc, work>>
  BY DEF BeginFails
<1>2. used'.edits = used.edits
  BY FaultEdits DEF BeginFails
<1>3. InformersKnown'
  BY <1>1, <1>2, InformersFrame DEF SchedulingInv
<1> QED
  BY <1>1, <1>3 DEF SchedulingInv, JobKnown, Pending, Remembered, Needs, Busy

LEMMA BeginScheduled ==
  ASSUME TypeOK, SchedulingInv, NEW b \in Bootstraps,
         BeginIgnored(b) \/ BeginReconcile(b) \/ BeginDelete(b)
  PROVE  SchedulingInv'
<1>1. /\ pc = "idle" /\ queue' = queue \ {b} /\ UNCHANGED <<api, cache, delayed, used>>
      /\ Issued(cache[b], used.edits) /\ Older(cache[b], api[b])
      /\ cache[b] \in Object \cup {Gone} /\ api[b] \in Object \cup {Gone}
  BY DEF BeginIgnored, BeginReconcile, BeginDelete, Take, SchedulingInv, InformersKnown,
         TypeOK
<1>2. InformersKnown'
  BY <1>1, InformersFrame DEF SchedulingInv
<1>3. /\ \A d \in Bootstraps \ {b} : Pending(d)' <=> Pending(d)
      /\ Pending(b)' <=> Event(cache[b], api[b])
  BY <1>1 DEF Pending
<1>4. CASE BeginIgnored(b)
  <2>1. cache[b] = Gone /\ UNCHANGED <<pc, work>>
    BY <1>1, <1>4 DEF BeginIgnored, Ignored, Issued
  <2>2. api[b] # Gone => Pending(b)'
    BY <1>3, <2>1 DEF Event
  <2>3. Remembered'
    BY <1>1, <1>3, <2>1, <2>2 DEF SchedulingInv, Remembered, Needs, Busy
  <2> QED
    BY <1>1, <1>2, <2>1, <2>3 DEF SchedulingInv, JobKnown
<1>5. CASE BeginReconcile(b) \/ BeginDelete(b)
  <2>1. cache[b] \in Object /\ cache[b] # Gone
    BY <1>1, <1>5 DEF BeginReconcile, BeginDelete, Ignored
  <2>2. /\ work'.key = b /\ work'.read = cache[b]
        /\ \/ /\ pc' = "check" /\ ~cache[b].deleting
              /\ work'.obj = [cache[b] EXCEPT !.finalizer = TRUE]
           \/ /\ pc' = "prune" /\ cache[b].deleting
              /\ work'.obj = [cache[b] EXCEPT !.finalizer = FALSE]
    <3>1. CASE BeginReconcile(b)
      BY <3>1 DEF BeginReconcile, Job
    <3>2. CASE BeginDelete(b)
      BY <3>2 DEF BeginDelete, Job
    <3> QED
      BY <1>5, <3>1, <3>2
  <2>3. /\ work'.obj.spec = cache[b].spec /\ work'.obj.deleting = cache[b].deleting
        /\ pc' = "check" => work'.obj.finalizer
    BY <2>1, <2>2 DEF Object
  <2>4. api[b] # Gone /\ ~Pending(b)' =>
          /\ api[b].spec = cache[b].spec /\ api[b].deleting = cache[b].deleting
          /\ cache[b].finalizer => api[b].finalizer
    BY <1>1, <1>3, <2>1 DEF Event, Older
  <2>5. Wanted'
    BY <1>1, <2>2, <2>3, <2>4 DEF Wanted
  <2>6. pc' = "prune" => (api[b] # Gone => api[b].deleting \/ ~api[b].finalizer)
    BY <1>1, <2>1, <2>2 DEF Older
  <2>7. pc' = "check" => StillThere(b)'
    BY <1>1, <2>2 DEF StillThere
  <2>8. JobKnown'
    BY <1>1, <2>2, <2>3, <2>5, <2>6, <2>7 DEF JobKnown
  <2>9. Remembered'
    BY <1>1, <1>3, <2>2 DEF SchedulingInv, Remembered, Needs, Busy
  <2> QED
    BY <1>2, <2>8, <2>9 DEF SchedulingInv
<1> QED
  BY <1>4, <1>5

(* An object is pruned for its deletion; one that was created under its    *)
(* name has no finalizer yet, and is still to be announced.                *)
LEMMA PruneScheduled ==
  ASSUME TypeOK, SchedulingInv,
         DropFinalizer \/ \E c \in CRDNames : PruneCRD(c) \/ PruneFails(c)
  PROVE  SchedulingInv'
<1>1. PICK k \in Bootstraps : work.key = k
  BY DEF TypeOK, Work, DropFinalizer, PruneCRD, PruneFails
<1>2. /\ pc = "prune" /\ work \in Work /\ work.obj.deleting /\ InformersKnown
      /\ api[k] # Gone => /\ api[k] \in Object
                          /\ api[k].deleting \/ ~api[k].finalizer
      /\ api[k] # Gone /\ ~Pending(k) => api[k].deleting
  BY <1>1 DEF TypeOK, DropFinalizer, PruneCRD, PruneFails, SchedulingInv, JobKnown, Wanted
<1>3. ASSUME UNCHANGED <<api, cache, queue, delayed>>, used'.edits = used.edits,
             work'.key = k, work'.read = work.read, work'.obj = work.obj,
             pc' = "prune" \/ (pc' = "done" /\ work'.failed)
      PROVE  SchedulingInv'
  <2>1. InformersKnown'
    BY <1>2, <1>3, InformersFrame
  <2>2. \A d \in Bootstraps : Pending(d)' <=> Pending(d)
    BY <1>3 DEF Pending
  <2>3. JobKnown'
    BY <1>1, <1>2, <1>3, <2>2 DEF SchedulingInv, JobKnown, Wanted
  <2>4. Remembered'
    BY <1>1, <1>2, <1>3, <2>2 DEF SchedulingInv, Remembered, Needs, Busy
  <2> QED
    BY <2>1, <2>3, <2>4 DEF SchedulingInv
<1>4. CASE \E c \in CRDNames : PruneCRD(c) \/ PruneFails(c)
  <2>1. /\ UNCHANGED <<api, cache, queue, delayed>>
        /\ work'.key = k /\ work'.read = work.read /\ work'.obj = work.obj
        /\ pc' = "prune" \/ (pc' = "done" /\ work'.failed)
    BY <1>1, <1>2, <1>4 DEF PruneCRD, PruneFails, Work
  <2>2. used'.edits = used.edits
    BY <1>4, FaultEdits DEF PruneCRD, PruneFails
  <2> QED
    BY <1>3, <2>1, <2>2
<1>5. CASE DropFinalizer
  <2> DEFINE o == IF api[k].deleting THEN Gone ELSE [api[k] EXCEPT !.finalizer = FALSE]
  <2>1. Patch("done", TRUE, o)
    BY <1>1, <1>5 DEF DropFinalizer
  <2>2. api[k] # Gone => (o = Gone /\ api[k].deleting) \/ (o = api[k] /\ ~api[k].deleting)
    <3>1. CASE api[k] # Gone /\ ~api[k].deleting
      <4>1. api[k] \in Object /\ api[k].finalizer = FALSE
        BY <1>2, <3>1 DEF Object
      <4>2. [api[k] EXCEPT !.finalizer = FALSE] = api[k]
        BY <4>1 DEF Object
      <4> QED
        BY <3>1, <4>2
    <3> QED
      BY <3>1
  <2> HIDE DEF o
  <2>3. /\ pc' = "done" /\ UNCHANGED delayed /\ used'.edits = used.edits
        /\ work'.key = k /\ work'.read = work.read /\ work'.obj = work.obj
        /\ \/ api[k] # Gone /\ Store(k, o)
           \/ UNCHANGED <<api, cache, queue>> /\ work'.failed
    BY <1>1, <1>2, <2>1, PatchKeeps
  <2>4. CASE UNCHANGED <<api, cache, queue>> /\ work'.failed
    BY <1>3, <2>3, <2>4
  <2>5. CASE api[k] # Gone /\ Store(k, Gone)
    <3>1. /\ api'[k] = Gone
          /\ \A d \in Bootstraps \ {k} : api'[d] = api[d] /\ (Pending(d)' <=> Pending(d))
      BY <2>5, StorePending
    <3>2. InformersKnown'
      <4>1. used.edits <= used'.edits /\ used'.edits \in Nat
        BY <2>3 DEF TypeOK
      <4>2. Issued(Gone, used'.edits) /\ Older(cache[k], Gone)
        BY DEF Issued, Older
      <4> QED
        BY <1>2, <2>5, <4>1, <4>2, StoreInforms
    <3>3. JobKnown'
      BY <1>2, <2>3, <3>1 DEF JobKnown, Wanted
    <3>4. Remembered'
      BY <1>1, <1>2, <2>3, <3>1 DEF SchedulingInv, Remembered, Needs, Busy
    <3> QED
      BY <3>2, <3>3, <3>4 DEF SchedulingInv
  <2>6. CASE api[k] # Gone /\ ~api[k].deleting /\ Store(k, api[k])
    <3>1. ObjectKept(k)
      BY <1>2, <2>3, <2>6, ObjectPatched
    <3>2. Pending(k)'
      BY <1>2, <2>6, <3>1 DEF ObjectKept
    <3>3. JobKnown'
      BY <1>2, <2>3, <3>2 DEF JobKnown, Wanted
    <3>4. Remembered'
      BY <1>1, <1>2, <2>3, <3>1, <3>2 DEF ObjectKept, SchedulingInv, Remembered, Needs, Busy
    <3> QED
      BY <3>1, <3>3, <3>4 DEF ObjectKept, SchedulingInv
  <2> QED
    BY <2>2, <2>3, <2>4, <2>5, <2>6
<1> QED
  BY <1>4, <1>5

(* The result of Reconcile is enough to come back to the object. *)
LEMMA FinishScheduled ==
  ASSUME TypeOK, SchedulingInv, Finish
  PROVE  SchedulingInv'
<1>1. /\ pc = "done" /\ pc' = "idle" /\ UNCHANGED <<api, cache, queue, used>>
      /\ work.key \in Bootstraps /\ delayed \subseteq delayed'
      /\ Requeued => work.key \in delayed'
  BY DEF Finish, TypeOK, Work
<1>2. ~Requeued /\ Needs(work.key) => Pending(work.key)
  BY <1>1 DEF Requeued, Needs, SchedulingInv, JobKnown, Wanted
<1>3. \A d \in Bootstraps : (Pending(d)' <=> Pending(d)) /\ (Needs(d)' <=> Needs(d))
  BY <1>1 DEF Pending, Needs
<1>4. Remembered'
  BY <1>1, <1>2, <1>3 DEF SchedulingInv, Remembered, Busy
<1>5. InformersKnown'
  BY <1>1, InformersFrame DEF SchedulingInv
<1> QED
  BY <1>1, <1>4, <1>5 DEF SchedulingInv, JobKnown

(* An informer catches up; if it missed anything it queues the key.        *)
LEMMA SyncScheduled ==
  ASSUME TypeOK, SchedulingInv, NEW b \in Bootstraps, Sync(b)
  PROVE  SchedulingInv'
<1>1. /\ UNCHANGED <<api, delayed, pc, work, used>> /\ cache' = [cache EXCEPT ![b] = api[b]]
      /\ queue' = IF Event(cache[b], api[b]) THEN queue \cup {b} ELSE queue
  BY DEF Sync, Observe
<1>2. cache'[b] = api[b] /\ \A d \in Bootstraps \ {b} : cache'[d] = cache[d]
  BY <1>1 DEF TypeOK
<1>3. \A d \in Bootstraps : Pending(d)' <=> Pending(d)
  BY <1>1, <1>2, NoEvent DEF Pending
<1>4. \A d \in Bootstraps : StillThere(d) => StillThere(d)'
  BY <1>1, <1>2 DEF StillThere
<1>5. InformersKnown'
  <2>1. Older(api[b], api[b])
    BY OlderItself DEF TypeOK
  <2> QED
    BY <1>1, <1>2, <2>1 DEF SchedulingInv, InformersKnown
<1>6. JobKnown'
  <2>1. pc # "idle" => work.key \in Bootstraps
    BY DEF TypeOK, Work
  <2>2. ASSUME NEW k \in Bootstraps, work.key = k PROVE JobKnown'
    BY <1>1, <1>3, <1>4, <2>2 DEF SchedulingInv, JobKnown, Wanted
  <2> QED
    BY <1>1, <2>1, <2>2 DEF JobKnown
<1>7. Remembered'
  BY <1>1, <1>3 DEF SchedulingInv, Remembered, Needs, Busy
<1> QED
  BY <1>5, <1>6, <1>7 DEF SchedulingInv

LEMMA SchedulingStep ==
  ASSUME TypeOK, SchedulingInv, [Next]_vars
  PROVE  SchedulingInv'
<1>1. CASE Crash
  <2>1. /\ pc' = "idle" /\ UNCHANGED api /\ cache' = api
        /\ used'.edits = used.edits
        /\ \A b \in Bootstraps : api[b] # Gone => b \in queue'
    BY <1>1 DEF Crash, TypeOK
  <2>2. \A b \in Bootstraps : Older(api[b], api[b])
    BY OlderItself DEF TypeOK
  <2>3. InformersKnown'
    BY <2>1, <2>2 DEF SchedulingInv, InformersKnown
  <2> QED
    BY <2>1, <2>3 DEF SchedulingInv, JobKnown, Remembered, Needs, Pending
<1>2. CASE Release \/ UNCHANGED vars \/ \E c \in CRDNames : SyncCRD(c)
  <2>1. UNCHANGED <<api, cache, queue, delayed, pc, work>> /\ used'.edits = used.edits
    BY <1>2 DEF Release, SyncCRD, vars, TypeOK
  <2>2. InformersKnown'
    BY <2>1, InformersFrame DEF SchedulingInv
  <2> QED
    BY <2>1, <2>2
       DEF SchedulingInv, JobKnown, Wanted, StillThere, Pending, Remembered, Needs, Busy
<1>3. ASSUME NEW b \in Bootstraps, TimerFires(b) PROVE SchedulingInv'
  <2>1. /\ UNCHANGED <<api, cache, pc, work, used>> /\ queue' = queue \cup {b}
        /\ delayed' = delayed \ {b}
    BY <1>3 DEF TimerFires
  <2>2. InformersKnown'
    BY <2>1, InformersFrame DEF SchedulingInv
  <2> QED
    BY <2>1, <2>2
       DEF SchedulingInv, JobKnown, Wanted, StillThere, Pending, Remembered, Needs, Busy
<1> QED
  BY <1>1, <1>2, <1>3, UsersScheduled, BeginScheduled, BeginFailsScheduled, SyncScheduled, AttemptScheduled,
     PatchScheduled, PruneScheduled, FinishScheduled
     DEF Next, Environment, Delivery, Begin, Worker

LEMMA SchedulingKnown == Spec => []SchedulingInv
<1>1. Init => SchedulingInv
  BY DEF Init, SchedulingInv, InformersKnown, Issued, Older, JobKnown, Remembered, Needs
<1> QED
  BY <1>1, SchedulingStep, TypeCorrect, PTL DEF Spec

(* SetupWithManager:65 and the results of Reconcile: in every state a      *)
(* Bootstrap that polls, is being deleted or still lacks its finalizer is  *)
(* queued, delayed or being reconciled, or an event for it is on its way,  *)
(* however far the informers trail.                                        *)
THEOREM NobodyIsForgotten == Spec => []AlwaysScheduled
<1>1. SchedulingInv => AlwaysScheduled
  BY DEF SchedulingInv, Remembered, Pending, AlwaysScheduled, Scheduled, Busy
<1> QED
  BY <1>1, SchedulingKnown, PTL

-----------------------------------------------------------------------------
(* What the status shows is there, for a single Bootstrap.                 *)

Single == \A b, d \in Bootstraps : b = d

(* An informer only ever moves to what the API server holds. *)
LEMMA CacheMoves ==
  ASSUME TypeOK, [Next]_vars, NEW b \in Bootstraps
  PROVE  cache'[b] = cache[b] \/ cache'[b] = api'[b]
<1>1. CASE UNCHANGED cache
  BY <1>1
<1>2. CASE Crash
  BY <1>2 DEF Crash
<1>3. ASSUME NEW d \in Bootstraps, NEW o, Store(d, o)
      PROVE  cache'[b] = cache[b] \/ cache'[b] = api'[b]
  BY <1>3, StorePending
<1>4. CASE \E d \in Bootstraps : Sync(d)
  BY <1>4 DEF Sync, Observe, TypeOK
<1>5. CASE PatchConditions \/ PatchMetadata \/ PatchStatus \/ DropFinalizer
  <2>1. work \in Work /\ work.key \in Bootstraps
    BY <1>5 DEF TypeOK, Work, PatchConditions, PatchMetadata, PatchStatus, DropFinalizer
  <2>2. \E next, needed, patched : Patch(next, needed, patched)
    BY <1>5 DEF PatchConditions, PatchMetadata, PatchStatus, DropFinalizer
  <2> QED
    BY <1>1, <1>3, <2>1, <2>2, PatchKeeps
<1>6. CASE \E d \in Bootstraps : Create(d) \/ EditSpec(d) \/ Delete(d)
  BY <1>3, <1>6 DEF Create, EditSpec, Delete
<1> QED
  BY <1>1, <1>2, <1>4, <1>5, <1>6
     DEF Next, Environment, Delivery, Begin, Worker, vars, Release, TimerFires, SyncCRD,
         BeginIgnored, BeginFails, BeginReconcile, BeginDelete, Take, Check, Fetch, Inspect, Apply,
         ApplyFails, Wait, PruneCRD, PruneFails, Finish

(* An object that stays is the same object, and does not come back from    *)
(* its deletion.                                                           *)
LEMMA NotRevived ==
  ASSUME TypeOK, SchedulingInv, [Next]_vars, NEW b \in Bootstraps,
         api[b] # Gone, api'[b] # Gone
  PROVE  api'[b].uid = api[b].uid /\ (api[b].deleting => api'[b].deleting)
<1> DEFINE Same(d) == api'[d] # Gone =>
                        api'[d].uid = api[d].uid /\ (api[d].deleting => api'[d].deleting)
<1>1. CASE UNCHANGED api
  BY <1>1
<1>2. ASSUME NEW k \in Bootstraps, api[k] # Gone, UNCHANGED api \/ \E o : Store(k, o),
             Same(k)
      PROVE  Same(b)
  BY <1>2, StorePending
<1>3. CASE PatchConditions \/ PatchMetadata \/ PatchStatus \/ DropFinalizer
  <2>1. work \in Work /\ work.key \in Bootstraps
    BY <1>3 DEF TypeOK, Work, PatchConditions, PatchMetadata, PatchStatus, DropFinalizer
  <2> DEFINE now == api[work.key]
  <2>2. now # Gone => now \in Object
    BY <2>1 DEF TypeOK
  <2>3. CASE PatchConditions
    <3> DEFINE o == [now EXCEPT !.ready = work.obj.ready]
    <3>1. \E next, needed : Patch(next, needed, o)
      BY <2>3 DEF PatchConditions
    <3>2. now # Gone => o.uid = now.uid /\ o.deleting = now.deleting
      BY <2>2 DEF Object
    <3> HIDE DEF o
    <3> QED
      BY <1>1, <1>2, <2>1, <3>1, <3>2, PatchKeeps, StorePending
  <2>4. CASE PatchMetadata
    <3> DEFINE o == [now EXCEPT !.finalizer = work.obj.finalizer]
    <3>1. \E next, needed : Patch(next, needed, o)
      BY <2>4 DEF PatchMetadata
    <3>2. now # Gone => o.uid = now.uid /\ o.deleting = now.deleting
      BY <2>2 DEF Object
    <3> HIDE DEF o
    <3> QED
      BY <1>1, <1>2, <2>1, <3>1, <3>2, PatchKeeps, StorePending
  <2>5. CASE PatchStatus
    <3>1. CASE \E o : /\ Store(work.key, o) /\ now # Gone
                      /\ o.uid = now.uid /\ o.deleting = now.deleting
      BY <1>2, <2>1, <3>1, StorePending
    <3> QED
      BY <1>1, <2>5, <3>1, StatusPatched
  <2>6. CASE DropFinalizer
    <3> DEFINE o == IF now.deleting THEN Gone ELSE [now EXCEPT !.finalizer = FALSE]
    <3>1. \E next, needed : Patch(next, needed, o)
      BY <2>6 DEF DropFinalizer
    <3>2. now # Gone /\ o # Gone => o.uid = now.uid /\ ~now.deleting
      BY <2>2 DEF Object
    <3> HIDE DEF o
    <3> QED
      BY <1>1, <1>2, <2>1, <3>1, <3>2, PatchKeeps, StorePending
  <2> QED
    BY <1>3, <2>3, <2>4, <2>5, <2>6
<1>4. ASSUME NEW d \in Bootstraps, Create(d) \/ EditSpec(d) \/ Delete(d) PROVE Same(b)
  <2>1. PICK o \in Object \cup {Gone} : Store(d, o) /\ Follows(o, api[d])
    BY <1>4, CreateFollows, EditFollows DEF SchedulingInv
  <2>2. CASE api[d] # Gone
    BY <1>2, <2>1, <2>2, StorePending DEF Follows
  <2>3. CASE api[d] = Gone
    BY <2>1, <2>3, StorePending
  <2> QED
    BY <2>2, <2>3
<1> QED
  BY <1>1, <1>3, <1>4, ApiWritten

(* An object created while its informer still shows the deleted one of the *)
(* same name has nothing on record, nor has one a pruning worker meets.    *)
Fresh(c, o) == c # Gone /\ o # Gone /\ c.deleting /\ c.uid # o.uid => o.applied = Gone

RecordKnown ==
  /\ \A b \in Bootstraps : Fresh(cache[b], api[b])
  /\ pc = "prune" /\ api[work.key] # Gone
       => api[work.key].deleting \/ api[work.key].applied = Gone

LEMMA KeepsPruning ==
  ASSUME TypeOK, [Next]_vars, pc' = "prune"
  PROVE  \/ pc = "prune" /\ work \in Work /\ work'.key = work.key
         \/ \E b \in Bootstraps : BeginDelete(b)
<1>1. CASE Check \/ Fetch \/ Inspect \/ ApplyFails \/ Wait \/ \E c \in CRDNames : Apply(c)
  BY <1>1, AttemptKeeps
<1>2. CASE PatchConditions \/ PatchMetadata \/ PatchStatus \/ DropFinalizer
  BY <1>2 DEF PatchConditions, PatchMetadata, PatchStatus, DropFinalizer, Patch
<1>3. CASE UNCHANGED <<pc, work>>
  BY <1>3 DEF TypeOK
<1> QED
  BY <1>1, <1>2, <1>3, PruneWrites
     DEF Next, Environment, Delivery, Begin, Worker, vars, Create, EditSpec, Delete, Edit,
         Release, Crash, Sync, TimerFires, SyncCRD, BeginIgnored, BeginFails, BeginReconcile, Take,
         PruneFails, Finish

LEMMA RecordStep ==
  ASSUME TypeOK, SchedulingInv, RecordKnown, [Next]_vars
  PROVE  RecordKnown'
<1>1. ASSUME NEW b \in Bootstraps PROVE Fresh(cache'[b], api'[b])
  <2>1. CASE cache'[b] = api'[b]
    BY <2>1 DEF Fresh
  <2>2. CASE cache'[b] = cache[b] /\ ~PatchStatus
    <3>1. Kept(b)
      BY <2>2, KeptElsewhere
    <3>2. api[b] # Gone /\ api'[b] # Gone => api'[b].uid = api[b].uid
      BY NotRevived
    <3> QED
      BY <2>2, <3>1, <3>2 DEF Fresh, Kept, RecordKnown
  <2>3. CASE cache'[b] = cache[b] /\ PatchStatus
    <3>1. PICK k \in Bootstraps : work.key = k
      BY <2>3 DEF TypeOK, Work, PatchStatus
    <3>2. ObjectKept(k)
      BY <2>3, <3>1, ObjectsPatched
    <3>3. CASE b # k
      BY <2>3, <3>2, <3>3 DEF ObjectKept, RecordKnown
    <3>4. CASE b = k
      <4>1. StillThere(k)'
        BY <2>3, <3>1, <3>2 DEF ObjectKept, SchedulingInv, JobKnown, PatchStatus
      <4> QED
        BY <3>4, <4>1 DEF StillThere, Fresh
    <3> QED
      BY <3>3, <3>4
  <2> QED
    BY <2>1, <2>2, <2>3, CacheMoves
<1>2. ASSUME NEW b \in Bootstraps, BeginDelete(b), api'[work'.key] # Gone
      PROVE  api'[work'.key].deleting \/ api'[work'.key].applied = Gone
  <2>1. UNCHANGED api /\ work'.key = b /\ cache[b] # Gone /\ cache[b].deleting
    BY <1>2 DEF BeginDelete, Take, Ignored, Job
  <2> QED
    BY <1>2, <2>1 DEF RecordKnown, Fresh, SchedulingInv, InformersKnown, Older
<1>3. ASSUME pc = "prune", work \in Work, work'.key = work.key, api'[work'.key] # Gone
      PROVE  api'[work'.key].deleting \/ api'[work'.key].applied = Gone
  <2>1. PICK k \in Bootstraps : work.key = k
    BY <1>3 DEF Work
  <2>2. Kept(k)
    BY <1>3, KeptElsewhere DEF PatchStatus
  <2>3. api[k] # Gone => (api[k].deleting => api'[k].deleting)
    BY <1>3, <2>1, NotRevived
  <2> QED
    BY <1>3, <2>1, <2>2, <2>3 DEF Kept, RecordKnown
<1> QED
  BY <1>1, <1>2, <1>3, KeepsPruning DEF RecordKnown

LEMMA RecordsKnown == Spec => []RecordKnown
<1>1. Init => RecordKnown
  BY DEF Init, RecordKnown, Fresh
<1> QED
  BY <1>1, RecordStep, TypeCorrect, SchedulingKnown, PTL DEF Spec

LEMMA BackedStep ==
  ASSUME LocalSpecs, VersionedSpecs, Single, TypeOK, SchedulingInv, RecordKnown,
         AttemptIsInstalled, StatusIsBacked, [Next]_vars
  PROVE  StatusIsBacked'
<1> SUFFICES ASSUME NEW b \in Bootstraps, api'[b] # Gone, ~api'[b].deleting,
                    api'[b].applied # Gone, NEW c \in Bundle[Named(api'[b].applied)]
             PROVE  crds'["local"][c] # Gone
  BY DEF StatusIsBacked
<1>1. api[b] # Gone => ~api[b].deleting
  BY NotRevived
<1>2. ASSUME NEW d \in CRDNames, PruneCRD(d) PROVE FALSE
  <2>1. work.key = b /\ UNCHANGED api /\ pc = "prune"
    BY <1>2, PruneWrites DEF Single, Work
  <2> QED
    BY <1>1, <2>1 DEF RecordKnown
<1>3. ASSUME NEW d \in CRDNames, Apply(d) PROVE crds'["local"][c] # Gone
  <2>1. /\ UNCHANGED api
        /\ \E k \in Clusters, i \in Installed : crds' = [crds EXCEPT ![k][d] = i]
    <3>1. [content |-> work.content, by |-> work.key] \in Installed
      BY <1>3, ApplyWrites DEF TypeOK, Installed, Work
    <3> QED
      BY <1>3, <3>1, ApplyWrites
  <2>2. crds["local"][c] # Gone
    BY <1>1, <2>1 DEF StatusIsBacked
  <2> QED
    BY <2>1, <2>2, InstalledAssumption DEF TypeOK, Clusters
<1>4. CASE UNCHANGED crds /\ api[b] # Gone /\ api'[b].applied = api[b].applied
  BY <1>1, <1>4 DEF StatusIsBacked
<1>5. CASE UNCHANGED crds /\ PatchStatus /\ ~(api[b] # Gone /\ api'[b].applied = api[b].applied)
  <2>1. work.key = b /\ pc = "status" /\ work.obj \in Object /\ work.read \in Object
    BY <1>5 DEF Single, TypeOK, PatchStatus, Work
  <2>2. api[b] # Gone
    BY <1>5, <2>1, ObjectsPatched DEF ObjectKept
  <2>3. api'[b].applied = Merged("applied", api[b], work.read, work.obj)
    BY <1>5, <2>1, <2>2, StatusPatched DEF TypeOK
  <2>4. api'[b].applied = work.obj.applied /\ work.obj.applied # work.read.applied
    BY <1>5, <2>1, <2>2, <2>3 DEF TypeOK, Merged, Object
  <2>5. Target(work.obj.spec) = "local"
    BY <2>1 DEF Target, LocalSpecs, Object
  <2>6. crds["local"][c] = [content |-> Named(api'[b].applied), by |-> b]
    BY <2>1, <2>4, <2>5, AttemptIsPublished DEF Named
  <2>7. Named(api'[b].applied) \in Contents
    BY <2>1, <2>4, AttemptIsPublished, SourceAssumption DEF Named
  <2> QED
    BY <1>5, <2>6, <2>7, InstalledAssumption DEF Installed
<1>6. CASE UNCHANGED crds /\ ~PatchStatus
  BY <1>4, <1>6, KeptElsewhere DEF Kept
<1> QED
  BY <1>2, <1>3, <1>4, <1>5, <1>6, CRDsWritten

(* status.lastAppliedRevision is no empty promise: while its only          *)
(* Bootstrap lives, every CRD of the revision recorded is in the cluster,  *)
(* however far the informers trail.                                        *)
THEOREM StatusesAreBacked ==
  ASSUME LocalSpecs, VersionedSpecs, Single
  PROVE  Spec => []StatusIsBacked
<1>1. Init => StatusIsBacked
  BY DEF Init, StatusIsBacked
<1>2. /\ TypeOK /\ SchedulingInv /\ RecordKnown /\ AttemptIsInstalled /\ StatusIsBacked
      /\ [Next]_vars
      => StatusIsBacked'
  BY BackedStep
<1> QED
  BY <1>1, <1>2, TypeCorrect, SchedulingKnown, RecordsKnown, AttemptsAreInstalled, PTL DEF Spec
=============================================================================
