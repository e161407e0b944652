---------------------------- MODULE ResourceMaps ----------------------------
(***************************************************************************)
(* One context's resource maps: the informers that fill them, stopped when *)
(* the context is left and started afresh when it is served again, and the *)
(* cap on the map of events.                                               *)
(*                                                                         *)
(* The shared informers of client-go are external: a start lists the       *)
(* cluster and watches it from there; a broken watch lists again and finds *)
(* the differences; every ten minutes each known object is handed out once *)
(* more; notifications queue up for the handlers, and a stopped informer   *)
(* delivers some of what is queued and drops the rest.                     *)
(***************************************************************************)
EXTENDS Naturals, FiniteSets, Sequences, SequencesExt

CONSTANTS Objects,     \* the cluster's objects of a critical kind other than events
          Events,      \* its events, numbered by age: the smallest is the oldest
          MaxEvents,   \* maxEvents
          MaxVersion,  \* bound on resource versions
          MaxStarts,   \* bound on starts of the informers
          MaxResyncs   \* bound on resyncs

ASSUME MapsAssumption ==
  /\ Objects \subseteq Nat /\ Events \subseteq Nat /\ Objects \cap Events = {}
  /\ IsFiniteSet(Objects) /\ IsFiniteSet(Events)
  /\ MaxEvents \in Nat \ {0}
  /\ MaxStarts \in Nat \ {0} /\ MaxVersion \in Nat /\ MaxResyncs \in Nat

Keyed == Objects \cup Events
Gone  == 0

VARIABLES
  cluster,   \* the cluster's objects: version, or Gone
  made,      \* the last resource version given out (bounded)
  starts,    \* informer starts so far; the last one is the cache's
  informer,  \* state of each start
  refused,   \* the cluster refuses to list custom resource definitions
  known,     \* each start's own index
  queue,     \* notifications waiting for the handlers
  entries,   \* the context cache's maps
  resyncs,   \* resyncs so far (bounded)
  unseen,    \* history: entries whose object went while nothing watched
  late,      \* history: entries written by a start that had been replaced
  returned   \* history: how often an update brought an evicted event back

mapsVars == <<cluster, made, starts, informer, refused, known, queue, entries, resyncs,
              unseen, late, returned>>

MapStarts == 1 .. MaxStarts
Notice == [obj : Keyed, type : {"add", "update", "delete"}, version : Nat, tombstone : BOOLEAN]

MapsTypeOK ==
  /\ cluster \in [Keyed -> 0 .. MaxVersion]
  /\ made \in 0 .. MaxVersion
  /\ starts \in 0 .. MaxStarts
  /\ informer \in [MapStarts -> {"none", "blocked", "started", "listed", "stopped"}]
  /\ refused \in BOOLEAN
  /\ known \in [MapStarts -> [Keyed -> 0 .. MaxVersion]]
  /\ \A h \in MapStarts : \A i \in DOMAIN queue[h] : queue[h][i] \in Notice
  /\ entries \in [Keyed -> 0 .. MaxVersion]
  /\ unseen \subseteq Keyed /\ late \subseteq Keyed /\ returned \in Nat

MapsInit ==
  /\ cluster = [o \in Keyed |-> Gone]
  /\ made = 0
  /\ starts = 0
  /\ informer = [h \in MapStarts |-> "none"]
  /\ refused = FALSE
  /\ known = [h \in MapStarts |-> [o \in Keyed |-> Gone]]
  /\ queue = [h \in MapStarts |-> <<>>]
  /\ entries = [o \in Keyed |-> Gone]
  /\ resyncs = 0
  /\ unseen = {} /\ late = {} /\ returned = 0

--------------------------------------------------------------------------
(* The cluster                                                             *)

Put(o) ==
  /\ made < MaxVersion
  /\ made' = made + 1
  /\ cluster' = [cluster EXCEPT ![o] = made']
  /\ UNCHANGED <<starts, informer, refused, known, queue, entries, resyncs, unseen, late,
                 returned>>

Vanish(o) ==
  /\ cluster[o] # Gone /\ made < MaxVersion
  /\ made' = made + 1
  /\ cluster' = [cluster EXCEPT ![o] = Gone]
  /\ UNCHANGED <<starts, informer, refused, known, queue, entries, resyncs, unseen,
                 late, returned>>

--------------------------------------------------------------------------
(* The informers                                                           *)

\* SyncInformers starts the informers of the critical kinds at once; when the
\* context is served again, StartInformers waits for the informer of the custom
\* resource definitions before it starts any other.
Start ==
  /\ starts < MaxStarts
  /\ starts > 0 => informer[starts] = "stopped"
  /\ starts' = starts + 1
  /\ informer' = [informer EXCEPT ![starts'] = IF starts = 0 THEN "started" ELSE "blocked"]
  /\ refused' \in BOOLEAN
  /\ UNCHANGED <<cluster, made, known, queue, entries, resyncs, unseen, late, returned>>

DefinitionsSynced ==
  /\ starts > 0 /\ informer[starts] = "blocked" /\ ~refused
  /\ informer' = [informer EXCEPT ![starts] = "started"]
  /\ UNCHANGED <<cluster, made, starts, refused, known, queue, entries, resyncs, unseen, late,
                 returned>>

Stop ==
  /\ starts > 0 /\ informer[starts] \in {"blocked", "started", "listed"}
  /\ informer' = [informer EXCEPT ![starts] = "stopped"]
  /\ UNCHANGED <<cluster, made, starts, refused, known, queue, entries, resyncs, unseen, late,
                 returned>>

\* external: what the index tells its handlers of a difference.
Notify(h, o, relisted) ==
  [obj |-> o, version |-> cluster[o], tombstone |-> relisted /\ cluster[o] = Gone,
   type |-> IF cluster[o] = Gone THEN "delete" ELSE IF known[h][o] = Gone THEN "add" ELSE "update"]

Differs(h) == {o \in Keyed : known[h][o] # cluster[o]}

\* external: the list of a start, or a list again after a broken watch.
List ==
  /\ starts > 0 /\ informer[starts] \in {"started", "listed"}
  /\ informer[starts] = "listed" => Differs(starts) # {}
  /\ \E notices \in SetToSeqs(Differs(starts)) :
        queue' = [queue EXCEPT ![starts] =
                    @ \o [i \in DOMAIN notices |-> Notify(starts, notices[i], TRUE)]]
  /\ known' = [known EXCEPT ![starts] = cluster]
  /\ informer' = [informer EXCEPT ![starts] = "listed"]
  /\ unseen' = IF informer[starts] = "started"
               THEN unseen \cup {o \in Keyed : cluster[o] = Gone} ELSE unseen
  /\ UNCHANGED <<cluster, made, starts, refused, entries, resyncs, late, returned>>

\* external: one event of the watch.
Watch(o) ==
  /\ starts > 0 /\ informer[starts] = "listed" /\ o \in Differs(starts)
  /\ queue' = [queue EXCEPT ![starts] = Append(@, Notify(starts, o, FALSE))]
  /\ known' = [known EXCEPT ![starts][o] = cluster[o]]
  /\ UNCHANGED <<cluster, made, starts, informer, refused, entries, resyncs, unseen, late,
                 returned>>

\* external: every known object is handed out again as an update.
Resync ==
  /\ starts > 0 /\ informer[starts] = "listed" /\ resyncs < MaxResyncs
  /\ resyncs' = resyncs + 1
  /\ LET held == SetToSeq({o \in Keyed : known[starts][o] # Gone})
     IN  queue' = [queue EXCEPT ![starts] = @ \o
                     [i \in DOMAIN held |-> [obj |-> held[i], version |-> known[starts][held[i]],
                                             type |-> "update", tombstone |-> FALSE]]]
  /\ UNCHANGED <<cluster, made, starts, informer, refused, known, entries, unseen, late,
                 returned>>

--------------------------------------------------------------------------
(* The handlers, each under the lock of the cache                          *)

Held(map) == {e \in Events : map[e] # Gone}

\* setupInformer: add and update write, delete removes, a tombstone too.
\* Slip: a tombstone is not unwrapped and has no key.
SlipHandle(map, n) ==
  IF n.tombstone THEN map
  ELSE [map EXCEPT ![n.obj] = IF n.type = "delete" THEN Gone ELSE n.version]
Handle(map, n) ==
  [map EXCEPT ![n.obj] = IF n.type = "delete" THEN Gone ELSE n.version]

\* setupEventInformer: an add evicts the oldest event first when the map is full.
\* Slip: a full map is one that is over the cap.
SlipEvictOldest(map) ==
  [e \in Keyed |-> IF /\ Cardinality(Held(map)) > MaxEvents
                      /\ e \in Held(map) /\ \A f \in Held(map) : e <= f
                   THEN Gone ELSE map[e]]
EvictOldest(map) ==
  [e \in Keyed |-> IF /\ Cardinality(Held(map)) >= MaxEvents
                      /\ e \in Held(map) /\ \A f \in Held(map) : e <= f
                   THEN Gone ELSE map[e]]

HandleEvent(map, n) == Handle(IF n.type = "add" THEN EvictOldest(map) ELSE map, n)

Deliver(h) ==
  /\ queue[h] # <<>>
  /\ LET n == Head(queue[h])
     IN  /\ entries' = IF n.obj \in Events THEN HandleEvent(entries, n) ELSE Handle(entries, n)
         /\ late' = IF h # starts THEN late \cup {n.obj} ELSE late \ {n.obj}
         /\ unseen' = unseen \ {n.obj}
         /\ returned' = IF n.obj \in Events /\ n.type = "update" /\ entries[n.obj] = Gone
                        THEN returned + 1 ELSE returned
  /\ queue' = [queue EXCEPT ![h] = Tail(@)]
  /\ UNCHANGED <<cluster, made, starts, informer, refused, known, resyncs>>

\* external: a stopped informer drops what it has not delivered.
Drop(h) ==
  /\ informer[h] = "stopped" /\ queue[h] # <<>>
  /\ queue' = [queue EXCEPT ![h] = <<>>]
  /\ UNCHANGED <<cluster, made, starts, informer, refused, known, entries, resyncs, unseen,
                 late, returned>>

MapsNext ==
  \/ \E o \in Keyed : Put(o) \/ Vanish(o) \/ Watch(o)
  \/ Start \/ DefinitionsSynced \/ Stop \/ List \/ Resync
  \/ \E h \in MapStarts : Deliver(h) \/ Drop(h)

MapsSpec == MapsInit /\ [][MapsNext]_mapsVars

--------------------------------------------------------------------------
(* Properties                                                              *)

CaughtUp == /\ starts > 0 /\ informer[starts] = "listed"
            /\ queue[starts] = <<>> /\ Differs(starts) = {}

\* Once the served informers have caught up, the maps are the cluster, but for
\* ghosts of objects that went while nothing watched (a new start has an empty
\* index and so never reports their deletion, and no code clears a map), for
\* entries that a replaced start wrote after its stop, and for evicted events.
GhostsExplained ==
  CaughtUp => \A o \in Keyed :
     \/ entries[o] = cluster[o]
     \/ o \in unseen \cup late
     \/ o \in Events /\ entries[o] = Gone

\* The map of events outgrows maxEvents only by updates (every resync sends one
\* for each event) that bring an evicted event back, by one entry each: no other
\* order of notifications does, and no later add makes the map smaller again.
EventsExplained == Cardinality(Held(entries)) <= MaxEvents + returned

\* The comment on setupEventInformer: updates and deletes never exceed the cap.
EventsCapped == Cardinality(Held(entries)) <= MaxEvents

\* What the maps hold of the cluster they cache, whatever is cut off or late.
MapsTrue == MapsTypeOK /\ GhostsExplained /\ EventsExplained

=============================================================================
