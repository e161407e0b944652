------------------------------ MODULE OwnerChain ------------------------------
(***************************************************************************)
(* The owner chain of an object: HandleOwnerChain and package ownerchain.  *)
(* Ancestors are looked up by kind and name in the active cache; children  *)
(* come from an index of the cache by owner, which is kept for 30 s and    *)
(* shared by all requests.                                                 *)
(***************************************************************************)
EXTENDS Naturals, Sequences, SequencesExt, FiniteSets

CONSTANTS ChainKeys,      \* kinds and names of objects of one namespace
          OtherOwner,     \* an owner of a kind the lookup does not know
          ChainClusters, FirstChainCluster,
          MaxDepth,       \* 10 in the code
          MaxBirths,      \* objects ever made (a bound)
          Gone0           \* no object, no index

VARIABLES
  chainOf,    \* the cluster whose cache is active
  cachedObjs,    \* the caches: object of each key, or Gone0
  births,
  index,      \* reverseIdx: [of, at, children], or Gone0
  fresh,      \* it is younger than 30 s
  chain       \* the last answer: [of, at, key, ancestors, indexed, descendants]

chainVars == <<chainOf, cachedObjs, births, index, fresh, chain>>

\* An object has a uid, and refers to its owners by key and uid.
Object(u, os) == [uid |-> u, owners |-> os]
Uids == ChainClusters \X (1..MaxBirths)
Ref(k, u, found) == [key |-> k, uid |-> u, found |-> found]

\* lookupResource, in the objects of a cache.
Lookup(objs, k) == IF k \in ChainKeys THEN objs[k] ELSE Gone0

--------------------------------------------------------------------------
(* Ancestors                                                               *)

\* Slip: what was seen is not asked.
SlipSeen(u, seen) == FALSE

Seen(u, seen) == u \in seen

\* walkUp, of an object that is in the cache, with the levels left and the uids
\* seen by now: the references found and the uids seen after it. Each owner is
\* listed, by the uid of the object that has its name if there is one, whose own
\* owners follow.
WalkUp(objs, key) ==
  LET walk[left \in 0..MaxDepth + 1, k \in ChainKeys, seen \in SUBSET Uids] ==
        LET Listed(up, owner) ==
              LET o == Lookup(objs, owner.key)
                  above == IF o = Gone0 THEN [refs |-> <<>>, seen |-> up.seen]
                           ELSE walk[left - 1, owner.key, up.seen]
                  uid == IF o = Gone0 THEN owner.uid ELSE o.uid
              IN  [refs |-> up.refs \o <<Ref(owner.key, uid, o # Gone0)>> \o above.refs,
                   seen |-> above.seen]
        IN  IF left = 0 \/ Seen(objs[k].uid, seen) THEN [refs |-> <<>>, seen |-> seen]
            ELSE FoldLeft(Listed, [refs |-> <<>>, seen |-> seen \cup {objs[k].uid}],
                          SetToSeq(objs[k].owners))
  IN  walk[MaxDepth + 1, key, {}].refs

\* An object that is not in the cache is listed itself, as missing.
Ancestors(objs, k) ==
  IF objs[k] = Gone0 THEN <<Ref(k, Gone0, FALSE)>> ELSE WalkUp(objs, k)

--------------------------------------------------------------------------
(* Children                                                                *)

Children(objs) ==
  [u \in Uids |-> {Ref(k, objs[k].uid, TRUE) :
     k \in {c \in ChainKeys : objs[c] # Gone0 /\ \E w \in objs[c].owners : w.uid = u}}]

\* Slip: the index is taken for that of every cache.
SlipIndexServes(c) == index # Gone0 /\ fresh

IndexServes(c) == index # Gone0 /\ index.of = c /\ fresh

\* getReverseIndex: the index kept, or a new one.
IndexFor(c) ==
  IF IndexServes(c) THEN index
  ELSE [of |-> c, at |-> cachedObjs[c], children |-> Children(cachedObjs[c])]

\* Children and grandchildren of the object, if it is in the cache.
Descendants(objs, k, children) ==
  IF objs[k] = Gone0 THEN {}
  ELSE children[objs[k].uid] \cup UNION {children[r.uid] : r \in children[objs[k].uid]}

--------------------------------------------------------------------------
ChainInit ==
  /\ chainOf = FirstChainCluster
  /\ cachedObjs = [c \in ChainClusters |-> [k \in ChainKeys |-> Gone0]]
  /\ births = 0 /\ index = Gone0 /\ fresh = FALSE /\ chain = Gone0

HandleOwnerChain(k) ==
  LET idx == IndexFor(chainOf)
      objs == cachedObjs[chainOf]
  IN  /\ chain' = [of |-> chainOf, at |-> objs, key |-> k, ancestors |-> Ancestors(objs, k),
                   indexed |-> idx.at, descendants |-> Descendants(objs, k, idx.children)]
      /\ IF objs[k] = Gone0 THEN UNCHANGED <<index, fresh>>
         ELSE index' = idx /\ fresh' = TRUE
      /\ UNCHANGED <<chainOf, cachedObjs, births>>

\* Informers of the active cache: an object is made, in place of another of its
\* name or not; its owners exist, or are of another kind.
Born(k) ==
  /\ births < MaxBirths /\ births' = births + 1
  /\ \E os \in SUBSET (ChainKeys \cup {OtherOwner}) :
       /\ \A w \in os \cap ChainKeys : cachedObjs[chainOf][w] # Gone0 \/ w = k
       /\ cachedObjs' = [cachedObjs EXCEPT ![chainOf][k] =
            Object(<<chainOf, births'>>,
                   {[key |-> w, uid |-> IF w = OtherOwner \/ w = k THEN <<chainOf, births'>>
                                        ELSE cachedObjs[chainOf][w].uid] : w \in os})]
  /\ UNCHANGED <<chainOf, index, fresh, chain>>

Dies(k) ==
  /\ cachedObjs[chainOf][k] # Gone0
  /\ cachedObjs' = [cachedObjs EXCEPT ![chainOf][k] = Gone0]
  /\ UNCHANGED <<chainOf, births, index, fresh, chain>>

Ages == fresh /\ fresh' = FALSE /\ UNCHANGED <<chainOf, cachedObjs, births, index, chain>>

\* One switch, away from the first cluster (a bound).
SwitchChain ==
  /\ chainOf = FirstChainCluster /\ chainOf' \in ChainClusters \ {chainOf}
  /\ UNCHANGED <<cachedObjs, births, index, fresh, chain>>

ChainNext ==
  \/ \E k \in ChainKeys : HandleOwnerChain(k) \/ Born(k) \/ Dies(k)
  \/ Ages \/ SwitchChain
ChainSpec == ChainInit /\ [][ChainNext]_chainVars

--------------------------------------------------------------------------
(* Properties                                                              *)

ChainTypeOK ==
  /\ chainOf \in ChainClusters /\ births \in 0..MaxBirths /\ fresh \in BOOLEAN
  /\ \A c \in ChainClusters, k \in ChainKeys :
       cachedObjs[c][k] = Gone0 \/ cachedObjs[c][k].uid \in Uids
  /\ index = Gone0 \/ index.of \in ChainClusters
  /\ chain = Gone0 \/ chain.of \in ChainClusters

FoundKeys == {chain.ancestors[i].key : i \in {j \in 1..Len(chain.ancestors) :
                                            chain.ancestors[j].found}}
Walked == {chain.key} \cup FoundKeys

\* The ancestors answered for an object are, each once, the owner references of
\* the object and of the owners found, also where owners refer to each other in
\* a circle; one that is marked found has the uid of an object that is there
\* (walkUp; with MaxDepth deep enough for every object).
AncestorsTrue ==
  (chain # Gone0 /\ chain.at[chain.key] # Gone0) =>
    /\ Len(chain.ancestors) =
         FoldSet(LAMBDA k, n : Cardinality(chain.at[k].owners) + n, 0, Walked)
    /\ \A w \in UNION {chain.at[k].owners : k \in Walked} :
         \E i \in 1..Len(chain.ancestors) : chain.ancestors[i].key = w.key
    /\ \A k \in FoundKeys : \E i \in 1..Len(chain.ancestors) :
         chain.ancestors[i] = Ref(k, chain.at[k].uid, TRUE)

\* The descendants come from the cache whose object was asked for, as it was when
\* the index was built: the index of the cluster left is never used for the one
\* switched to (the reverseIdxCache of getReverseIndex).
DescendantsTrue ==
  chain # Gone0 =>
    /\ \A k \in ChainKeys :
         chain.indexed[k] # Gone0 => chain.indexed[k].uid[1] = chain.of
    /\ chain.descendants = Descendants(chain.at, chain.key, Children(chain.indexed))

\* The chain drawn for an object is that of its cluster.
ChainTrue == ChainTypeOK /\ AncestorsTrue /\ DescendantsTrue
=============================================================================
