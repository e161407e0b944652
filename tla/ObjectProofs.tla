---------------------------- MODULE ObjectProofs ----------------------------
(* The panels of one object, for any number of reads, saves and clusters: the *)
(* details of a Kubernetes object, and the list, the detail, the editor and   *)
(* the definition of a custom resource.                                       *)
EXTENDS DetailPanels, CustomResources, FiniteSetTheorems, SequenceTheorems, TLAPS

(***************************************************************************)
(* DetailPanels: views, the editor and the buttons of a panel              *)
(***************************************************************************)

\* Requests of a panel, and those that count as a change under way: a button's, and the
\* load of the history that ends a rollback.
DetailRequests ==
  [what: AllLoads \cup AllActs \cup {"manifest", "save", "reread"},
   id: Nat, base: Nat, state: {"open", "ok", "error"}, got: Nat]
ViewStates == [last: Nat, waits: BOOLEAN, v: Nat, floor: Nat, bad: BOOLEAN]
ChangesUnderWay ==
  {r \in DetailRequests : r.what \in AllActs \/ (r.what \in AllLoads /\ r.base # 0)}
\* Those that are of the editor as it is.
OfEditor ==
  {r \in DetailRequests : r.what \in {"manifest", "save", "reread"} /\ r.id = ed.id}

DetailTypes ==
  /\ kindOf \in PanelKinds /\ version \in Nat /\ asks \in Seq(DetailRequests)
  /\ view \in [AllLoads -> ViewStates] /\ ed \in EditorType
  /\ acting \in BOOLEAN /\ due \in BOOLEAN

\* A load is not newer than the last of its view; the answer to that is as new as the view
\* is to be, unless the jobs wait for their timer.
LoadOK(r) ==
  r.what \in AllLoads =>
    /\ r.id <= view[r.what].last
    /\ r.what = "polled" => r.id = view[r.what].last \/ "pollsOverlap" \in mishaps
    /\ r.id = view[r.what].last /\ r.state = "ok" =>
         r.got >= view[r.what].floor \/ (r.what = "jobs" /\ due)

\* The editor waits for the manifest that it has asked for, for the answer to a save of its
\* own, and for what is read after that, which is newer than the editor.
ManifestOK(r) ==
  r.what = "manifest" /\ r.id = ed.id =>
    ed.shows = "loading" /\ (r.state = "ok" => r.got >= ed.floor)
SaveOK(r) ==
  r.what = "save" =>
    /\ r.id = ed.id =>
         /\ ~ed.refused /\ ed.shows \in {"yaml", "nothing"} /\ (ed.shows = "yaml" => ed.saving)
         /\ kindOf \in OwnEditor => ed.shows = "yaml"
         /\ r.base >= ed.floor /\ (r.state = "ok" => version > ed.floor)
    /\ r.id # ed.id /\ kindOf \notin OwnEditor /\ ed.shows # "nothing" =>
         "openedWhileSaving" \in mishaps
RereadOK(r) ==
  r.what = "reread" /\ r.id = ed.id =>
    /\ kindOf \in OwnEditor /\ ed.shows = "yaml" /\ ed.saving
    /\ version > ed.floor /\ (r.state = "ok" => r.got > ed.floor)

DetailAskOK(r) ==
  /\ r.got <= version /\ LoadOK(r)
  /\ r.what \in {"manifest", "save", "reread"} => r.id <= ed.id
  /\ ManifestOK(r) /\ SaveOK(r) /\ RereadOK(r)
  /\ r \in ChangesUnderWay => acting

\* One request at most is of a set.
OneOf(s, S) == \A j \in DOMAIN s, k \in DOMAIN s : s[j] \in S /\ s[k] \in S => j = k
NoneIn(s, S) == \A j \in DOMAIN s : s[j] \notin S

DetailAsksOK ==
  /\ \A j \in DOMAIN asks : DetailAskOK(asks[j])
  /\ OneOf(asks, ChangesUnderWay) /\ OneOf(asks, OfEditor)

\* A view that does not load shows what it is to show, or something newer.
ViewOK(l) ==
  /\ view[l].floor <= version
  /\ view[l].last > 0 /\ ~view[l].waits /\ ~view[l].bad /\ view[l].v < view[l].floor =>
       (l = "polled" /\ "pollsOverlap" \in mishaps) \/ (l = "jobs" /\ due)

\* What the editor tells, and what a save leaves: the hook closes it, where the panel has
\* an editor of its own it goes on with what was read after it.
EditorOK ==
  /\ EditorTells /\ EditsKept /\ ed.floor <= version
  /\ ed.shows = "loading" => ed.result = "none"
  /\ ed.result = "ok" /\ kindOf \notin OwnEditor => ed.shows = "nothing"

DetailInv ==
  DetailTypes /\ DetailAsksOK /\ (\A l \in AllLoads : ViewOK(l)) /\ EditorOK

\* What the invariant says of the panel.
LEMMA DetailInvTells == DetailInv => DetailsTrue
<1> SUFFICES ASSUME DetailInv PROVE DetailsTrue
  OBVIOUS
<1>1. DetailTypes /\ DetailAsksOK /\ (\A l \in AllLoads : ViewOK(l)) /\ EditorOK
  BY DEF DetailInv
<1>2. DetailTypeOK
  <2>1. \A i \in DOMAIN asks : asks[i] \in DetailRequests
    BY <1>1 DEF DetailTypes
  <2>2. \A l \in AllLoads : view[l] \in ViewStates
    BY <1>1 DEF DetailTypes
  <2> QED BY <1>1, <2>1, <2>2 DEF DetailTypeOK, DetailTypes, DetailRequests, ViewStates
<1>3. ViewsAreNewest
  BY <1>1 DEF ViewsAreNewest, ViewOK
<1>4. OneChangeAtATime
  <2> DEFINE S == {i \in DOMAIN asks : asks[i].what \in AllActs}
  <2>1. \A i \in S, j \in S : i = j
    <3> SUFFICES ASSUME NEW i \in S, NEW j \in S PROVE i = j
      OBVIOUS
    <3>1. asks[i] \in DetailRequests /\ asks[j] \in DetailRequests
      BY <1>1 DEF DetailTypes
    <3>2. asks[i] \in ChangesUnderWay /\ asks[j] \in ChangesUnderWay
      BY <3>1 DEF ChangesUnderWay
    <3> QED BY <1>1, <3>2 DEF DetailAsksOK, OneOf
  <2> HIDE DEF S
  <2>2. Cardinality(S) <= 1
    <3>1. CASE S = {}
      BY <3>1, FS_EmptySet
    <3>2. CASE S # {}
      <4>1. PICK i \in S : TRUE
        BY <3>2
      <4>2. S = {i}
        BY <2>1, <4>1
      <4> QED BY <4>2, FS_Singleton
    <3> QED BY <3>1, <3>2
  <2> QED BY <2>2 DEF S, OneChangeAtATime
<1> QED BY <1>1, <1>2, <1>3, <1>4 DEF DetailsTrue, EditorOK

\* The panel opens with nothing asked.
LEMMA DetailStarts == DetailInit => DetailInv
<1> SUFFICES ASSUME DetailInit PROVE DetailInv
  OBVIOUS
<1>1. asks = <<>> /\ asks \in Seq(DetailRequests) /\ DOMAIN asks = {}
  BY DEF DetailInit
<1>2. view \in [AllLoads -> ViewStates] /\ \A l \in AllLoads : view[l].last = 0 /\ view[l].floor = 0
  BY DEF DetailInit, ViewStates
<1>3. /\ ed \in EditorType /\ ed.shows = "nothing" /\ ed.floor = 0 /\ ed.result = "none"
      /\ ed.refused = FALSE
  BY DEF DetailInit, EditorType
<1>4. DetailTypes
  <2>1. acting \in BOOLEAN /\ due \in BOOLEAN
    BY Zenon DEF DetailInit
  <2>2. kindOf \in PanelKinds /\ version \in Nat
    BY DEF DetailInit
  <2> QED BY <1>1, <1>2, <1>3, <2>1, <2>2 DEF DetailTypes
<1>5. DetailAsksOK
  BY <1>1 DEF DetailAsksOK, OneOf
<1>6. \A l \in AllLoads : ViewOK(l)
  BY <1>2 DEF ViewOK, DetailInit
<1>7. EditorOK
  BY <1>3 DEF EditorOK, EditorTells, EditsKept, DetailInit
<1> QED BY <1>4, <1>5, <1>6, <1>7 DEF DetailInv

----------------------------------------------------------------------------
\* Where a request was before an earlier one was taken away.
Shifted(i, j) == IF j < i THEN j ELSE j + 1

\* Without one request there are the others; of a set there is still one at most, and none
\* if that was the one.
LEMMA DropTells ==
  ASSUME asks \in Seq(DetailRequests), NEW i \in DOMAIN asks
  PROVE  /\ Without(i) \in Seq(DetailRequests)
         /\ \A j \in DOMAIN Without(i) :
              \E k \in DOMAIN asks : k # i /\ Without(i)[j] = asks[k]
         /\ \A S : OneOf(asks, S) => OneOf(Without(i), S)
         /\ \A S : NoneIn(asks, S) => NoneIn(Without(i), S)
         /\ \A S : OneOf(asks, S) /\ asks[i] \in S => NoneIn(Without(i), S)
<1> DEFINE n == Len(asks)
           s == Without(i)
<1>1. n \in Nat /\ DOMAIN asks = 1..n /\ i \in 1..n
  OBVIOUS
<1>2. s = [j \in 1..(n - 1) |-> asks[Shifted(i, j)]]
  BY DEF Without, Shifted
<1> HIDE DEF n, s
<1>3. \A j \in 1..(n - 1) : Shifted(i, j) \in 1..n /\ Shifted(i, j) # i
  BY <1>1 DEF Shifted
<1>4. \A j \in 1..(n - 1), k \in 1..(n - 1) : Shifted(i, j) = Shifted(i, k) => j = k
  BY <1>1 DEF Shifted
<1>5. n - 1 \in Nat
  BY <1>1
<1>6. \A j \in 1..(n - 1) : asks[Shifted(i, j)] \in DetailRequests
  BY <1>1, <1>3
<1>7. s \in Seq(DetailRequests) /\ DOMAIN s = 1..(n - 1)
  BY <1>2, <1>5, <1>6, IsASeq
<1>8. \A j \in DOMAIN s : Shifted(i, j) \in DOMAIN asks /\ s[j] = asks[Shifted(i, j)]
  BY <1>1, <1>2, <1>3, <1>7
<1>9. ASSUME NEW S, OneOf(asks, S) PROVE OneOf(s, S)
  BY <1>4, <1>7, <1>8, <1>9 DEF OneOf
<1>10. ASSUME NEW S, NoneIn(asks, S) PROVE NoneIn(s, S)
  BY <1>8, <1>10 DEF NoneIn
<1>11. ASSUME NEW S, OneOf(asks, S), asks[i] \in S PROVE NoneIn(s, S)
  BY <1>3, <1>7, <1>8, <1>11 DEF OneOf, NoneIn
<1>12. \A j \in DOMAIN s : \E k \in DOMAIN asks : k # i /\ s[j] = asks[k]
  BY <1>3, <1>7, <1>8
<1> QED BY <1>7, <1>9, <1>10, <1>11, <1>12 DEF s

\* A request that is added is the only one of a set that had none.
LEMMA AddTells ==
  ASSUME NEW s \in Seq(DetailRequests), NEW r \in DetailRequests
  PROVE  /\ Append(s, r) \in Seq(DetailRequests)
         /\ \A j \in DOMAIN Append(s, r) :
              Append(s, r)[j] = r \/ \E k \in DOMAIN s : Append(s, r)[j] = s[k]
         /\ \A S : NoneIn(s, S) => OneOf(Append(s, r), S)
         /\ \A S : r \notin S /\ OneOf(s, S) => OneOf(Append(s, r), S)
<1> DEFINE t == Append(s, r)
           last == Len(s) + 1
<1>1. /\ t \in Seq(DetailRequests) /\ DOMAIN t = DOMAIN s \cup {last}
      /\ t[last] = r /\ \A j \in DOMAIN s : t[j] = s[j]
  OBVIOUS
<1> HIDE DEF t, last
<1>2. \A j \in DOMAIN t : t[j] = r \/ \E k \in DOMAIN s : t[j] = s[k]
  BY <1>1
<1>3. ASSUME NEW S, NoneIn(s, S) PROVE OneOf(t, S)
  BY <1>1, <1>3 DEF NoneIn, OneOf
<1>4. ASSUME NEW S, r \notin S, OneOf(s, S) PROVE OneOf(t, S)
  BY <1>1, <1>4 DEF OneOf
<1> QED BY <1>1, <1>2, <1>3, <1>4 DEF t

\* A request that becomes another is of no set that it was not of.
LEMMA BecomesTells ==
  ASSUME asks \in Seq(DetailRequests), NEW i \in DOMAIN asks, NEW q \in DetailRequests
  PROVE  /\ [asks EXCEPT ![i] = q] \in Seq(DetailRequests)
         /\ \A j \in DOMAIN [asks EXCEPT ![i] = q] :
              \/ [asks EXCEPT ![i] = q][j] = q
              \/ \E k \in DOMAIN asks : [asks EXCEPT ![i] = q][j] = asks[k]
         /\ \A S : (q \in S => asks[i] \in S) /\ OneOf(asks, S) => OneOf([asks EXCEPT ![i] = q], S)
<1> DEFINE t == [asks EXCEPT ![i] = q]
<1>1. /\ t \in Seq(DetailRequests) /\ DOMAIN t = DOMAIN asks
      /\ t[i] = q /\ \A j \in DOMAIN asks : j # i => t[j] = asks[j]
  OBVIOUS
<1> HIDE DEF t
<1>2. ASSUME NEW S, q \in S => asks[i] \in S, OneOf(asks, S) PROVE OneOf(t, S)
  BY <1>1, <1>2 DEF OneOf
<1>3. \A j \in DOMAIN t : t[j] = q \/ \E k \in DOMAIN asks : t[j] = asks[k]
  BY <1>1
<1> QED BY <1>1, <1>2, <1>3 DEF t

\* A request is one of those under way.
DetailAsking(r) == \E k \in DOMAIN asks : r = asks[k]
\* What is known of a request that is under way stays true of it, but of some.
AsksLastBut(gone) ==
  \A r \in DetailRequests : DetailAsking(r) /\ r \notin gone /\ DetailAskOK(r) => DetailAskOK(r)'
AsksLast == \A r \in DetailRequests : DetailAsking(r) /\ DetailAskOK(r) => DetailAskOK(r)'

\* The requests are in order when those of before are, and what is new.
LEMMA AskingStep ==
  ASSUME DetailTypes, DetailAsksOK, NEW gone, AsksLastBut(gone), asks' \in Seq(DetailRequests),
         \A j \in DOMAIN asks' : \E q \in DetailRequests :
            q = asks'[j] /\ (DetailAskOK(q)' \/ (DetailAsking(q) /\ q \notin gone))
  PROVE  \A j \in DOMAIN asks' : DetailAskOK(asks[j])'
<1> SUFFICES ASSUME NEW j \in DOMAIN asks' PROVE DetailAskOK(asks[j])'
  OBVIOUS
<1>1. PICK q \in DetailRequests :
        q = asks'[j] /\ (DetailAskOK(q)' \/ (DetailAsking(q) /\ q \notin gone))
  OBVIOUS
<1>2. DetailAsking(q) => DetailAskOK(q)
  BY DEF DetailAsksOK, DetailAsking
<1>3. DetailAskOK(q)'
  BY <1>1, <1>2 DEF AsksLastBut
<1> QED BY <1>1, <1>3 DEF DetailAskOK, LoadOK, ManifestOK, SaveOK, RereadOK, ChangesUnderWay

\* Nothing is asked or answered.
LEMMA AskingStays ==
  ASSUME DetailTypes, DetailAsksOK, AsksLast, asks' = asks
  PROVE  asks' \in Seq(DetailRequests) /\ \A j \in DOMAIN asks' : DetailAskOK(asks[j])'
<1>1. asks \in Seq(DetailRequests) /\ \A j \in DOMAIN asks : asks[j] \in DetailRequests
  BY DEF DetailTypes
<1>2. AsksLastBut({})
  BY DEF AsksLast, AsksLastBut
<1> QED BY <1>1, <1>2, AskingStep DEF DetailAsking

\* An answer is taken.
LEMMA AskingDrops ==
  ASSUME DetailTypes, DetailAsksOK, NEW gone, AsksLastBut(gone), NEW i \in DOMAIN asks,
         gone = {} \/ (OneOf(asks, gone) /\ asks[i] \in gone), asks' = Without(i)
  PROVE  asks' \in Seq(DetailRequests) /\ \A j \in DOMAIN asks' : DetailAskOK(asks[j])'
<1>1. asks \in Seq(DetailRequests) /\ \A j \in DOMAIN asks : asks[j] \in DetailRequests
  BY DEF DetailTypes
<1>2. /\ asks' \in Seq(DetailRequests)
      /\ \A j \in DOMAIN asks' : \E k \in DOMAIN asks : asks'[j] = asks[k]
      /\ NoneIn(asks', gone)
  BY <1>1, DropTells DEF NoneIn
<1> QED BY <1>1, <1>2, AskingStep DEF DetailAsking, NoneIn

\* Something is asked.
LEMMA AskingAdds ==
  ASSUME DetailTypes, DetailAsksOK, AsksLast, NEW q \in DetailRequests, DetailAskOK(q)',
         asks' = Append(asks, q)
  PROVE  asks' \in Seq(DetailRequests) /\ \A j \in DOMAIN asks' : DetailAskOK(asks[j])'
<1>1. asks \in Seq(DetailRequests) /\ \A j \in DOMAIN asks : asks[j] \in DetailRequests
  BY DEF DetailTypes
<1>2. /\ asks' \in Seq(DetailRequests)
      /\ \A j \in DOMAIN asks' : asks'[j] = q \/ \E k \in DOMAIN asks : asks'[j] = asks[k]
  BY <1>1, AddTells
<1>3. AsksLastBut({})
  BY DEF AsksLast, AsksLastBut
<1> QED BY <1>1, <1>2, <1>3, AskingStep DEF DetailAsking

\* An answer is taken, and something asked.
LEMMA AskingSwaps ==
  ASSUME DetailTypes, DetailAsksOK, NEW gone, AsksLastBut(gone), NEW i \in DOMAIN asks,
         gone = {} \/ (OneOf(asks, gone) /\ asks[i] \in gone),
         NEW q \in DetailRequests, DetailAskOK(q)', asks' = Append(Without(i), q)
  PROVE  asks' \in Seq(DetailRequests) /\ \A j \in DOMAIN asks' : DetailAskOK(asks[j])'
<1>1. asks \in Seq(DetailRequests) /\ \A j \in DOMAIN asks : asks[j] \in DetailRequests
  BY DEF DetailTypes
<1> DEFINE s == Without(i)
<1>2. s \in Seq(DetailRequests) /\ \A j \in DOMAIN s : \E k \in DOMAIN asks : s[j] = asks[k]
  BY <1>1, DropTells
<1>3. \A j \in DOMAIN s : s[j] \notin gone
  BY <1>1, DropTells DEF NoneIn
<1>4. asks' = Append(s, q)
  OBVIOUS
<1> HIDE DEF s
<1>5. /\ asks' \in Seq(DetailRequests)
      /\ \A j \in DOMAIN asks' : asks'[j] = q \/ \E k \in DOMAIN s : asks'[j] = s[k]
  BY <1>2, <1>4, AddTells
<1>6. \A j \in DOMAIN asks' :
        asks'[j] = q \/ \E k \in DOMAIN asks : asks'[j] = asks[k] /\ asks[k] \notin gone
  BY <1>2, <1>3, <1>5
<1>7. \A j \in DOMAIN asks' : \E a \in DetailRequests :
        a = asks'[j] /\ (DetailAskOK(a)' \/ (DetailAsking(a) /\ a \notin gone))
  BY <1>1, <1>6 DEF DetailAsking
<1> QED BY <1>5, <1>7, AskingStep

\* A request is answered by the cluster.
LEMMA AskingBecomes ==
  ASSUME DetailTypes, DetailAsksOK, AsksLast, NEW i \in DOMAIN asks,
         NEW q \in DetailRequests, DetailAskOK(q)', asks' = [asks EXCEPT ![i] = q]
  PROVE  asks' \in Seq(DetailRequests) /\ \A j \in DOMAIN asks' : DetailAskOK(asks[j])'
<1>1. asks \in Seq(DetailRequests) /\ \A j \in DOMAIN asks : asks[j] \in DetailRequests
  BY DEF DetailTypes
<1>2. /\ asks' \in Seq(DetailRequests)
      /\ \A j \in DOMAIN asks' : asks'[j] = q \/ \E k \in DOMAIN asks : asks'[j] = asks[k]
  BY <1>1, BecomesTells
<1>3. AsksLastBut({})
  BY DEF AsksLast, AsksLastBut
<1> QED BY <1>1, <1>2, <1>3, AskingStep DEF DetailAsking

----------------------------------------------------------------------------
\* The facts of the invariant that steps start from.
LEMMA DetailFacts ==
  ASSUME DetailInv
  PROVE  /\ DetailTypes /\ DetailAsksOK /\ (\A l \in AllLoads : ViewOK(l)) /\ EditorOK
         /\ version \in Nat /\ ed \in EditorType /\ ed.id \in Nat /\ ed.base \in Nat
         /\ ed.floor \in Nat /\ ed.floor <= version /\ view \in [AllLoads -> ViewStates]
         /\ \A l \in AllLoads : view[l].last \in Nat /\ view[l].floor \in Nat /\ view[l].v \in Nat
         /\ asks \in Seq(DetailRequests)
         /\ \A j \in DOMAIN asks : asks[j] \in DetailRequests /\ DetailAskOK(asks[j])
         /\ OneOf(asks, ChangesUnderWay) /\ OneOf(asks, OfEditor)
<1>1. DetailTypes /\ DetailAsksOK /\ (\A l \in AllLoads : ViewOK(l)) /\ EditorOK
  BY DEF DetailInv
<1>2. /\ version \in Nat /\ ed \in EditorType /\ view \in [AllLoads -> ViewStates]
      /\ asks \in Seq(DetailRequests)
  BY <1>1 DEF DetailTypes
<1>3. ed.id \in Nat /\ ed.base \in Nat /\ ed.floor \in Nat /\ ed.floor <= version
  BY <1>1, <1>2 DEF EditorType, EditorOK
<1>4. \A l \in AllLoads : view[l].last \in Nat /\ view[l].floor \in Nat /\ view[l].v \in Nat
  BY <1>2 DEF ViewStates
<1>5. /\ \A j \in DOMAIN asks : asks[j] \in DetailRequests /\ DetailAskOK(asks[j])
      /\ OneOf(asks, ChangesUnderWay) /\ OneOf(asks, OfEditor)
  BY <1>1, <1>2 DEF DetailAsksOK
<1> QED BY <1>1, <1>2, <1>3, <1>4, <1>5

\* A request that is made is open.
LEMMA DetailRequestTells ==
  ASSUME NEW w \in AllLoads \cup AllActs \cup {"manifest", "save", "reread"},
         NEW id \in Nat, NEW base \in Nat
  PROVE  \E q \in DetailRequests :
           /\ q = DetailRequest(w, id, base) /\ q.what = w /\ q.id = id /\ q.base = base
           /\ q.state = "open" /\ q.got = 0
<1> DEFINE q == DetailRequest(w, id, base)
<1>1. /\ q \in DetailRequests /\ q.what = w /\ q.id = id /\ q.base = base
      /\ q.state = "open" /\ q.got = 0
  BY DEF DetailRequest, DetailRequests
<1> HIDE DEF q
<1>2. q = DetailRequest(w, id, base)
  BY DEF q
<1> QED BY <1>1, <1>2

\* What is known of the editor's requests while the editor stays as it is.
LEMMA EditorStays ==
  ASSUME DetailInv, UNCHANGED <<kindOf, ed>>, version' \in Nat, version <= version',
         mishaps' \in {mishaps, mishaps \cup {"pollsOverlap"}}
  PROVE  /\ EditorOK' /\ OfEditor' = OfEditor
         /\ \A r \in DetailRequests :
              ManifestOK(r) /\ SaveOK(r) /\ RereadOK(r) =>
                (ManifestOK(r) /\ SaveOK(r) /\ RereadOK(r))'
<1>1. /\ EditorOK /\ version \in Nat /\ ed.floor \in Nat /\ ed.base \in Nat
      /\ ed.floor <= version
  BY DetailFacts
<1>2. EditorOK'
  BY <1>1 DEF EditorOK, EditorTells, EditsKept
<1>3. OfEditor' = OfEditor
  BY DEF OfEditor
<1>4. ASSUME NEW r \in DetailRequests, ManifestOK(r), SaveOK(r), RereadOK(r)
      PROVE  (ManifestOK(r) /\ SaveOK(r) /\ RereadOK(r))'
  <2>1. ManifestOK(r)'
    BY <1>4 DEF ManifestOK
  <2>2. SaveOK(r)'
    BY <1>1, <1>4 DEF SaveOK
  <2>3. RereadOK(r)'
    BY <1>1, <1>4 DEF RereadOK
  <2> QED BY <2>1, <2>2, <2>3
<1> QED BY <1>2, <1>3, <1>4

\* What is known of the views and their loads while these stay as they are.
LEMMA ViewsStay ==
  ASSUME DetailInv, UNCHANGED <<view, due>>, version' \in Nat, version <= version',
         mishaps \subseteq mishaps'
  PROVE  /\ \A l \in AllLoads : ViewOK(l)'
         /\ \A r \in DetailRequests : LoadOK(r) => LoadOK(r)'
<1>1. /\ \A l \in AllLoads : ViewOK(l) /\ view[l].floor \in Nat
      /\ version \in Nat
  BY DetailFacts
<1>2. ASSUME NEW l \in AllLoads PROVE ViewOK(l)'
  BY <1>1 DEF ViewOK
<1>3. ASSUME NEW r \in DetailRequests, LoadOK(r) PROVE LoadOK(r)'
  BY <1>3 DEF LoadOK
<1> QED BY <1>2, <1>3

----------------------------------------------------------------------------
\* The parts of the invariant together.
LEMMA DetailTogether ==
  ASSUME DetailTypes', EditorOK', \A l \in AllLoads : ViewOK(l)',
         \A j \in DOMAIN asks' : DetailAskOK(asks[j])',
         OneOf(asks', ChangesUnderWay), OneOf(asks', OfEditor')
  PROVE  DetailInv'
<1>1. ChangesUnderWay' = ChangesUnderWay
  BY DEF ChangesUnderWay
<1>2. DetailAsksOK'
  BY <1>1 DEF DetailAsksOK, OneOf
<1> QED BY <1>2 DEF DetailInv

\* The cluster answers a request with what the object is, which a change and a save of the
\* newest manifest make newer.
LEMMA ServesKeepsDetail ==
  ASSUME DetailInv, NEW i \in DOMAIN asks, ClusterServes(i)
  PROVE  DetailInv'
<1> DEFINE r == asks[i]
<1>1. /\ DetailTypes /\ DetailAsksOK /\ r \in DetailRequests /\ DetailAskOK(r)
      /\ version \in Nat /\ asks \in Seq(DetailRequests)
      /\ OneOf(asks, ChangesUnderWay) /\ OneOf(asks, OfEditor)
      /\ ed.floor \in Nat /\ ed.floor <= version
      /\ \A l \in AllLoads : ViewOK(l) /\ view[l].floor \in Nat
  BY DetailFacts
<1>2. UNCHANGED <<kindOf, view, ed, acting, due, mishaps>> /\ r.state = "open"
  BY DEF ClusterServes
<1>3. PICK q \in DetailRequests :
        /\ asks' = [asks EXCEPT ![i] = q] /\ q.what = r.what /\ q.id = r.id /\ q.base = r.base
        /\ version' \in Nat /\ version <= version' /\ q.got <= version'
        /\ q.state = "ok" => q.got = version' /\ (r.what = "save" => r.base < version')
  <2> DEFINE alters == r.what \in AllActs \/ (r.what = "save" /\ r.base = version)
  <2>1. CASE /\ r.what # "save" \/ alters
             /\ version' = IF alters THEN version + 1 ELSE version
             /\ asks' = [asks EXCEPT ![i].state = "ok", ![i].got = version']
    <3> DEFINE q == [r EXCEPT !.state = "ok", !.got = version']
    <3>1. version' \in Nat /\ version <= version' /\ (r.what = "save" => r.base < version')
      BY <1>1, <2>1 DEF AllActs
    <3>2. asks' = [asks EXCEPT ![i] = q]
      BY <1>1, <2>1
    <3>3. /\ q \in DetailRequests /\ q.what = r.what /\ q.id = r.id /\ q.base = r.base
          /\ q.got = version'
      BY <1>1, <3>1 DEF DetailRequests
    <3>4. q.got <= version'
      BY <3>1, <3>3
    <3> HIDE DEF q
    <3> QED BY <3>1, <3>2, <3>3, <3>4
  <2>2. CASE asks' = [asks EXCEPT ![i].state = "error"] /\ UNCHANGED version
    <3> DEFINE q == [r EXCEPT !.state = "error"]
    <3>1. asks' = [asks EXCEPT ![i] = q]
      BY <1>1, <2>2
    <3>2. /\ q \in DetailRequests /\ q.what = r.what /\ q.id = r.id /\ q.base = r.base
          /\ q.got = r.got /\ q.state = "error"
      BY <1>1 DEF DetailRequests
    <3>3. r.got <= version
      BY <1>1 DEF DetailAskOK
    <3>4. version' \in Nat /\ version <= version' /\ q.got <= version'
      BY <1>1, <2>2, <3>2, <3>3
    <3> HIDE DEF q
    <3> QED BY <3>1, <3>2, <3>4
  <2> QED BY <2>1, <2>2 DEF ClusterServes
<1>4. /\ EditorOK' /\ OfEditor' = OfEditor
      /\ \A a \in DetailRequests : ManifestOK(a) /\ SaveOK(a) /\ RereadOK(a) =>
                                     (ManifestOK(a) /\ SaveOK(a) /\ RereadOK(a))'
  BY <1>2, <1>3, EditorStays
<1>5. /\ \A l \in AllLoads : ViewOK(l)'
      /\ \A a \in DetailRequests : LoadOK(a) => LoadOK(a)'
  BY <1>2, <1>3, ViewsStay
<1>6. AsksLast
  BY <1>1, <1>2, <1>3, <1>4, <1>5 DEF AsksLast, DetailAskOK, ChangesUnderWay, DetailRequests
<1>7. DetailAskOK(q)'
  <2>1. LoadOK(q)'
    <3> SUFFICES ASSUME r.what \in AllLoads PROVE LoadOK(q)'
      BY <1>3 DEF LoadOK
    <3>1. view[r.what].floor <= version'
      BY <1>1, <1>3 DEF ViewOK
    <3>2. LoadOK(r)
      BY <1>1 DEF DetailAskOK
    <3> QED BY <1>2, <1>3, <3>1, <3>2 DEF LoadOK
  <2>2. ManifestOK(q)'
    BY <1>1, <1>2, <1>3 DEF DetailAskOK, ManifestOK
  <2>3. SaveOK(q)'
    <3>1. SaveOK(r) /\ r.base \in Nat
      BY <1>1 DEF DetailAskOK, DetailRequests
    <3> QED BY <1>1, <1>2, <1>3, <3>1 DEF SaveOK
  <2>4. RereadOK(q)'
    <3>1. RereadOK(r)
      BY <1>1 DEF DetailAskOK
    <3> QED BY <1>1, <1>2, <1>3, <3>1 DEF RereadOK
  <2>5. q \in ChangesUnderWay => acting
    BY <1>1, <1>3 DEF DetailAskOK, ChangesUnderWay
  <2>6. q.what \in {"manifest", "save", "reread"} => q.id <= ed.id
    BY <1>1, <1>3 DEF DetailAskOK
  <2> QED BY <1>2, <1>3, <2>1, <2>2, <2>3, <2>4, <2>5, <2>6 DEF DetailAskOK, ChangesUnderWay
<1>8. asks' \in Seq(DetailRequests) /\ \A j \in DOMAIN asks' : DetailAskOK(asks[j])'
  BY <1>1, <1>3, <1>6, <1>7, AskingBecomes
<1>9. OneOf(asks', ChangesUnderWay) /\ OneOf(asks', OfEditor')
  <2>1. q \in ChangesUnderWay => r \in ChangesUnderWay
    BY <1>1, <1>3 DEF ChangesUnderWay
  <2>2. q \in OfEditor => r \in OfEditor
    BY <1>1, <1>3 DEF OfEditor
  <2> QED BY <1>1, <1>3, <1>4, <2>1, <2>2, BecomesTells
<1>10. DetailTypes'
  BY <1>1, <1>2, <1>3, <1>8 DEF DetailTypes
<1> QED BY <1>4, <1>5, <1>8, <1>9, <1>10, DetailTogether

\* The object is changed by others.
LEMMA OthersKeepDetail ==
  ASSUME DetailInv, ChangedByOthers
  PROVE  DetailInv'
<1>1. /\ DetailTypes /\ DetailAsksOK /\ version \in Nat /\ asks \in Seq(DetailRequests)
      /\ OneOf(asks, ChangesUnderWay) /\ OneOf(asks, OfEditor)
  BY DetailFacts
<1>2. /\ UNCHANGED <<kindOf, asks, view, ed, acting, due, mishaps>>
      /\ version' \in Nat /\ version <= version'
  BY <1>1 DEF ChangedByOthers
<1>3. /\ EditorOK' /\ OfEditor' = OfEditor
      /\ \A a \in DetailRequests : ManifestOK(a) /\ SaveOK(a) /\ RereadOK(a) =>
                                     (ManifestOK(a) /\ SaveOK(a) /\ RereadOK(a))'
  BY <1>2, EditorStays
<1>4. /\ \A l \in AllLoads : ViewOK(l)'
      /\ \A a \in DetailRequests : LoadOK(a) => LoadOK(a)'
  BY <1>2, ViewsStay
<1>5. AsksLast
  BY <1>1, <1>2, <1>3, <1>4 DEF AsksLast, DetailAskOK, ChangesUnderWay, DetailRequests
<1>6. asks' \in Seq(DetailRequests) /\ \A j \in DOMAIN asks' : DetailAskOK(asks[j])'
  BY <1>1, <1>2, <1>5, AskingStays
<1>7. DetailTypes'
  BY <1>1, <1>2, <1>6 DEF DetailTypes
<1> QED BY <1>1, <1>2, <1>3, <1>4, <1>6, <1>7, DetailTogether

----------------------------------------------------------------------------
\* A load that begins is the newest of its view, which waits for it.
LEMMA BegunTells ==
  ASSUME DetailInv, NEW l \in AllLoads, view' = Begun(l), UNCHANGED <<version, kindOf, ed>>,
         mishaps \subseteq mishaps', due' => due, l # "jobs" => due' = due,
         l = "polled" /\ OpenAsks(l) # {} => "pollsOverlap" \in mishaps'
  PROVE  /\ view' \in [AllLoads -> ViewStates] /\ \A k \in AllLoads : ViewOK(k)'
         /\ \A r \in DetailRequests : DetailAsking(r) /\ LoadOK(r) => LoadOK(r)'
         /\ \A q \in DetailRequests :
              q.what = l /\ q.id = view[l].last + 1 /\ q.state = "open" => LoadOK(q)'
<1>1. /\ version \in Nat /\ view \in [AllLoads -> ViewStates]
      /\ \A k \in AllLoads : /\ view[k].last \in Nat /\ view[k].floor \in Nat
                             /\ view[k].v \in Nat /\ ViewOK(k)
  BY DetailFacts
<1> DEFINE b == [view[l] EXCEPT !.last = view[l].last + 1, !.waits = TRUE, !.floor = version,
                                !.bad = FALSE]
<1>2. view' = [view EXCEPT ![l] = b]
  BY <1>1 DEF Begun
<1>3. /\ b \in ViewStates /\ b.last = view[l].last + 1 /\ b.waits = TRUE /\ b.floor = version
  <2>1. view[l] \in ViewStates /\ view[l].last + 1 \in Nat
    BY <1>1
  <2> QED BY <1>1, <2>1 DEF ViewStates
<1> HIDE DEF b
<1>4. /\ view' \in [AllLoads -> ViewStates] /\ view'[l] = b
      /\ \A k \in AllLoads \ {l} : view'[k] = view[k]
  BY <1>1, <1>2, <1>3
<1>5. ASSUME NEW k \in AllLoads PROVE ViewOK(k)'
  BY <1>1, <1>3, <1>4 DEF ViewOK
<1>6. ASSUME NEW r \in DetailRequests, DetailAsking(r), LoadOK(r) PROVE LoadOK(r)'
  <2>1. CASE r.what = l
    <3>1. r.id <= view[l].last /\ r.id \in Nat
      BY <1>6, <2>1 DEF LoadOK, DetailRequests
    <3>2. l = "polled" => OpenAsks(l) # {}
      BY <1>6, <2>1 DEF DetailAsking, OpenAsks
    <3> QED BY <1>1, <1>3, <1>4, <2>1, <3>1, <3>2 DEF LoadOK
  <2>2. CASE r.what # l
    BY <1>1, <1>4, <1>6, <2>2 DEF LoadOK
  <2> QED BY <2>1, <2>2
<1>7. ASSUME NEW q \in DetailRequests, q.what = l, q.id = view[l].last + 1, q.state = "open"
      PROVE  LoadOK(q)'
  BY <1>1, <1>3, <1>4, <1>7 DEF LoadOK
<1> QED BY <1>4, <1>5, <1>6, <1>7

\* The tab is opened, Refresh is clicked, or the poll comes round.
LEMMA LoadViewKeeps ==
  ASSUME DetailInv, NEW l \in AllLoads, LoadView(l)
  PROVE  DetailInv'
<1>1. /\ DetailTypes /\ DetailAsksOK /\ version \in Nat /\ asks \in Seq(DetailRequests)
      /\ OneOf(asks, ChangesUnderWay) /\ OneOf(asks, OfEditor)
      /\ view[l].last \in Nat
  BY DetailFacts
<1>2. /\ view' = Begun(l) /\ UNCHANGED <<kindOf, version, ed, acting, due>>
      /\ asks' = Append(asks, DetailRequest(l, view[l].last + 1, 0))
      /\ mishaps' = mishaps \cup (IF OpenAsks(l) # {} /\ l = "polled" THEN {"pollsOverlap"} ELSE {})
  BY DEF LoadView, AskCluster
<1>3. mishaps \subseteq mishaps' /\ mishaps' \in {mishaps, mishaps \cup {"pollsOverlap"}}
  BY <1>2
<1>4. PICK q \in DetailRequests :
        /\ q = DetailRequest(l, view[l].last + 1, 0) /\ q.what = l /\ q.id = view[l].last + 1
        /\ q.base = 0 /\ q.state = "open" /\ q.got = 0
  <2>1. view[l].last + 1 \in Nat
    BY <1>1
  <2> QED BY <2>1, DetailRequestTells
<1>5. asks' = Append(asks, q)
  BY <1>2, <1>4
<1>6. /\ view' \in [AllLoads -> ViewStates] /\ \A k \in AllLoads : ViewOK(k)'
      /\ \A a \in DetailRequests : DetailAsking(a) /\ LoadOK(a) => LoadOK(a)'
      /\ LoadOK(q)'
  <2>1. l = "polled" /\ OpenAsks(l) # {} => "pollsOverlap" \in mishaps'
    BY <1>2
  <2>2. /\ view' \in [AllLoads -> ViewStates] /\ \A k \in AllLoads : ViewOK(k)'
        /\ \A a \in DetailRequests : DetailAsking(a) /\ LoadOK(a) => LoadOK(a)'
        /\ \A a \in DetailRequests :
              a.what = l /\ a.id = view[l].last + 1 /\ a.state = "open" => LoadOK(a)'
    BY <1>2, <1>3, <2>1, BegunTells
  <2> QED BY <1>4, <2>2
<1>7. /\ EditorOK' /\ OfEditor' = OfEditor
      /\ \A a \in DetailRequests : ManifestOK(a) /\ SaveOK(a) /\ RereadOK(a) =>
                                     (ManifestOK(a) /\ SaveOK(a) /\ RereadOK(a))'
  BY <1>1, <1>2, <1>3, EditorStays
<1>8. AsksLast
  BY <1>1, <1>2, <1>6, <1>7 DEF AsksLast, DetailAskOK, ChangesUnderWay, DetailRequests
<1>9. q \notin ChangesUnderWay /\ q \notin OfEditor
  BY <1>4 DEF ChangesUnderWay, OfEditor, AllLoads, AllActs
<1>10. DetailAskOK(q)'
  <2>1. q.what \notin {"manifest", "save", "reread"}
    BY <1>4 DEF AllLoads
  <2>2. ManifestOK(q)' /\ SaveOK(q)' /\ RereadOK(q)'
    BY <2>1 DEF ManifestOK, SaveOK, RereadOK
  <2> QED BY <1>1, <1>2, <1>4, <1>6, <1>9, <2>1, <2>2 DEF DetailAskOK, ChangesUnderWay
<1>11. asks' \in Seq(DetailRequests) /\ \A j \in DOMAIN asks' : DetailAskOK(asks[j])'
  BY <1>1, <1>5, <1>8, <1>10, AskingAdds
<1>12. OneOf(asks', ChangesUnderWay) /\ OneOf(asks', OfEditor')
  BY <1>1, <1>5, <1>7, <1>9, AddTells
<1>13. DetailTypes'
  BY <1>1, <1>2, <1>6, <1>11 DEF DetailTypes
<1> QED BY <1>6, <1>7, <1>11, <1>12, <1>13, DetailTogether

----------------------------------------------------------------------------
\* The answer to the newest load is what the view shows.
LEMMA AnswerShown ==
  ASSUME DetailInv, NEW l \in AllLoads, NEW i \in DOMAIN asks, ViewAnswered(l, i)
  PROVE  /\ view' \in [AllLoads -> ViewStates] /\ \A k \in AllLoads : ViewOK(k)'
         /\ \A r \in DetailRequests : LoadOK(r) => LoadOK(r)'
<1> DEFINE r == asks[i]
<1>1. /\ version \in Nat /\ view \in [AllLoads -> ViewStates] /\ r \in DetailRequests
      /\ \A k \in AllLoads : /\ view[k].last \in Nat /\ view[k].floor \in Nat
                             /\ view[k].v \in Nat /\ ViewOK(k)
      /\ DetailAskOK(r)
  BY DetailFacts
<1>2. /\ UNCHANGED <<kindOf, version, ed, due, mishaps>> /\ r.what = l /\ r.state # "open"
      /\ view' = IF ~Newest(l, r.id) THEN view
                 ELSE [view EXCEPT ![l].waits = FALSE, ![l].bad = r.state = "error",
                                   ![l].v = IF r.state = "error" THEN @ ELSE r.got]
  BY DEF ViewAnswered, AnswerTo, OpenAsks
<1>3. CASE ~Newest(l, r.id)
  <2>1. /\ UNCHANGED <<view, due>> /\ version' \in Nat /\ version <= version'
        /\ mishaps \subseteq mishaps'
    BY <1>1, <1>2, <1>3
  <2> QED BY <1>1, <2>1, ViewsStay
<1>4. CASE Newest(l, r.id)
  <2> DEFINE failed == r.state = "error"
             shown == IF failed THEN view[l].v ELSE r.got
             b == [view[l] EXCEPT !.waits = FALSE, !.bad = failed, !.v = shown]
  <2>1. view[l] \in ViewStates /\ shown \in Nat
    BY <1>1 DEF DetailRequests
  <2>2. failed \in BOOLEAN
    OBVIOUS
  <2>3. view' = [view EXCEPT ![l] = b]
    BY <1>1, <1>2, <1>4
  <2>4. shown = IF failed THEN view[l].v ELSE r.got
    OBVIOUS
  <2>5. failed <=> r.state = "error"
    OBVIOUS
  <2> HIDE DEF failed, shown
  <2>6. /\ b \in ViewStates /\ b.last = view[l].last /\ b.floor = view[l].floor
        /\ b.v = shown /\ (b.bad <=> failed)
    BY <2>1, <2>2 DEF ViewStates
  <2> HIDE DEF b
  <2>7. /\ view' \in [AllLoads -> ViewStates] /\ view'[l] = b
        /\ \A k \in AllLoads \ {l} : view'[k] = view[k]
    BY <1>1, <2>3, <2>6
  <2>8. ViewOK(l)'
    <3>1. r.state # "error" =>
            \/ r.got >= view[l].floor \/ (l = "jobs" /\ due)
            \/ l = "polled" /\ "pollsOverlap" \in mishaps
      <4>1. r.state \in {"open", "ok", "error"} /\ LoadOK(r)
        BY <1>1 DEF DetailRequests, DetailAskOK
      <4> QED BY <1>1, <1>2, <1>4, <4>1 DEF LoadOK, Newest
    <3>2. r.got \in Nat
      BY <1>1 DEF DetailRequests
    <3>3. ~failed => b.v >= b.floor \/ (l = "jobs" /\ due)
                       \/ (l = "polled" /\ "pollsOverlap" \in mishaps)
      BY <2>4, <2>5, <2>6, <3>1
    <3>4. /\ view'[l].v = b.v /\ view'[l].floor = b.floor /\ (view'[l].bad <=> failed)
          /\ b.v \in Nat /\ b.floor \in Nat /\ b.floor <= version
      BY <1>1, <2>1, <2>6, <2>7 DEF ViewOK
    <3> QED BY <1>2, <3>3, <3>4 DEF ViewOK
  <2>9. ASSUME NEW k \in AllLoads PROVE ViewOK(k)'
    <3>1. CASE k = l
      BY <2>8, <3>1
    <3>2. CASE k # l
      BY <1>1, <1>2, <2>7, <3>2 DEF ViewOK
    <3> QED BY <3>1, <3>2
  <2>10. ASSUME NEW a \in DetailRequests, LoadOK(a) PROVE LoadOK(a)'
    <3>1. \A k \in AllLoads : view'[k].last = view[k].last /\ view'[k].floor = view[k].floor
      BY <2>6, <2>7
    <3> QED BY <1>2, <2>10, <3>1 DEF LoadOK
  <2> QED BY <2>7, <2>9, <2>10
<1> QED BY <1>3, <1>4

\* A view hears an answer; a rollback has ended with that to its load.
LEMMA ViewAnsweredKeeps ==
  ASSUME DetailInv, NEW l \in AllLoads, NEW i \in DOMAIN asks, ViewAnswered(l, i)
  PROVE  DetailInv'
<1> DEFINE r == asks[i]
           ended == IF r.base # 0 THEN ChangesUnderWay ELSE {}
<1>1. /\ DetailTypes /\ DetailAsksOK /\ version \in Nat /\ asks \in Seq(DetailRequests)
      /\ OneOf(asks, ChangesUnderWay) /\ OneOf(asks, OfEditor)
      /\ r \in DetailRequests
  BY DetailFacts
<1>2. /\ UNCHANGED <<kindOf, version, ed, due, mishaps>> /\ r.what = l
      /\ asks' = Without(i)
  BY DEF ViewAnswered, AnswerTo, OpenAsks
<1>3. acting' \in BOOLEAN /\ (acting' <=> acting /\ r.base = 0)
  BY Zenon DEF ViewAnswered
<1>4. /\ view' \in [AllLoads -> ViewStates] /\ \A k \in AllLoads : ViewOK(k)'
      /\ \A a \in DetailRequests : LoadOK(a) => LoadOK(a)'
  BY AnswerShown
<1>5. /\ EditorOK' /\ OfEditor' = OfEditor
      /\ \A a \in DetailRequests : ManifestOK(a) /\ SaveOK(a) /\ RereadOK(a) =>
                                     (ManifestOK(a) /\ SaveOK(a) /\ RereadOK(a))'
  BY <1>1, <1>2, EditorStays
<1>6. AsksLastBut(ended)
  <2> SUFFICES ASSUME NEW a \in DetailRequests, a \notin ended, DetailAskOK(a)
               PROVE  DetailAskOK(a)'
    BY DEF AsksLastBut
  <2>1. a \in ChangesUnderWay => acting'
    BY <1>3 DEF DetailAskOK
  <2>2. ChangesUnderWay' = ChangesUnderWay
    BY DEF ChangesUnderWay
  <2> QED BY <1>2, <1>4, <1>5, <2>1, <2>2 DEF DetailAskOK
<1>7. ended = {} \/ (OneOf(asks, ended) /\ r \in ended)
  BY <1>1, <1>2 DEF ChangesUnderWay
<1> HIDE DEF ended
<1>8. asks' \in Seq(DetailRequests) /\ \A j \in DOMAIN asks' : DetailAskOK(asks[j])'
  BY <1>1, <1>2, <1>6, <1>7, AskingDrops
<1>9. OneOf(asks', ChangesUnderWay) /\ OneOf(asks', OfEditor')
  BY <1>1, <1>2, <1>5, DropTells
<1>10. DetailTypes'
  BY <1>1, <1>2, <1>3, <1>4, <1>8 DEF DetailTypes
<1> QED BY <1>4, <1>5, <1>8, <1>9, <1>10, DetailTogether

\* The timer after a trigger loads the jobs.
LEMMA JobsTimerKeeps ==
  ASSUME DetailInv, JobsTimer
  PROVE  DetailInv'
<1> DEFINE l == "jobs"
<1>1. /\ DetailTypes /\ DetailAsksOK /\ version \in Nat /\ asks \in Seq(DetailRequests)
      /\ OneOf(asks, ChangesUnderWay) /\ OneOf(asks, OfEditor)
      /\ l \in AllLoads /\ view[l].last \in Nat
  BY DetailFacts DEF AllLoads
<1>2. /\ view' = Begun(l) /\ UNCHANGED <<kindOf, version, ed, acting, mishaps>> /\ due' = FALSE
      /\ asks' = Append(asks, DetailRequest(l, view[l].last + 1, 0))
  BY DEF JobsTimer
<1>3. PICK q \in DetailRequests :
        /\ q = DetailRequest(l, view[l].last + 1, 0) /\ q.what = l /\ q.id = view[l].last + 1
        /\ q.base = 0 /\ q.state = "open" /\ q.got = 0
  <2>1. view[l].last + 1 \in Nat
    BY <1>1
  <2> QED BY <1>1, <2>1, DetailRequestTells
<1>4. asks' = Append(asks, q)
  BY <1>2, <1>3
<1>5. /\ view' \in [AllLoads -> ViewStates] /\ \A k \in AllLoads : ViewOK(k)'
      /\ \A a \in DetailRequests : DetailAsking(a) /\ LoadOK(a) => LoadOK(a)'
      /\ LoadOK(q)'
  <2>1. /\ view' \in [AllLoads -> ViewStates] /\ \A k \in AllLoads : ViewOK(k)'
        /\ \A a \in DetailRequests : DetailAsking(a) /\ LoadOK(a) => LoadOK(a)'
        /\ \A a \in DetailRequests :
              a.what = l /\ a.id = view[l].last + 1 /\ a.state = "open" => LoadOK(a)'
    BY <1>1, <1>2, BegunTells
  <2> QED BY <1>3, <2>1
<1>6. /\ EditorOK' /\ OfEditor' = OfEditor
      /\ \A a \in DetailRequests : ManifestOK(a) /\ SaveOK(a) /\ RereadOK(a) =>
                                     (ManifestOK(a) /\ SaveOK(a) /\ RereadOK(a))'
  BY <1>1, <1>2, EditorStays
<1>7. AsksLast
  BY <1>1, <1>2, <1>5, <1>6 DEF AsksLast, DetailAskOK, ChangesUnderWay, DetailRequests
<1>8. q \notin ChangesUnderWay /\ q \notin OfEditor
  BY <1>3 DEF ChangesUnderWay, OfEditor, AllLoads, AllActs
<1>9. DetailAskOK(q)'
  <2>1. q.what \notin {"manifest", "save", "reread"}
    BY <1>3
  <2>2. ManifestOK(q)' /\ SaveOK(q)' /\ RereadOK(q)'
    BY <2>1 DEF ManifestOK, SaveOK, RereadOK
  <2> QED BY <1>1, <1>2, <1>3, <1>5, <1>8, <2>1, <2>2 DEF DetailAskOK, ChangesUnderWay
<1>10. asks' \in Seq(DetailRequests) /\ \A j \in DOMAIN asks' : DetailAskOK(asks[j])'
  BY <1>1, <1>4, <1>7, <1>9, AskingAdds
<1>11. OneOf(asks', ChangesUnderWay) /\ OneOf(asks', OfEditor')
  BY <1>1, <1>4, <1>6, <1>8, AddTells
<1>12. DetailTypes'
  BY <1>1, <1>2, <1>5, <1>10 DEF DetailTypes
<1> QED BY <1>5, <1>6, <1>10, <1>11, <1>12, DetailTogether

----------------------------------------------------------------------------
\* A button is pressed while no change of the panel is under way.
LEMMA ActOnKeeps ==
  ASSUME DetailInv, NEW a \in AllActs, ActOn(a)
  PROVE  DetailInv'
<1>1. /\ DetailTypes /\ DetailAsksOK /\ version \in Nat /\ asks \in Seq(DetailRequests)
      /\ OneOf(asks, ChangesUnderWay) /\ OneOf(asks, OfEditor)
      /\ \A j \in DOMAIN asks : DetailAskOK(asks[j])
  BY DetailFacts
<1>2. /\ UNCHANGED <<kindOf, version, view, ed, due, mishaps>> /\ ~acting /\ acting' = TRUE
      /\ asks' = Append(asks, DetailRequest(a, 0, 0))
  BY DEF ActOn, AskCluster, IdleButtons
<1>3. PICK q \in DetailRequests :
        q = DetailRequest(a, 0, 0) /\ q.what = a /\ q.id = 0 /\ q.state = "open" /\ q.got = 0
  BY DetailRequestTells
<1>4. /\ asks' = Append(asks, q) /\ version' \in Nat /\ version <= version'
      /\ mishaps \subseteq mishaps'
  BY <1>1, <1>2, <1>3
<1>5. /\ \A k \in AllLoads : ViewOK(k)'
      /\ \A b \in DetailRequests : LoadOK(b) => LoadOK(b)'
  BY <1>2, <1>4, ViewsStay
<1>6. /\ EditorOK' /\ OfEditor' = OfEditor
      /\ \A b \in DetailRequests : ManifestOK(b) /\ SaveOK(b) /\ RereadOK(b) =>
                                     (ManifestOK(b) /\ SaveOK(b) /\ RereadOK(b))'
  BY <1>2, <1>4, EditorStays
<1>7. AsksLast
  BY <1>1, <1>2, <1>5, <1>6 DEF AsksLast, DetailAskOK, ChangesUnderWay, DetailRequests
<1>8. q.what \notin AllLoads /\ q.what \notin {"manifest", "save", "reread"} /\ q \notin OfEditor
  BY <1>3 DEF OfEditor, AllLoads, AllActs
<1>9. DetailAskOK(q)'
  BY <1>1, <1>2, <1>3, <1>8 DEF DetailAskOK, LoadOK, ManifestOK, SaveOK, RereadOK
<1>10. asks' \in Seq(DetailRequests) /\ \A j \in DOMAIN asks' : DetailAskOK(asks[j])'
  BY <1>1, <1>4, <1>7, <1>9, AskingAdds
<1>11. OneOf(asks', ChangesUnderWay) /\ OneOf(asks', OfEditor')
  <2>1. NoneIn(asks, ChangesUnderWay)
    BY <1>1, <1>2 DEF NoneIn, DetailAskOK
  <2> QED BY <1>1, <1>4, <1>6, <1>8, <2>1, AddTells
<1>12. DetailTypes'
  BY <1>1, <1>2, <1>10 DEF DetailTypes
<1> QED BY <1>5, <1>6, <1>10, <1>11, <1>12, DetailTogether

\* A button's request is answered: a rollback goes on with a load of the history, after a
\* trigger the jobs wait for their timer.
LEMMA ActedOnKeeps ==
  ASSUME DetailInv, NEW a \in AllActs, NEW i \in DOMAIN asks, ActedOn(a, i)
  PROVE  DetailInv'
<1> DEFINE r == asks[i]
<1>1. /\ DetailTypes /\ DetailAsksOK /\ version \in Nat /\ asks \in Seq(DetailRequests)
      /\ OneOf(asks, ChangesUnderWay) /\ OneOf(asks, OfEditor)
      /\ r \in DetailRequests /\ DetailAskOK(r)
      /\ view \in [AllLoads -> ViewStates]
      /\ \A k \in AllLoads : /\ view[k].last \in Nat /\ view[k].floor \in Nat
                             /\ view[k].v \in Nat /\ ViewOK(k)
  BY DetailFacts
<1>2. /\ UNCHANGED <<kindOf, version, ed, mishaps>> /\ r.what = a
      /\ version' \in Nat /\ version <= version' /\ mishaps \subseteq mishaps'
  BY <1>1 DEF ActedOn, AnswerTo, OpenAsks
<1>3. acting' \in BOOLEAN /\ (acting' <=> a = "undo" /\ r.state = "ok")
  BY Zenon DEF ActedOn
<1>4. r \in ChangesUnderWay
  BY <1>1, <1>2 DEF ChangesUnderWay
<1>5. /\ EditorOK' /\ OfEditor' = OfEditor
      /\ \A b \in DetailRequests : ManifestOK(b) /\ SaveOK(b) /\ RereadOK(b) =>
                                     (ManifestOK(b) /\ SaveOK(b) /\ RereadOK(b))'
  BY <1>2, EditorStays
<1>6. ASSUME \A b \in DetailRequests : DetailAsking(b) /\ LoadOK(b) => LoadOK(b)'
      PROVE  AsksLastBut(ChangesUnderWay)
  BY <1>2, <1>5, <1>6 DEF AsksLastBut, DetailAskOK, ChangesUnderWay
<1>7. ASSUME asks' = Without(i), view' \in [AllLoads -> ViewStates], due' \in BOOLEAN,
             \A k \in AllLoads : ViewOK(k)', AsksLastBut(ChangesUnderWay)
      PROVE  DetailInv'
  <2>1. asks' \in Seq(DetailRequests) /\ \A j \in DOMAIN asks' : DetailAskOK(asks[j])'
    BY <1>1, <1>4, <1>7, AskingDrops
  <2>2. OneOf(asks', ChangesUnderWay) /\ OneOf(asks', OfEditor')
    BY <1>1, <1>5, <1>7, DropTells
  <2>3. DetailTypes'
    BY <1>1, <1>2, <1>3, <1>7, <2>1 DEF DetailTypes
  <2> QED BY <1>5, <1>7, <2>1, <2>2, <2>3, DetailTogether
<1>8. CASE r.state = "error" \/ a \notin {"undo", "trigger"}
  <2>1. asks' = Without(i) /\ UNCHANGED <<view, due>>
    BY <1>8 DEF ActedOn
  <2>2. /\ \A k \in AllLoads : ViewOK(k)'
        /\ \A b \in DetailRequests : LoadOK(b) => LoadOK(b)'
    BY <1>2, <2>1, ViewsStay
  <2>3. view' \in [AllLoads -> ViewStates] /\ due' \in BOOLEAN
    BY <1>1, <2>1 DEF DetailTypes
  <2> QED BY <1>6, <1>7, <2>1, <2>2, <2>3
<1>9. CASE r.state # "error" /\ a = "trigger"
  <2> DEFINE l == "jobs"
             b == [view[l] EXCEPT !.floor = r.got]
  <2>1. /\ asks' = Without(i) /\ due' = TRUE /\ view' = [view EXCEPT ![l].floor = r.got]
        /\ l \in AllLoads
    BY <1>9 DEF ActedOn, Raised, AllLoads
  <2>2. r.got \in Nat /\ r.got <= version /\ view[l] \in ViewStates
    BY <1>1, <2>1 DEF DetailRequests, DetailAskOK
  <2>3. view' = [view EXCEPT ![l] = b]
    BY <1>1, <2>1
  <2>4. b \in ViewStates /\ b.last = view[l].last /\ b.floor = r.got
    BY <2>2 DEF ViewStates
  <2> HIDE DEF b
  <2>5. /\ view' \in [AllLoads -> ViewStates] /\ view'[l] = b
        /\ \A k \in AllLoads \ {l} : view'[k] = view[k]
    BY <1>1, <2>1, <2>3, <2>4
  <2>6. ASSUME NEW k \in AllLoads PROVE ViewOK(k)'
    BY <1>1, <1>2, <2>1, <2>2, <2>4, <2>5 DEF ViewOK
  <2>7. ASSUME NEW c \in DetailRequests, LoadOK(c) PROVE LoadOK(c)'
    BY <1>2, <2>1, <2>4, <2>5, <2>7 DEF LoadOK
  <2> QED BY <1>6, <1>7, <2>1, <2>5, <2>6, <2>7
<1>10. CASE r.state # "error" /\ a = "undo"
  <2> DEFINE l == "history"
  <2>1. /\ view' = Begun(l) /\ UNCHANGED due /\ l \in AllLoads
        /\ asks' = Append(Without(i), DetailRequest(l, view[l].last + 1, 1))
    BY <1>10 DEF ActedOn, AfterUndo, AllLoads
  <2>2. PICK q \in DetailRequests :
          /\ q = DetailRequest(l, view[l].last + 1, 1) /\ q.what = l /\ q.id = view[l].last + 1
          /\ q.state = "open" /\ q.got = 0
    <3>1. view[l].last + 1 \in Nat
      BY <1>1, <2>1
    <3> QED BY <2>1, <3>1, DetailRequestTells
  <2>3. /\ view' \in [AllLoads -> ViewStates] /\ \A k \in AllLoads : ViewOK(k)'
        /\ \A b \in DetailRequests : DetailAsking(b) /\ LoadOK(b) => LoadOK(b)'
        /\ LoadOK(q)'
    <3>1. /\ view' \in [AllLoads -> ViewStates] /\ \A k \in AllLoads : ViewOK(k)'
          /\ \A b \in DetailRequests : DetailAsking(b) /\ LoadOK(b) => LoadOK(b)'
          /\ \A b \in DetailRequests :
                b.what = l /\ b.id = view[l].last + 1 /\ b.state = "open" => LoadOK(b)'
      BY <1>2, <2>1, BegunTells
    <3> QED BY <2>2, <3>1
  <2>4. acting'
    <3>1. r.state \in {"open", "ok", "error"} /\ r.state # "open"
      BY <1>1 DEF DetailRequests, ActedOn, AnswerTo
    <3> QED BY <1>3, <1>10, <3>1
  <2>5. q.what \notin {"manifest", "save", "reread"} /\ q \notin OfEditor
    BY <2>2 DEF OfEditor
  <2>6. DetailAskOK(q)'
    BY <1>1, <1>2, <2>2, <2>3, <2>4, <2>5 DEF DetailAskOK, ManifestOK, SaveOK, RereadOK
  <2>7. AsksLastBut(ChangesUnderWay)
    BY <1>6, <2>3
  <2>8. asks' = Append(Without(i), q)
    BY <2>1, <2>2
  <2>9. asks' \in Seq(DetailRequests) /\ \A j \in DOMAIN asks' : DetailAskOK(asks[j])'
    BY <1>1, <1>4, <2>6, <2>7, <2>8, AskingSwaps
  <2>10. OneOf(asks', ChangesUnderWay) /\ OneOf(asks', OfEditor')
    <3>1. /\ Without(i) \in Seq(DetailRequests) /\ NoneIn(Without(i), ChangesUnderWay)
          /\ OneOf(Without(i), OfEditor)
      BY <1>1, <1>4, DropTells
    <3> QED BY <1>5, <2>5, <2>8, <3>1, AddTells
  <2>11. DetailTypes'
    BY <1>1, <1>2, <1>3, <2>1, <2>3, <2>9 DEF DetailTypes
  <2> QED BY <1>5, <2>3, <2>9, <2>10, <2>11, DetailTogether
<1> QED BY <1>8, <1>9, <1>10

----------------------------------------------------------------------------
\* What is known of a request of the editor.
EditorAskOK(r) ==
  /\ r.what \in {"manifest", "save", "reread"} => r.id <= ed.id
  /\ ManifestOK(r) /\ SaveOK(r) /\ RereadOK(r)

\* Steps of the editor leave what the views are to show, and the changes under way.
LEMMA EditorMoves ==
  ASSUME DetailInv, UNCHANGED <<kindOf, version, view, acting, due>>, mishaps \subseteq mishaps'
  PROVE  /\ \A l \in AllLoads : ViewOK(l)'
         /\ \A r \in DetailRequests : DetailAskOK(r) /\ EditorAskOK(r)' => DetailAskOK(r)'
         /\ \A r \in DetailRequests : DetailAskOK(r) => EditorAskOK(r)
         /\ \A r \in DetailRequests :
              /\ r.what \in {"manifest", "save", "reread"} /\ r.got = 0 /\ EditorAskOK(r)'
              => DetailAskOK(r)' /\ r \notin ChangesUnderWay
<1>1. version \in Nat /\ version' \in Nat /\ version <= version'
  BY DetailFacts
<1>2. /\ \A l \in AllLoads : ViewOK(l)'
      /\ \A r \in DetailRequests : LoadOK(r) => LoadOK(r)'
  BY <1>1, ViewsStay
<1>3. ChangesUnderWay' = ChangesUnderWay
  BY DEF ChangesUnderWay
<1>4. ASSUME NEW r \in DetailRequests, DetailAskOK(r), EditorAskOK(r)' PROVE DetailAskOK(r)'
  BY <1>2, <1>3, <1>4 DEF DetailAskOK, EditorAskOK
<1>5. ASSUME NEW r \in DetailRequests, r.what \in {"manifest", "save", "reread"}, r.got = 0,
             EditorAskOK(r)'
      PROVE  DetailAskOK(r)' /\ r \notin ChangesUnderWay
  <2>1. r.what \notin AllLoads /\ r.what \notin AllActs
    BY <1>5 DEF AllLoads, AllActs
  <2>2. r \notin ChangesUnderWay
    BY <2>1 DEF ChangesUnderWay
  <2>3. LoadOK(r)'
    BY <2>1 DEF LoadOK
  <2> QED BY <1>1, <1>3, <1>5, <2>2, <2>3 DEF DetailAskOK, EditorAskOK
<1> QED BY <1>2, <1>4, <1>5 DEF DetailAskOK, EditorAskOK

\* Requests that are not of the editor as it is stay so.
LEMMA OthersOfEditor ==
  ASSUME DetailInv, UNCHANGED <<kindOf, version>>, mishaps \subseteq mishaps', ed'.id = ed.id,
         ed'.shows = "nothing" \/ ed.shows # "nothing"
  PROVE  /\ OfEditor' = OfEditor
         /\ \A r \in DetailRequests : r \notin OfEditor /\ EditorAskOK(r) => EditorAskOK(r)'
<1>1. OfEditor' = OfEditor
  BY DEF OfEditor
<1>2. ASSUME NEW r \in DetailRequests, r \notin OfEditor, EditorAskOK(r)
      PROVE  EditorAskOK(r)'
  <2>1. r.what \in {"manifest", "save", "reread"} => r.id # ed.id /\ r.id <= ed.id
    BY <1>2 DEF OfEditor, EditorAskOK
  <2>2. ManifestOK(r)' /\ RereadOK(r)'
    BY <2>1 DEF ManifestOK, RereadOK
  <2>3. SaveOK(r)'
    BY <1>2, <2>1 DEF SaveOK, EditorAskOK
  <2> QED BY <2>1, <2>2, <2>3 DEF EditorAskOK
<1> QED BY <1>1, <1>2

\* When the editor counts on, no request under way is of it any more.
LEMMA EditorAnew ==
  ASSUME DetailInv, UNCHANGED <<kindOf, version>>, mishaps \subseteq mishaps',
         ed'.id = ed.id + 1,
         \/ ed'.shows = "nothing" \/ kindOf \in OwnEditor
         \/ OpenAsks("save") # {} => "openedWhileSaving" \in mishaps'
  PROVE  /\ NoneIn(asks, OfEditor')
         /\ \A r \in DetailRequests : DetailAsking(r) /\ EditorAskOK(r) => EditorAskOK(r)'
<1>1. /\ ed.id \in Nat /\ \A j \in DOMAIN asks : asks[j] \in DetailRequests /\ DetailAskOK(asks[j])
  BY DetailFacts
<1>2. NoneIn(asks, OfEditor')
  <2> SUFFICES ASSUME NEW j \in DOMAIN asks PROVE asks[j] \notin OfEditor'
    BY DEF NoneIn
  <2>1. asks[j].what \in {"manifest", "save", "reread"} => asks[j].id <= ed.id
    BY <1>1 DEF DetailAskOK
  <2>2. asks[j].id \in Nat
    BY <1>1 DEF DetailRequests
  <2> QED BY <1>1, <2>1, <2>2 DEF OfEditor
<1>3. ASSUME NEW r \in DetailRequests, DetailAsking(r), EditorAskOK(r)
      PROVE  EditorAskOK(r)'
  <2>1. r.id \in Nat
    BY DEF DetailRequests
  <2>2. r.what \in {"manifest", "save", "reread"} =>
          r.id # ed'.id /\ r.id <= ed'.id /\ r.id <= ed.id
    BY <1>1, <1>3, <2>1 DEF EditorAskOK
  <2>3. ManifestOK(r)' /\ RereadOK(r)'
    BY <2>2 DEF ManifestOK, RereadOK
  <2>4. SaveOK(r)'
    <3> SUFFICES ASSUME r.what = "save", kindOf \notin OwnEditor, ed'.shows # "nothing"
                 PROVE  "openedWhileSaving" \in mishaps'
      BY <2>2 DEF SaveOK
    <3> QED BY <1>3 DEF OpenAsks, DetailAsking
  <2> QED BY <2>2, <2>3, <2>4 DEF EditorAskOK
<1> QED BY <1>2, <1>3

----------------------------------------------------------------------------
\* The editor is opened: it waits for the manifest.
LEMMA OpenYAMLKeeps ==
  ASSUME DetailInv, OpenYAML
  PROVE  DetailInv'
<1>1. /\ DetailTypes /\ DetailAsksOK /\ EditorOK /\ version \in Nat /\ asks \in Seq(DetailRequests)
      /\ OneOf(asks, ChangesUnderWay) /\ ed \in EditorType /\ ed.id \in Nat
  BY DetailFacts
<1>2. /\ UNCHANGED <<kindOf, version, view, acting, due>> /\ mishaps \subseteq mishaps'
      /\ asks' = Append(asks, DetailRequest("manifest", ed.id + 1, 0))
      /\ mishaps' = mishaps \cup (IF OpenAsks("save") # {} THEN {"openedWhileSaving"} ELSE {})
  BY DEF OpenYAML, AskCluster
<1>3. ed' = [ed EXCEPT !.shows = "loading", !.id = ed.id + 1, !.saving = FALSE, !.refused = FALSE,
                       !.floor = version, !.result = "none"]
  BY <1>1 DEF OpenYAML, EditorType
<1>4. /\ ed' \in EditorType /\ ed'.shows = "loading" /\ ed'.id = ed.id + 1 /\ ed'.refused = FALSE
      /\ ed'.floor = version /\ ed'.result = "none"
  <2> DEFINE next == ed.id + 1
  <2>1. next \in Nat
    BY <1>1
  <2>2. next = ed.id + 1
    OBVIOUS
  <2> HIDE DEF next
  <2> QED BY <1>1, <1>3, <2>1, <2>2 DEF EditorType
<1>5. PICK q \in DetailRequests :
        /\ q = DetailRequest("manifest", ed.id + 1, 0) /\ q.what = "manifest" /\ q.id = ed.id + 1
        /\ q.state = "open" /\ q.got = 0
  <2>1. ed.id + 1 \in Nat /\ 0 \in Nat
    BY <1>1
  <2> DEFINE w == "manifest"
             n == ed.id + 1
  <2>2. w \in AllLoads \cup AllActs \cup {"manifest", "save", "reread"} /\ w = "manifest"
    OBVIOUS
  <2> HIDE DEF w, n
  <2>3. \E q \in DetailRequests :
          q = DetailRequest(w, n, 0) /\ q.what = w /\ q.id = n /\ q.state = "open" /\ q.got = 0
    BY <2>1, <2>2, DetailRequestTells DEF n
  <2> QED BY <2>2, <2>3 DEF n
<1>6. /\ \A l \in AllLoads : ViewOK(l)'
      /\ \A r \in DetailRequests : DetailAskOK(r) /\ EditorAskOK(r)' => DetailAskOK(r)'
      /\ \A r \in DetailRequests : DetailAskOK(r) => EditorAskOK(r)
      /\ EditorAskOK(q)' => DetailAskOK(q)' /\ q \notin ChangesUnderWay
  BY <1>2, <1>5, EditorMoves
<1>7. /\ NoneIn(asks, OfEditor')
      /\ \A r \in DetailRequests : DetailAsking(r) /\ EditorAskOK(r) => EditorAskOK(r)'
  BY <1>2, <1>4, EditorAnew
<1>8. AsksLast
  BY <1>6, <1>7 DEF AsksLast
<1>9. EditorAskOK(q)'
  <2>1. q.id <= ed'.id
    BY <1>1, <1>4, <1>5
  <2> QED BY <1>4, <1>5, <2>1 DEF EditorAskOK, ManifestOK, SaveOK, RereadOK
<1>10. asks' = Append(asks, q)
  BY <1>2, <1>5
<1>11. asks' \in Seq(DetailRequests) /\ \A j \in DOMAIN asks' : DetailAskOK(asks[j])'
  BY <1>1, <1>6, <1>8, <1>9, <1>10, AskingAdds
<1>12. OneOf(asks', ChangesUnderWay) /\ OneOf(asks', OfEditor')
  BY <1>1, <1>6, <1>7, <1>9, <1>10, AddTells
<1>13. EditorOK'
  BY <1>1, <1>2, <1>4 DEF EditorOK, EditorTells, EditsKept
<1>14. DetailTypes'
  BY <1>1, <1>2, <1>4, <1>11 DEF DetailTypes
<1> QED BY <1>6, <1>11, <1>12, <1>13, <1>14, DetailTogether

\* The editor is closed: what is under way is outdated.
LEMMA CloseYAMLKeeps ==
  ASSUME DetailInv, CloseYAML
  PROVE  DetailInv'
<1>1. /\ DetailTypes /\ DetailAsksOK /\ EditorOK /\ version \in Nat /\ asks \in Seq(DetailRequests)
      /\ OneOf(asks, ChangesUnderWay) /\ ed \in EditorType /\ ed.id \in Nat
  BY DetailFacts
<1>2. UNCHANGED <<kindOf, version, view, acting, due, asks, mishaps>>
  BY DEF CloseYAML
<1>3. ed' = [ed EXCEPT !.shows = "nothing", !.id = ed.id + 1, !.saving = FALSE, !.refused = FALSE]
  BY <1>1 DEF CloseYAML, EditorType
<1>4. /\ ed' \in EditorType /\ ed'.shows = "nothing" /\ ed'.id = ed.id + 1 /\ ed'.refused = FALSE
      /\ ed'.floor = ed.floor
  <2> DEFINE next == ed.id + 1
  <2>1. next \in Nat
    BY <1>1
  <2>2. next = ed.id + 1
    OBVIOUS
  <2> HIDE DEF next
  <2> QED BY <1>1, <1>3, <2>1, <2>2 DEF EditorType
<1>5. /\ \A l \in AllLoads : ViewOK(l)'
      /\ \A r \in DetailRequests : DetailAskOK(r) /\ EditorAskOK(r)' => DetailAskOK(r)'
      /\ \A r \in DetailRequests : DetailAskOK(r) => EditorAskOK(r)
  BY <1>2, EditorMoves
<1>6. /\ NoneIn(asks, OfEditor')
      /\ \A r \in DetailRequests : DetailAsking(r) /\ EditorAskOK(r) => EditorAskOK(r)'
  BY <1>2, <1>4, EditorAnew
<1>7. AsksLast
  BY <1>5, <1>6 DEF AsksLast
<1>8. asks' \in Seq(DetailRequests) /\ \A j \in DOMAIN asks' : DetailAskOK(asks[j])'
  BY <1>1, <1>2, <1>7, AskingStays
<1>9. OneOf(asks', ChangesUnderWay) /\ OneOf(asks', OfEditor')
  BY <1>1, <1>2, <1>6 DEF NoneIn, OneOf
<1>10. EditorOK'
  BY <1>1, <1>2, <1>4 DEF EditorOK, EditorTells, EditsKept
<1>11. DetailTypes'
  BY <1>1, <1>2, <1>4, <1>8 DEF DetailTypes
<1> QED BY <1>5, <1>8, <1>9, <1>10, <1>11, DetailTogether

\* The manifest is saved: the viewer waits.
LEMMA SaveYAMLKeeps ==
  ASSUME DetailInv, SaveYAML
  PROVE  DetailInv'
<1> DEFINE id == IF kindOf \in OwnEditor THEN ed.id + 1 ELSE ed.id
<1>1. /\ DetailTypes /\ DetailAsksOK /\ EditorOK /\ version \in Nat /\ asks \in Seq(DetailRequests)
      /\ OneOf(asks, ChangesUnderWay) /\ OneOf(asks, OfEditor)
      /\ ed \in EditorType /\ ed.id \in Nat /\ ed.base \in Nat /\ ed.floor \in Nat
      /\ \A j \in DOMAIN asks : asks[j] \in DetailRequests /\ DetailAskOK(asks[j])
  BY DetailFacts
<1>2. /\ UNCHANGED <<kindOf, version, view, acting, due, mishaps>>
      /\ ed.shows = "yaml" /\ ~ed.saving
      /\ ed' = [ed EXCEPT !.saving = TRUE, !.refused = FALSE, !.id = id]
      /\ asks' = Append(asks, DetailRequest("save", id, ed.base))
  BY DEF SaveYAML, AskCluster
<1>3. id \in Nat
  BY <1>1
<1>4. /\ ed' \in EditorType /\ ed'.shows = "yaml" /\ ed'.id = id /\ ed'.refused = FALSE
      /\ ed'.saving = TRUE /\ ed'.floor = ed.floor /\ ed'.base = ed.base /\ ed'.result = ed.result
  BY <1>1, <1>2, <1>3 DEF EditorType
<1>5. PICK q \in DetailRequests :
        /\ q = DetailRequest("save", id, ed.base) /\ q.what = "save" /\ q.id = id
        /\ q.base = ed.base /\ q.state = "open" /\ q.got = 0
  <2> DEFINE w == "save"
  <2>1. w \in AllLoads \cup AllActs \cup {"manifest", "save", "reread"} /\ w = "save"
    OBVIOUS
  <2> HIDE DEF w, id
  <2>2. \E q \in DetailRequests :
          /\ q = DetailRequest(w, id, ed.base) /\ q.what = w /\ q.id = id /\ q.base = ed.base
          /\ q.state = "open" /\ q.got = 0
    BY <1>1, <1>3, <2>1, DetailRequestTells
  <2> QED BY <2>1, <2>2
<1>6. /\ \A l \in AllLoads : ViewOK(l)'
      /\ \A r \in DetailRequests : DetailAskOK(r) /\ EditorAskOK(r)' => DetailAskOK(r)'
      /\ \A r \in DetailRequests : DetailAskOK(r) => EditorAskOK(r)
      /\ EditorAskOK(q)' => DetailAskOK(q)' /\ q \notin ChangesUnderWay
  BY <1>2, <1>5, EditorMoves
<1>7. /\ NoneIn(asks, OfEditor')
      /\ \A r \in DetailRequests : DetailAsking(r) /\ EditorAskOK(r) => EditorAskOK(r)'
  <2>1. CASE kindOf \in OwnEditor
    BY <1>2, <1>4, <2>1, EditorAnew
  <2>2. CASE kindOf \notin OwnEditor
    <3>1. /\ OfEditor' = OfEditor
          /\ \A r \in DetailRequests : r \notin OfEditor /\ EditorAskOK(r) => EditorAskOK(r)'
      BY <1>2, <1>4, <2>2, OthersOfEditor
    <3>2. NoneIn(asks, OfEditor)
      <4> SUFFICES ASSUME NEW j \in DOMAIN asks, asks[j] \in OfEditor PROVE FALSE
        BY DEF NoneIn
      <4>1. /\ DetailAskOK(asks[j]) /\ asks[j].id = ed.id
            /\ asks[j].what \in {"manifest", "save", "reread"}
        BY <1>1 DEF OfEditor
      <4> QED BY <1>2, <2>2, <4>1 DEF DetailAskOK, ManifestOK, SaveOK, RereadOK
    <3> QED BY <3>1, <3>2 DEF NoneIn, DetailAsking
  <2> QED BY <2>1, <2>2
<1>8. AsksLast
  BY <1>6, <1>7 DEF AsksLast
<1>9. EditorAskOK(q)'
  <2>1. q.id <= ed'.id /\ q.id = ed'.id
    BY <1>3, <1>4, <1>5
  <2>2. q.base >= ed.floor
    BY <1>1, <1>2, <1>5 DEF EditorOK, EditorTells
  <2>3. SaveOK(q)'
    BY <1>4, <1>5, <2>1, <2>2 DEF SaveOK
  <2> QED BY <1>5, <2>1, <2>3 DEF EditorAskOK, ManifestOK, RereadOK
<1> HIDE DEF id
<1>10. asks' = Append(asks, q)
  BY <1>2, <1>5
<1>11. asks' \in Seq(DetailRequests) /\ \A j \in DOMAIN asks' : DetailAskOK(asks[j])'
  BY <1>1, <1>6, <1>8, <1>9, <1>10, AskingAdds
<1>12. OneOf(asks', ChangesUnderWay) /\ OneOf(asks', OfEditor')
  BY <1>1, <1>6, <1>7, <1>9, <1>10, AddTells
<1>13. EditorOK'
  BY <1>1, <1>2, <1>4 DEF EditorOK, EditorTells, EditsKept
<1>14. DetailTypes'
  BY <1>1, <1>2, <1>4, <1>11 DEF DetailTypes
<1> QED BY <1>6, <1>11, <1>12, <1>13, <1>14, DetailTogether

----------------------------------------------------------------------------
\* The editor takes an answer: of what is of it one at most is under way, and that was it.
LEMMA EditorHears ==
  ASSUME DetailInv, UNCHANGED <<kindOf, version, view, acting, due>>, mishaps \subseteq mishaps',
         NEW i \in DOMAIN asks, asks' = Without(i), ed' \in EditorType, EditorOK',
         ed'.id = ed.id, ed'.shows = "nothing" \/ ed.shows # "nothing",
         asks[i] \in OfEditor \/ \A r \in OfEditor : EditorAskOK(r) => EditorAskOK(r)'
  PROVE  DetailInv'
<1> DEFINE heard == IF asks[i] \in OfEditor THEN OfEditor ELSE {}
<1>1. /\ DetailTypes /\ DetailAsksOK /\ asks \in Seq(DetailRequests)
      /\ OneOf(asks, ChangesUnderWay) /\ OneOf(asks, OfEditor)
  BY DetailFacts
<1>2. /\ \A l \in AllLoads : ViewOK(l)'
      /\ \A r \in DetailRequests : DetailAskOK(r) /\ EditorAskOK(r)' => DetailAskOK(r)'
      /\ \A r \in DetailRequests : DetailAskOK(r) => EditorAskOK(r)
  BY EditorMoves
<1>3. /\ OfEditor' = OfEditor
      /\ \A r \in DetailRequests : r \notin OfEditor /\ EditorAskOK(r) => EditorAskOK(r)'
  BY OthersOfEditor
<1>4. AsksLastBut(heard)
  BY <1>2, <1>3 DEF AsksLastBut
<1>5. heard = {} \/ (OneOf(asks, heard) /\ asks[i] \in heard)
  BY <1>1
<1> HIDE DEF heard
<1>6. asks' \in Seq(DetailRequests) /\ \A j \in DOMAIN asks' : DetailAskOK(asks[j])'
  BY <1>1, <1>4, <1>5, AskingDrops
<1>7. OneOf(asks', ChangesUnderWay) /\ OneOf(asks', OfEditor')
  BY <1>1, <1>3, DropTells
<1>8. DetailTypes'
  BY <1>1, <1>6 DEF DetailTypes
<1> QED BY <1>2, <1>6, <1>7, <1>8, DetailTogether

\* The editor shows the manifest that it has asked for, and no other.
LEMMA DetailManifestKeeps ==
  ASSUME DetailInv, NEW i \in DOMAIN asks, ManifestArrives(i)
  PROVE  DetailInv'
<1> DEFINE r == asks[i]
<1>1. /\ EditorOK /\ version \in Nat /\ ed \in EditorType /\ r \in DetailRequests /\ DetailAskOK(r)
  BY DetailFacts
<1>2. /\ UNCHANGED <<kindOf, version, view, acting, due, mishaps>> /\ mishaps \subseteq mishaps'
      /\ r.what = "manifest" /\ r.state # "open" /\ asks' = Without(i)
  BY DEF ManifestArrives, AnswerTo, OpenAsks
<1>3. CASE r.id # ed.id
  <2>1. ed' = ed
    BY <1>3 DEF ManifestArrives, CurrentYAML
  <2>2. EditorOK'
    BY <1>1, <1>2, <2>1 DEF EditorOK, EditorTells, EditsKept
  <2>3. \A a \in OfEditor : EditorAskOK(a) => EditorAskOK(a)'
    BY <1>2, <2>1 DEF EditorAskOK, ManifestOK, SaveOK, RereadOK
  <2> QED BY <1>1, <1>2, <2>1, <2>2, <2>3, EditorHears
<1>4. CASE r.id = ed.id
  <2>1. r \in OfEditor
    BY <1>1, <1>2, <1>4 DEF OfEditor
  <2>2. ed.shows = "loading" /\ ed.result = "none" /\ (r.state = "ok" => r.got >= ed.floor)
    BY <1>1, <1>2, <1>4 DEF DetailAskOK, ManifestOK, EditorOK
  <2>3. r.got \in Nat /\ r.state \in {"open", "ok", "error"}
    BY <1>1 DEF DetailRequests
  <2>4. CASE r.state = "error"
    <3>1. ed' = [ed EXCEPT !.shows = "error"]
      BY <1>4, <2>4 DEF ManifestArrives, CurrentYAML
    <3>2. /\ ed' \in EditorType /\ ed'.shows = "error" /\ ed'.id = ed.id /\ ed'.floor = ed.floor
          /\ ed'.refused = ed.refused /\ ed'.result = ed.result
      BY <1>1, <3>1 DEF EditorType
    <3>3. EditorOK'
      BY <1>1, <1>2, <2>2, <3>2 DEF EditorOK, EditorTells, EditsKept
    <3> QED BY <1>2, <2>1, <2>2, <3>2, <3>3, EditorHears
  <2>5. CASE r.state # "error"
    <3>1. ed' = [ed EXCEPT !.shows = "yaml", !.base = r.got]
      BY <1>4, <2>5 DEF ManifestArrives, CurrentYAML
    <3>2. /\ ed' \in EditorType /\ ed'.shows = "yaml" /\ ed'.id = ed.id /\ ed'.floor = ed.floor
          /\ ed'.refused = ed.refused /\ ed'.result = ed.result /\ ed'.base = r.got
      BY <1>1, <2>3, <3>1 DEF EditorType
    <3>3. EditorOK'
      BY <1>1, <1>2, <2>2, <2>3, <2>5, <3>2 DEF EditorOK, EditorTells, EditsKept
    <3> QED BY <1>2, <2>1, <2>2, <3>2, <3>3, EditorHears
  <2> QED BY <2>4, <2>5
<1> QED BY <1>3, <1>4

\* What is read after a save takes the place of the manifest, and the viewer stops waiting.
LEMMA RereadKeeps ==
  ASSUME DetailInv, NEW i \in DOMAIN asks, Reread(i)
  PROVE  DetailInv'
<1> DEFINE r == asks[i]
<1>1. /\ EditorOK /\ version \in Nat /\ ed \in EditorType /\ r \in DetailRequests /\ DetailAskOK(r)
      /\ ed.floor \in Nat
  BY DetailFacts
<1>2. /\ UNCHANGED <<kindOf, version, view, acting, due>> /\ mishaps \subseteq mishaps'
      /\ r.what = "reread" /\ r.state # "open" /\ asks' = Without(i)
      /\ mishaps' = mishaps \cup (IF r.state = "error" THEN {"rereadFailed"} ELSE {})
  BY DEF Reread, AnswerTo, OpenAsks
<1>3. /\ "anotherClosed" \in mishaps' => "anotherClosed" \in mishaps
      /\ r.state = "error" => "rereadFailed" \in mishaps'
  BY <1>2
<1>4. CASE r.id # ed.id
  <2>1. ed' = ed
    BY <1>4 DEF Reread, CurrentYAML
  <2>2. EditorOK'
    BY <1>1, <1>2, <1>3, <2>1 DEF EditorOK, EditorTells, EditsKept
  <2>3. \A a \in OfEditor : EditorAskOK(a) => EditorAskOK(a)'
    BY <1>2, <2>1 DEF EditorAskOK, ManifestOK, SaveOK, RereadOK
  <2> QED BY <1>1, <1>2, <2>1, <2>2, <2>3, EditorHears
<1>5. CASE r.id = ed.id
  <2>1. r \in OfEditor
    BY <1>1, <1>2, <1>5 DEF OfEditor
  <2>2. kindOf \in OwnEditor /\ ed.shows = "yaml" /\ (r.state = "ok" => r.got > ed.floor)
    BY <1>1, <1>2, <1>5 DEF DetailAskOK, RereadOK
  <2>3. r.got \in Nat /\ r.state \in {"open", "ok", "error"}
    BY <1>1 DEF DetailRequests
  <2>4. CASE r.state # "error"
    <3>1. ed' = [ed EXCEPT !.base = r.got, !.saving = FALSE]
      BY <1>5, <2>4 DEF Reread, CurrentYAML
    <3>2. /\ ed' \in EditorType /\ ed'.shows = "yaml" /\ ed'.id = ed.id /\ ed'.floor = ed.floor
          /\ ed'.refused = ed.refused /\ ed'.result = ed.result /\ ed'.base = r.got
      BY <1>1, <2>2, <2>3, <3>1 DEF EditorType
    <3>3. EditorOK'
      BY <1>1, <1>2, <1>3, <2>2, <2>3, <2>4, <3>2 DEF EditorOK, EditorTells, EditsKept
    <3> QED BY <1>2, <2>1, <2>2, <3>2, <3>3, EditorHears
  <2>5. CASE r.state = "error" /\ kindOf = "ingress"
    <3>1. ed' = [ed EXCEPT !.shows = "nothing", !.saving = FALSE]
      BY <1>5, <2>5 DEF Reread, CurrentYAML
    <3>2. /\ ed' \in EditorType /\ ed'.shows = "nothing" /\ ed'.id = ed.id /\ ed'.floor = ed.floor
          /\ ed'.refused = ed.refused /\ ed'.result = ed.result
      BY <1>1, <3>1 DEF EditorType
    <3>3. EditorOK'
      BY <1>1, <1>2, <1>3, <2>5, <3>2 DEF EditorOK, EditorTells, EditsKept
    <3> QED BY <1>2, <2>1, <2>2, <3>2, <3>3, EditorHears
  <2>6. CASE r.state = "error" /\ kindOf # "ingress"
    <3>1. ed' = [ed EXCEPT !.saving = FALSE, !.refused = TRUE]
      BY <1>5, <2>6 DEF Reread, CurrentYAML, EditorRefused
    <3>2. /\ ed' \in EditorType /\ ed'.shows = "yaml" /\ ed'.id = ed.id /\ ed'.floor = ed.floor
          /\ ed'.result = ed.result /\ ed'.base = ed.base
      BY <1>1, <2>2, <3>1 DEF EditorType
    <3>3. EditorOK'
      BY <1>1, <1>2, <1>3, <2>2, <2>6, <3>2 DEF EditorOK, EditorTells, EditsKept
    <3> QED BY <1>2, <2>1, <2>2, <3>2, <3>3, EditorHears
  <2> QED BY <2>4, <2>5, <2>6
<1> QED BY <1>4, <1>5

----------------------------------------------------------------------------
\* A save is answered that is not of the editor as it is: a manifest goes away by it only
\* where the editor was opened while it was under way.
LEMMA OtherSaveKeeps ==
  ASSUME DetailInv, NEW i \in DOMAIN asks, SaveAnswered(i), asks[i].id # ed.id
  PROVE  DetailInv'
<1> DEFINE r == asks[i]
           closes == r.state # "error" /\ kindOf \notin OwnEditor /\ ed.shows = "yaml"
<1>1. /\ EditorOK /\ version \in Nat /\ ed \in EditorType /\ r \in DetailRequests /\ DetailAskOK(r)
  BY DetailFacts
<1>2. /\ UNCHANGED <<kindOf, version, view, acting, due>> /\ r.what = "save"
      /\ asks' = Without(i)
      /\ mishaps' = mishaps \cup (IF closes THEN {"anotherClosed"} ELSE {})
      /\ ed' = IF closes THEN [ed EXCEPT !.shows = "nothing", !.saving = FALSE] ELSE ed
  BY DEF SaveAnswered, AnswerTo, OpenAsks, CurrentYAML, EditorRefused, EditorSaved
<1>3. mishaps \subseteq mishaps' /\ ("rereadFailed" \in mishaps => "rereadFailed" \in mishaps')
  BY <1>2
<1>4. CASE ~closes
  <2>1. ed' = ed /\ mishaps' = mishaps
    BY <1>2, <1>4
  <2>2. EditorOK'
    BY <1>1, <1>2, <2>1 DEF EditorOK, EditorTells, EditsKept
  <2>3. \A a \in OfEditor : EditorAskOK(a) => EditorAskOK(a)'
    BY <1>2, <2>1 DEF EditorAskOK, ManifestOK, SaveOK, RereadOK
  <2> QED BY <1>1, <1>2, <1>3, <2>1, <2>2, <2>3, EditorHears
<1>5. CASE closes
  <2>1. /\ ed' \in EditorType /\ ed'.shows = "nothing" /\ ed'.id = ed.id /\ ed'.floor = ed.floor
        /\ ed'.refused = ed.refused /\ ed'.result = ed.result
    BY <1>1, <1>2, <1>5 DEF EditorType
  <2>2. "openedWhileSaving" \in mishaps
    BY <1>1, <1>2, <1>5 DEF DetailAskOK, SaveOK
  <2>3. EditorOK'
    BY <1>1, <1>2, <1>3, <2>1, <2>2 DEF EditorOK, EditorTells, EditsKept
  <2>4. \A a \in OfEditor : EditorAskOK(a) => EditorAskOK(a)'
    BY <1>2, <1>3, <1>5, <2>1 DEF OfEditor, EditorAskOK, ManifestOK, SaveOK, RereadOK
  <2> QED BY <1>2, <1>3, <2>1, <2>3, <2>4, EditorHears
<1> QED BY <1>4, <1>5

\* The save of the editor as it is has been answered: by an error, which the viewer shows,
\* or it was done, whereupon the hook's editor closes.
LEMMA OwnSaveHeard ==
  ASSUME DetailInv, NEW i \in DOMAIN asks, SaveAnswered(i), asks[i].id = ed.id,
         asks[i].state = "error" \/ kindOf \notin OwnEditor
  PROVE  DetailInv'
<1> DEFINE r == asks[i]
<1>1. /\ EditorOK /\ version \in Nat /\ ed \in EditorType /\ r \in DetailRequests /\ DetailAskOK(r)
      /\ ed.floor \in Nat
  BY DetailFacts
<1>2. /\ UNCHANGED <<kindOf, version, view, acting, due, mishaps>> /\ r.what = "save"
      /\ asks' = Without(i) /\ mishaps \subseteq mishaps'
      /\ ed' = LET e == IF r.state = "error" THEN [ed EXCEPT !.saving = FALSE, !.refused = TRUE]
                        ELSE EditorSaved
               IN  [e EXCEPT !.result = IF r.state # "error" THEN "ok" ELSE "error"]
  BY DEF SaveAnswered, AnswerTo, OpenAsks, CurrentYAML, EditorRefused
<1>3. r \in OfEditor
  BY <1>1, <1>2 DEF OfEditor
<1>4. ~ed.refused /\ ed.shows \in {"yaml", "nothing"}
  BY <1>1, <1>2 DEF DetailAskOK, SaveOK
<1>5. CASE r.state = "error"
  <2>1. ed' = [ed EXCEPT !.saving = FALSE, !.refused = TRUE, !.result = "error"]
    BY <1>1, <1>2, <1>5 DEF EditorType
  <2>2. /\ ed' \in EditorType /\ ed'.shows = ed.shows /\ ed'.id = ed.id /\ ed'.floor = ed.floor
        /\ ed'.result = "error" /\ ed'.base = ed.base
    BY <1>1, <2>1 DEF EditorType
  <2>3. EditorOK'
    BY <1>1, <1>2, <1>4, <2>2 DEF EditorOK, EditorTells, EditsKept
  <2> QED BY <1>2, <1>3, <2>2, <2>3, EditorHears
<1>6. CASE r.state # "error"
  <2>1. ed' = IF ed.shows = "yaml"
              THEN [ed EXCEPT !.shows = "nothing", !.saving = FALSE, !.result = "ok"]
              ELSE [ed EXCEPT !.result = "ok"]
    BY <1>1, <1>2, <1>6 DEF EditorType, EditorSaved
  <2>2. /\ ed' \in EditorType /\ ed'.shows = "nothing" /\ ed'.id = ed.id /\ ed'.floor = ed.floor
        /\ ed'.result = "ok" /\ ed'.refused = ed.refused
    BY <1>1, <1>4, <2>1 DEF EditorType
  <2>3. EditorOK'
    BY <1>1, <1>2, <1>4, <2>2 DEF EditorOK, EditorTells, EditsKept
  <2> QED BY <1>2, <1>3, <2>2, <2>3, EditorHears
<1> QED BY <1>5, <1>6

\* An editor of the panel's own goes on with what it reads after the save.
LEMMA OwnSaveRereads ==
  ASSUME DetailInv, NEW i \in DOMAIN asks, SaveAnswered(i), asks[i].id = ed.id,
         asks[i].state # "error", kindOf \in OwnEditor
  PROVE  DetailInv'
<1> DEFINE r == asks[i]
<1>1. /\ DetailTypes /\ DetailAsksOK /\ EditorOK /\ version \in Nat /\ ed \in EditorType
      /\ asks \in Seq(DetailRequests) /\ OneOf(asks, ChangesUnderWay) /\ OneOf(asks, OfEditor)
      /\ r \in DetailRequests /\ DetailAskOK(r) /\ ed.floor \in Nat /\ ed.id \in Nat
  BY DetailFacts
<1>2. /\ UNCHANGED <<kindOf, version, view, acting, due, mishaps>> /\ mishaps \subseteq mishaps'
      /\ r.what = "save" /\ r.state # "open"
      /\ asks' = Append(Without(i), DetailRequest("reread", r.id, 0))
      /\ ed' = [ed EXCEPT !.result = "ok"]
  BY DEF SaveAnswered, AnswerTo, OpenAsks, CurrentYAML
<1>3. r \in OfEditor
  BY <1>1, <1>2 DEF OfEditor
<1>4. /\ ~ed.refused /\ ed.shows = "yaml" /\ ed.saving /\ version > ed.floor
  <2>1. r.state = "ok"
    BY <1>1, <1>2 DEF DetailRequests
  <2> QED BY <1>1, <1>2, <2>1 DEF DetailAskOK, SaveOK
<1>5. /\ ed' \in EditorType /\ ed'.shows = ed.shows /\ ed'.id = ed.id /\ ed'.floor = ed.floor
      /\ ed'.result = "ok" /\ ed'.base = ed.base /\ ed'.saving = ed.saving
      /\ ed'.refused = ed.refused
  BY <1>1, <1>2 DEF EditorType
<1>6. PICK q \in DetailRequests :
        /\ q = DetailRequest("reread", r.id, 0) /\ q.what = "reread" /\ q.id = r.id
        /\ q.state = "open" /\ q.got = 0
  <2> DEFINE w == "reread"
             n == r.id
  <2>1. /\ w \in AllLoads \cup AllActs \cup {"manifest", "save", "reread"} /\ w = "reread"
        /\ n \in Nat
    BY <1>1
  <2> HIDE DEF w, n
  <2>2. \E q \in DetailRequests :
          q = DetailRequest(w, n, 0) /\ q.what = w /\ q.id = n /\ q.state = "open" /\ q.got = 0
    BY <2>1, DetailRequestTells
  <2> QED BY <2>1, <2>2 DEF n
<1>7. /\ \A l \in AllLoads : ViewOK(l)'
      /\ \A a \in DetailRequests : DetailAskOK(a) /\ EditorAskOK(a)' => DetailAskOK(a)'
      /\ \A a \in DetailRequests : DetailAskOK(a) => EditorAskOK(a)
      /\ EditorAskOK(q)' => DetailAskOK(q)' /\ q \notin ChangesUnderWay
  BY <1>2, <1>6, EditorMoves
<1>8. /\ OfEditor' = OfEditor
      /\ \A a \in DetailRequests : a \notin OfEditor /\ EditorAskOK(a) => EditorAskOK(a)'
  BY <1>2, <1>4, <1>5, OthersOfEditor
<1>9. AsksLastBut(OfEditor)
  BY <1>7, <1>8 DEF AsksLastBut
<1>10. EditorAskOK(q)'
  BY <1>1, <1>2, <1>4, <1>5, <1>6 DEF EditorAskOK, ManifestOK, SaveOK, RereadOK
<1>11. asks' = Append(Without(i), q)
  BY <1>2, <1>6
<1>12. asks' \in Seq(DetailRequests) /\ \A j \in DOMAIN asks' : DetailAskOK(asks[j])'
  BY <1>1, <1>3, <1>7, <1>9, <1>10, <1>11, AskingSwaps
<1>13. OneOf(asks', ChangesUnderWay) /\ OneOf(asks', OfEditor')
  <2>1. /\ Without(i) \in Seq(DetailRequests) /\ OneOf(Without(i), ChangesUnderWay)
        /\ NoneIn(Without(i), OfEditor)
    BY <1>1, <1>3, DropTells
  <2> QED BY <1>7, <1>8, <1>10, <1>11, <2>1, AddTells
<1>14. EditorOK'
  BY <1>1, <1>2, <1>4, <1>5 DEF EditorOK, EditorTells, EditsKept
<1>15. DetailTypes'
  BY <1>1, <1>2, <1>5, <1>12 DEF DetailTypes
<1> QED BY <1>7, <1>12, <1>13, <1>14, <1>15, DetailTogether

----------------------------------------------------------------------------
\* The panel stands still.
LEMMA DetailIdle == ASSUME DetailInv, UNCHANGED detailVars PROVE DetailInv'
<1>1. DetailTypes /\ DetailAsksOK /\ (\A l \in AllLoads : ViewOK(l)) /\ EditorOK
  BY DEF DetailInv
<1>2. UNCHANGED <<kindOf, version, view, asks, ed, acting, due, mishaps>>
  BY DEF detailVars
<1>3. DetailTypes'
  BY <1>1, <1>2 DEF DetailTypes
<1>4. \A l \in AllLoads : ViewOK(l)'
  BY <1>1, <1>2 DEF ViewOK
<1>5. EditorOK'
  BY <1>1, <1>2 DEF EditorOK, EditorTells, EditsKept
<1>6. \A r : DetailAskOK(r) => DetailAskOK(r)'
  <2>1. \A r : LoadOK(r) => LoadOK(r)'
    BY <1>2, Zenon DEF LoadOK
  <2>2. \A r : ManifestOK(r) => ManifestOK(r)'
    BY <1>2 DEF ManifestOK
  <2>3. \A r : SaveOK(r) => SaveOK(r)'
    BY <1>2 DEF SaveOK
  <2>4. \A r : RereadOK(r) => RereadOK(r)'
    BY <1>2 DEF RereadOK
  <2>5. \A r : r \in ChangesUnderWay' <=> r \in ChangesUnderWay
    BY <1>2 DEF ChangesUnderWay
  <2> QED BY <1>2, <2>1, <2>2, <2>3, <2>4, <2>5 DEF DetailAskOK
<1>7. /\ ChangesUnderWay' = ChangesUnderWay /\ OfEditor' = OfEditor
  BY <1>2, Zenon DEF ChangesUnderWay, OfEditor
<1>8. /\ OneOf(asks', ChangesUnderWay') /\ OneOf(asks', OfEditor')
  BY <1>1, <1>2, <1>7 DEF DetailAsksOK, OneOf
<1>9. DetailAsksOK'
  BY <1>1, <1>2, <1>6, <1>8 DEF DetailAsksOK
<1> QED BY <1>3, <1>4, <1>5, <1>9 DEF DetailInv

\* Every step keeps the invariant.
LEMMA DetailSteps == ASSUME DetailInv, [DetailNext]_detailVars PROVE DetailInv'
<1>1. CASE UNCHANGED detailVars
  BY <1>1, DetailIdle
<1>2. CASE ChangedByOthers
  BY <1>2, OthersKeepDetail
<1>3. CASE JobsTimer
  BY <1>3, JobsTimerKeeps
<1>4. CASE OpenYAML \/ CloseYAML \/ SaveYAML
  BY <1>4, OpenYAMLKeeps, CloseYAMLKeeps, SaveYAMLKeeps
<1>5. ASSUME NEW i \in DOMAIN asks, ClusterServes(i) PROVE DetailInv'
  BY <1>5, ServesKeepsDetail
<1>6. ASSUME NEW i \in DOMAIN asks, ManifestArrives(i) \/ Reread(i) PROVE DetailInv'
  BY <1>6, DetailManifestKeeps, RereadKeeps
<1>7. ASSUME NEW i \in DOMAIN asks, SaveAnswered(i) PROVE DetailInv'
  BY <1>7, OtherSaveKeeps, OwnSaveHeard, OwnSaveRereads
<1>8. ASSUME NEW i \in DOMAIN asks, NEW l \in AllLoads, ViewAnswered(l, i) PROVE DetailInv'
  BY <1>8, ViewAnsweredKeeps
<1>9. ASSUME NEW i \in DOMAIN asks, NEW a \in AllActs, ActedOn(a, i) PROVE DetailInv'
  BY <1>9, ActedOnKeeps
<1>10. ASSUME NEW l \in AllLoads, LoadView(l) PROVE DetailInv'
  BY <1>10, LoadViewKeeps
<1>11. ASSUME NEW a \in AllActs, ActOn(a) PROVE DetailInv'
  BY <1>11, ActOnKeeps
<1> QED BY <1>1, <1>2, <1>3, <1>4, <1>5, <1>6, <1>7, <1>8, <1>9, <1>10, <1>11 DEF DetailNext

\* For any number of requests, changes by others and orders of answers: a view shows what it
\* was asked to show, the editor a manifest that is not older than it is and the errors of its
\* own saves, and one change is under way at a time.
THEOREM DetailsHold == DetailSpec => []DetailsTrue
<1>1. DetailInv /\ [DetailNext]_detailVars => DetailInv'
  BY DetailSteps
<1> QED BY <1>1, DetailStarts, DetailInvTells, PTL DEF DetailSpec

(***************************************************************************)
(* CustomResources: the list, the detail, the editor and the definition    *)
(***************************************************************************)

\* What is read and saved is the text of an object as it was applied so often.
CustomTexts == [of: Customs, rev: Nat]
ItemStates ==
  [n: Nat, of: Spots \cup {NoCustom}, count: Nat, loading: BOOLEAN, error: BOOLEAN]
ListAsks == [n: Nat, of: Spots, dead: BOOLEAN, saved: BOOLEAN]
Details ==
  [mount: Nat, tab: {"metadata", "spec", "yaml"}, fetched: BOOLEAN,
   text: CustomTexts \cup {NoCustom}, loading: BOOLEAN, error: BOOLEAN]
ManifestReads == [n: Nat, mount: Nat, of: Customs]
Editors ==
  [mount: Nat, text: CustomTexts \cup {NoCustom}, edited: BOOLEAN, seen: BOOLEAN, diff: BOOLEAN,
   confirm: BOOLEAN, saving: BOOLEAN, said: {"nothing", "applied", "failed"}]
Applies == [n: Nat, mount: Nat, editor: Nat, text: CustomTexts, spot: Spots, latest: BOOLEAN]
DefinitionStates == [id: Nat, state: {"none", "loading", "shown", "error"}, wanted: BOOLEAN]
DefinitionAsks == [id: Nat, what: {"get", "apply"}]

CustomTypes ==
  /\ hostOf \in Panels /\ spot \in Spots /\ customObject \in Customs \cup {NoCustom}
  /\ items \in ItemStates /\ lists \subseteq ListAsks /\ lastList \in Nat
  /\ manifest \in Details /\ manifests \subseteq ManifestReads /\ IsFiniteSet(manifests)
  /\ viewer \in Editors /\ saves \subseteq Applies /\ IsFiniteSet(saves)
  /\ revision \in [Customs -> Nat] /\ readCount \in Nat /\ saveCount \in Nat
  /\ definition \in DefinitionStates /\ definitionAsks \subseteq DefinitionAsks

\* Nothing was left while a list or a save of it was under way; no other object was picked
\* while one was read or saved, or was read of another of its name.
Stayed == {"leftDuringList", "leftDuringSave"} \cap customOdd = {}
Picked == {"pickedDuringRead", "pickedDuringSave", "sameName"} \cap customOdd = {}

\* Lists under way that the panel takes are of what it shows; what is saved was of it.
ListsOK ==
  /\ Stayed => \A k \in lists : TakenList(k) => k.of = spot
  /\ Stayed /\ hostOf = "section" => \A k \in lists : k.of.kind = spot.kind
  /\ "leftDuringSave" \notin customOdd =>
       /\ \A k \in saves : k.spot = spot
       /\ \A k \in lists : k.saved => k.of = spot
  /\ ListEnds

\* The rows, and the object picked from them, are of what is shown.
RowsOK ==
  Stayed =>
    /\ Listable => items.of = spot /\ items.count = Cardinality(ItemsOf(spot))
    /\ customObject # NoCustom => customObject \in ItemsOf(spot)

\* The manifest, what is read for it and what is saved of it are of the context, and of the
\* object selected.
TextsOK ==
  /\ Stayed =>
       /\ manifest.text # NoCustom => manifest.text.of.ctx = spot.ctx
       /\ \A k \in manifests : k.mount = manifest.mount => k.of.ctx = spot.ctx
       /\ \A k \in saves : k.mount = manifest.mount => k.text.of.ctx = spot.ctx
  /\ Picked =>
       /\ manifest.text # NoCustom => manifest.text.of = customObject
       /\ \A k \in manifests : k.mount = manifest.mount => k.of = customObject
       /\ \A k \in saves : k.mount = manifest.mount => k.text.of = customObject

\* Without an object nothing is read or saved for the detail, and nothing was.
NothingPicked ==
  customObject = NoCustom =>
    /\ manifest.text = NoCustom /\ ~manifest.fetched
    /\ \A k \in manifests \cup saves : k.mount # manifest.mount

\* The editor is on the manifest, and waits for one save at most, the latest of the detail.
ViewerTrue ==
  /\ viewer.text # NoCustom => viewer.text = manifest.text /\ EditorOn(manifest)
  /\ viewer.edited => viewer.seen
  /\ viewer.said = "applied" => manifest.error
  /\ \A k \in saves : k.editor = viewer.mount =>
       k.mount = manifest.mount /\ k.latest /\ viewer.saving /\ viewer.text # NoCustom
  /\ \A k \in saves, m \in saves : k.editor = viewer.mount /\ m.editor = viewer.mount => k = m

\* A definition that is read or shown is wanted, and only what is read is answered.
DefinitionOK ==
  /\ DefinitionTrue
  /\ \A k \in definitionAsks : k.id <= definition.id
  /\ \A k \in definitionAsks :
       k.id = definition.id => definition.state = IF k.what = "get" THEN "loading" ELSE "shown"

CustomInv ==
  /\ CustomTypes /\ ListsOK /\ RowsOK /\ TextsOK /\ NothingPicked /\ ViewerTrue
  /\ AppliedAsMeant /\ DefinitionOK

\* What the invariant says of the panels.
LEMMA CustomInvTells == CustomInv => CustomTrue
<1> SUFFICES ASSUME CustomInv PROVE CustomTrue
  OBVIOUS
<1>1. /\ CustomTypes /\ ListsOK /\ RowsOK /\ TextsOK /\ ViewerTrue /\ AppliedAsMeant
      /\ DefinitionOK
  BY DEF CustomInv
<1>2. CustomTypeOK
  <2>1. items \in ItemStates /\ manifest \in Details /\ viewer \in Editors
        /\ definition \in DefinitionStates
    BY <1>1 DEF CustomTypes
  <2>2. items.of \in Spots \cup {NoCustom} /\ items.loading \in BOOLEAN /\ items.error \in BOOLEAN
    BY <2>1 DEF ItemStates
  <2>3. /\ manifest.tab \in {"metadata", "spec", "yaml"}
        /\ viewer.said \in {"nothing", "applied", "failed"}
        /\ definition.state \in {"none", "loading", "shown", "error"}
    BY <2>1 DEF Details, Editors, DefinitionStates
  <2> QED BY <1>1, <2>2, <2>3 DEF CustomTypeOK, CustomTypes
<1>3. RowsOfSpot
  BY <1>1 DEF RowsOK, RowsOfSpot, Stayed
<1>4. ListEnds
  BY <1>1 DEF ListsOK
<1>5. ManifestOfObject
  BY <1>1 DEF TextsOK, ViewerTrue, ManifestOfObject, Picked
<1>6. SaidTrue
  BY <1>1 DEF ViewerTrue, SaidTrue
<1> QED BY <1>1, <1>2, <1>3, <1>4, <1>5, <1>6 DEF CustomTrue, DefinitionOK

\* The panel opens with a load of its list.
LEMMA CustomStarts == CustomInit => CustomInv
<1> SUFFICES ASSUME CustomInit PROVE CustomInv
  OBVIOUS
<1> DEFINE first == NewList(1, FirstSpot)
<1>1. /\ first \in ListAsks /\ first.of = FirstSpot /\ first.dead = FALSE /\ first.saved = FALSE
      /\ FirstSpot \in Spots
  BY CustomAssumption DEF NewList, ListAsks
<1> HIDE DEF first
<1>2. /\ hostOf \in Panels /\ spot = FirstSpot /\ lists = {first} /\ lastList = 1
      /\ customObject = NoCustom /\ manifests = {} /\ saves = {} /\ definitionAsks = {}
      /\ applied = {} /\ customOdd = {} /\ saveCount = 0 /\ readCount = 0
  BY DEF CustomInit, first
<1>3. /\ items \in ItemStates /\ items.of = NoCustom /\ items.loading = TRUE
  BY DEF CustomInit, ItemStates
<1>4. /\ manifest \in Details /\ manifest.text = NoCustom /\ manifest.fetched = FALSE
  BY DEF CustomInit, Details, NewDetail
<1>5. /\ viewer \in Editors /\ viewer.text = NoCustom /\ viewer.said = "nothing"
      /\ viewer.edited = FALSE
  BY DEF CustomInit, Editors, NoEditor
<1>6. definition \in DefinitionStates /\ definition.state = "none" /\ definition.wanted = FALSE
  BY DEF CustomInit, DefinitionStates
<1>7. revision \in [Customs -> Nat]
  BY DEF CustomInit
<1>8. IsFiniteSet(manifests) /\ IsFiniteSet(saves)
  BY <1>2, FS_EmptySet
<1>9. CustomTypes
  BY <1>1, <1>2, <1>3, <1>4, <1>5, <1>6, <1>7, <1>8 DEF CustomTypes
<1>10. ListsOK
  BY <1>1, <1>2, <1>3 DEF ListsOK, ListEnds, TakenList
<1>11. RowsOK /\ TextsOK /\ NothingPicked
  BY <1>2, <1>3, <1>4 DEF RowsOK, TextsOK, NothingPicked, Listable
<1>12. ViewerTrue /\ AppliedAsMeant
  BY <1>2, <1>5 DEF ViewerTrue, AppliedAsMeant
<1>13. DefinitionOK
  BY <1>2, <1>6 DEF DefinitionOK, DefinitionTrue
<1> QED BY <1>9, <1>10, <1>11, <1>12, <1>13 DEF CustomInv

----------------------------------------------------------------------------
\* The facts of the invariant that steps start from.
LEMMA CustomFacts ==
  ASSUME CustomInv
  PROVE  /\ CustomTypes /\ ListsOK /\ RowsOK /\ TextsOK /\ NothingPicked /\ ViewerTrue
         /\ AppliedAsMeant /\ DefinitionOK
         /\ items \in ItemStates /\ manifest \in Details /\ viewer \in Editors
         /\ IsFiniteSet(manifests) /\ IsFiniteSet(saves)
BY DEF CustomInv, CustomTypes

\* Among one more number than there are elements, two are given the same.
LEMMA SameGiven ==
  ASSUME NEW T, IsFiniteSet(T), NEW N \in Nat, Cardinality(T) <= N, NEW f \in [1..(1 + N) -> T]
  PROVE  \E x \in 1..(1 + N), y \in 1..(1 + N) : x # y /\ f[x] = f[y]
<1>1. IsFiniteSet(1..(1 + N)) /\ Cardinality(1..(1 + N)) = 1 + N
  BY FS_Interval
<1>2. Cardinality(T) \in Nat
  BY FS_CardinalityType
<1>3. Cardinality(T) < Cardinality(1..(1 + N))
  BY <1>1, <1>2
<1> QED BY <1>1, <1>3, FS_PigeonHole

\* A new detail is none that a request under way is of.
LEMMA FreshMountTells ==
  ASSUME IsFiniteSet(manifests), IsFiniteSet(saves)
  PROVE  FreshMount \in Nat /\ \A k \in manifests \cup saves : k.mount # FreshMount
<1> DEFINE T == manifests \cup saves
           N == Cardinality(manifests) + Cardinality(saves)
           free(m) == \A k \in T : k.mount # m
<1>1. N \in Nat /\ IsFiniteSet(T) /\ Cardinality(T) <= N
  <2>1. Cardinality(manifests) \in Nat /\ Cardinality(saves) \in Nat
    BY FS_CardinalityType
  <2>2. /\ IsFiniteSet(T)
        /\ Cardinality(T) = Cardinality(manifests) + Cardinality(saves)
                              - Cardinality(manifests \cap saves)
    BY FS_Union
  <2>3. Cardinality(manifests \cap saves) \in Nat
    BY FS_Intersection, FS_CardinalityType
  <2> QED BY <2>1, <2>2, <2>3
<1>2. \E m \in 1..(1 + N) : free(m)
  <2> SUFFICES ASSUME \A m \in 1..(1 + N) : \E k \in T : k.mount = m
               PROVE  FALSE
    OBVIOUS
  <2> DEFINE f == [m \in 1..(1 + N) |-> CHOOSE k \in T : k.mount = m]
  <2>1. f \in [1..(1 + N) -> T] /\ \A m \in 1..(1 + N) : f[m].mount = m
    OBVIOUS
  <2> HIDE DEF f
  <2> HIDE DEF T, N
  <2>2. \E x \in 1..(1 + N), y \in 1..(1 + N) : x # y /\ f[x] = f[y]
    BY <1>1, <2>1, SameGiven
  <2> QED BY <2>1, <2>2
<1>3. FreshMount = CHOOSE m \in 1..(1 + N) : free(m)
  <2>1. 1 + N = 1 + Cardinality(manifests) + Cardinality(saves)
    <3>1. Cardinality(manifests) \in Nat /\ Cardinality(saves) \in Nat
      BY FS_CardinalityType
    <3> QED BY <3>1
  <2> QED BY <2>1, Zenon DEF FreshMount
<1> HIDE DEF T, N, free
<1>4. FreshMount \in 1..(1 + N) /\ free(FreshMount)
  BY <1>2, <1>3
<1> QED BY <1>1, <1>4 DEF T, free

\* A new editor is none that a save under way is of.
LEMMA FreshEditorTells ==
  ASSUME IsFiniteSet(saves)
  PROVE  FreshEditor \in Nat /\ \A k \in saves : k.editor # FreshEditor
<1> DEFINE N == Cardinality(saves)
           free(m) == \A k \in saves : k.editor # m
<1>1. N \in Nat
  BY FS_CardinalityType
<1>2. \E m \in 1..(1 + N) : free(m)
  <2> SUFFICES ASSUME \A m \in 1..(1 + N) : \E k \in saves : k.editor = m
               PROVE  FALSE
    OBVIOUS
  <2> DEFINE f == [m \in 1..(1 + N) |-> CHOOSE k \in saves : k.editor = m]
  <2>1. f \in [1..(1 + N) -> saves] /\ \A m \in 1..(1 + N) : f[m].editor = m
    OBVIOUS
  <2> HIDE DEF f
  <2>2. N = Cardinality(saves) /\ Cardinality(saves) <= N
    BY <1>1
  <2> HIDE DEF N
  <2>3. \E x \in 1..(1 + N), y \in 1..(1 + N) : x # y /\ f[x] = f[y]
    BY <1>1, <2>1, <2>2, SameGiven
  <2> QED BY <2>1, <2>3
<1>3. FreshEditor = CHOOSE m \in 1..(1 + N) : free(m)
  BY Zenon DEF FreshEditor
<1> HIDE DEF N, free
<1>4. FreshEditor \in 1..(1 + N) /\ free(FreshEditor)
  BY <1>2, <1>3
<1> QED BY <1>1, <1>4 DEF free

----------------------------------------------------------------------------
\* A detail, an editor and a list that are new.
LEMMA NewTells ==
  /\ \A m \in Nat : /\ NewDetail(m) \in Details /\ NewDetail(m).mount = m
                    /\ NewDetail(m).text = NoCustom /\ NewDetail(m).fetched = FALSE
  /\ \A m \in Nat : /\ NoEditor(m) \in Editors /\ NoEditor(m).mount = m
                    /\ NoEditor(m).text = NoCustom /\ NoEditor(m).said = "nothing"
                    /\ NoEditor(m).edited = FALSE
  /\ \A n \in Nat, s \in Spots : /\ NewList(n, s) \in ListAsks /\ NewList(n, s).of = s
                                 /\ NewList(n, s).dead = FALSE /\ NewList(n, s).saved = FALSE
<1>1. ASSUME NEW m \in Nat
      PROVE  /\ NewDetail(m) \in Details /\ NewDetail(m).mount = m
             /\ NewDetail(m).text = NoCustom /\ NewDetail(m).fetched = FALSE
  BY DEF NewDetail, Details
<1>2. ASSUME NEW m \in Nat
      PROVE  /\ NoEditor(m) \in Editors /\ NoEditor(m).mount = m
             /\ NoEditor(m).text = NoCustom /\ NoEditor(m).said = "nothing"
             /\ NoEditor(m).edited = FALSE
  BY DEF NoEditor, Editors
<1>3. ASSUME NEW n \in Nat, NEW s \in Spots
      PROVE  /\ NewList(n, s) \in ListAsks /\ NewList(n, s).of = s
             /\ NewList(n, s).dead = FALSE /\ NewList(n, s).saved = FALSE
  BY DEF NewList, ListAsks
<1> QED BY <1>1, <1>2, <1>3

\* What is kept while what it is about stays: the lists,
LEMMA ListsStay ==
  ASSUME ListsOK, UNCHANGED <<hostOf, spot, items, lists>>, customOdd \subseteq customOdd',
         saves' \subseteq saves
  PROVE  ListsOK'
<1>1. Stayed' => Stayed
  BY DEF Stayed
<1>2. "leftDuringSave" \notin customOdd' => "leftDuringSave" \notin customOdd
  OBVIOUS
<1>3. \A k : TakenList(k)' <=> TakenList(k)
  BY DEF TakenList
<1> QED BY <1>1, <1>2, <1>3 DEF ListsOK, ListEnds

\* the rows,
LEMMA RowsStay ==
  ASSUME RowsOK, UNCHANGED <<spot, items, customObject>>, customOdd \subseteq customOdd'
  PROVE  RowsOK'
<1>1. Stayed' => Stayed
  BY DEF Stayed
<1> QED BY <1>1 DEF RowsOK, Listable

\* the texts,
LEMMA TextsStay ==
  ASSUME TextsOK, UNCHANGED <<spot, customObject>>, customOdd \subseteq customOdd',
         manifest'.mount = manifest.mount, manifest'.text \in {manifest.text, NoCustom},
         manifests' \subseteq manifests, saves' \subseteq saves
  PROVE  TextsOK'
<1>1. (Stayed' => Stayed) /\ (Picked' => Picked)
  BY DEF Stayed, Picked
<1> QED BY <1>1 DEF TextsOK

\* that nothing is picked,
LEMMA PickStays ==
  ASSUME NothingPicked, customObject' = customObject, manifest'.mount = manifest.mount,
         manifest'.text \in {manifest.text, NoCustom}, manifest'.fetched => manifest.fetched,
         manifests' \subseteq manifests, saves' \subseteq saves
  PROVE  NothingPicked'
BY DEF NothingPicked

\* what was applied,
LEMMA AppliedStays ==
  ASSUME AppliedAsMeant, applied' = applied, customOdd \subseteq customOdd'
  PROVE  AppliedAsMeant'
BY DEF AppliedAsMeant

\* the definition,
LEMMA DefinitionStays ==
  ASSUME DefinitionOK, UNCHANGED <<definition, definitionAsks>>
  PROVE  DefinitionOK'
BY DEF DefinitionOK, DefinitionTrue

\* and the editor.
LEMMA EditorKept ==
  ASSUME ViewerTrue, UNCHANGED <<viewer, manifest>>, saves' \subseteq saves
  PROVE  ViewerTrue'
BY DEF ViewerTrue, EditorOn

\* The editor that is shown with a manifest.
LEMMA EditorForTells ==
  ASSUME CustomInv, NEW m \in Details, NEW e, e = EditorFor(m)
  PROVE  /\ e \in Editors
         /\ e.text # NoCustom => e.text = m.text /\ EditorOn(m)
         /\ e.edited => e.seen
         /\ e.said = "applied" => viewer.said = "applied" /\ EditorOn(m)
         /\ \A k \in saves : k.editor = e.mount =>
              k.editor = viewer.mount /\ e.saving = viewer.saving /\ e.text # NoCustom
<1>1. ViewerTrue /\ viewer \in Editors /\ IsFiniteSet(saves)
  BY CustomFacts
<1>2. m.text \in CustomTexts \cup {NoCustom}
  BY DEF Details
<1>3. CASE ~EditorOn(m)
  <2> DEFINE n == IF EditorOn(manifest) THEN FreshEditor ELSE viewer.mount
  <2>1. e = NoEditor(n)
    BY <1>3 DEF EditorFor
  <2>2. n \in Nat
    BY <1>1, FreshEditorTells DEF Editors
  <2>3. \A k \in saves : k.editor # n
    BY <1>1, FreshEditorTells DEF ViewerTrue
  <2> HIDE DEF n
  <2> QED BY <2>1, <2>2, <2>3, NewTells
<1>4. CASE EditorOn(m) /\ viewer.text = NoCustom
  <2>1. m.text # NoCustom
    BY <1>4 DEF EditorOn
  <2>2. e = [viewer EXCEPT !.text = m.text]
    BY <1>4, <2>1 DEF EditorFor
  <2>3. /\ e \in Editors /\ e.text = m.text /\ e.edited = viewer.edited /\ e.seen = viewer.seen
        /\ e.said = viewer.said /\ e.mount = viewer.mount
    BY <1>1, <1>2, <2>2 DEF Editors
  <2> QED BY <1>1, <1>4, <2>1, <2>3 DEF ViewerTrue
<1>5. CASE EditorOn(m) /\ viewer.text # NoCustom /\ viewer.text = m.text
  <2>1. e = viewer
    BY <1>5 DEF EditorFor
  <2> QED BY <1>1, <1>5, <2>1 DEF ViewerTrue
<1>6. CASE EditorOn(m) /\ viewer.text # NoCustom /\ viewer.text # m.text
  <2>1. e = [viewer EXCEPT !.text = m.text, !.edited = FALSE, !.seen = FALSE]
    BY <1>6 DEF EditorFor
  <2>2. /\ e \in Editors /\ e.text = m.text /\ e.edited = FALSE
        /\ e.said = viewer.said /\ e.mount = viewer.mount /\ e.saving = viewer.saving
    BY <1>1, <1>2, <2>1 DEF Editors
  <2>3. m.text # NoCustom
    BY <1>6 DEF EditorOn
  <2> QED BY <1>6, <2>2, <2>3
<1> QED BY <1>3, <1>4, <1>5, <1>6

\* The detail shows a manifest, and its editor goes with it.
LEMMA ShowKeeps ==
  ASSUME CustomInv, NEW m \in Details, Show(m), m.mount = manifest.mount, saves' \subseteq saves,
         EditorOn(m) /\ manifest.error => m.error
  PROVE  /\ ViewerTrue' /\ manifest' \in Details /\ viewer' \in Editors
         /\ manifest' = m
<1> DEFINE e == EditorFor(m)
<1>1. ViewerTrue
  BY CustomFacts
<1>2. manifest' = m /\ viewer' = e
  BY DEF Show
<1>3. /\ e \in Editors
      /\ e.text # NoCustom => e.text = m.text /\ EditorOn(m)
      /\ e.edited => e.seen
      /\ e.said = "applied" => viewer.said = "applied" /\ EditorOn(m)
      /\ \A k \in saves : k.editor = e.mount =>
           k.editor = viewer.mount /\ e.saving = viewer.saving /\ e.text # NoCustom
  BY EditorForTells
<1> HIDE DEF e
<1>4. EditorOn(manifest)' <=> EditorOn(m)
  BY <1>2 DEF EditorOn
<1> QED BY <1>1, <1>2, <1>3, <1>4 DEF ViewerTrue

----------------------------------------------------------------------------
\* The rows of a spot can be counted, and are of its context.
LEMMA ItemsTell ==
  ASSUME NEW s \in Spots
  PROVE  /\ ItemsOf(s) \subseteq Customs /\ Cardinality(ItemsOf(s)) \in Nat
         /\ \A o \in ItemsOf(s) : o.ctx = s.ctx
<1>1. ItemsOf(s) \subseteq Customs /\ \A o \in ItemsOf(s) : o.ctx = s.ctx
  BY DEF ItemsOf
<1>2. IsFiniteSet(ItemsOf(s))
  BY <1>1, CustomAssumption, FS_Subset
<1> QED BY <1>1, <1>2, FS_CardinalityType

\* A list that is loaded is of what is shown when the panel takes it.
LEMMA ListArrivesKeeps ==
  ASSUME CustomInv, ListArrives
  PROVE  CustomInv'
<1>1. /\ CustomTypes /\ ListsOK /\ RowsOK /\ TextsOK /\ NothingPicked /\ ViewerTrue
      /\ AppliedAsMeant /\ DefinitionOK /\ items \in ItemStates /\ lists \subseteq ListAsks
  BY CustomFacts DEF CustomTypes
<1>2. /\ UNCHANGED <<hostOf, spot, lastList, customObject, pickedFrom, manifest, manifests,
                     readCount, viewer, saves, saveCount, applied, revision, definition,
                     definitionAsks, customOdd>>
  BY DEF ListArrives, objectVars, manifestVars, editorVars, definitionVars
<1>3. PICK k \in lists, ok \in BOOLEAN :
        /\ lists' = lists \ {k}
        /\ items' = CASE TakenList(k) /\ ok ->
                           [n |-> k.n, of |-> k.of, count |-> Cardinality(ItemsOf(k.of)),
                            loading |-> FALSE, error |-> items.error]
                      [] TakenList(k) /\ ~ok -> [items EXCEPT !.loading = FALSE, !.error = TRUE]
                      [] ~TakenList(k) -> items
  BY DEF ListArrives
<1>4. k.of \in Spots /\ k.n \in Nat
  BY <1>1 DEF ListAsks
<1>5. /\ items' \in ItemStates
      /\ \/ ~TakenList(k) /\ items' = items
         \/ TakenList(k) /\ items'.loading = FALSE /\ items'.error = TRUE
         \/ /\ TakenList(k) /\ items'.loading = FALSE /\ items'.of = k.of
            /\ items'.count = Cardinality(ItemsOf(k.of))
  <2>1. CASE TakenList(k) /\ ok
    <3>1. items' = [n |-> k.n, of |-> k.of, count |-> Cardinality(ItemsOf(k.of)),
                    loading |-> FALSE, error |-> items.error]
      BY <1>3, <2>1
    <3>2. Cardinality(ItemsOf(k.of)) \in Nat
      BY <1>4, ItemsTell
    <3> DEFINE c == Cardinality(ItemsOf(k.of))
    <3> HIDE DEF c
    <3>3. items' = [n |-> k.n, of |-> k.of, count |-> c, loading |-> FALSE, error |-> items.error]
          /\ c \in Nat
      BY <3>1, <3>2 DEF c
    <3>4. items' \in ItemStates /\ items'.loading = FALSE /\ items'.of = k.of /\ items'.count = c
      BY <1>1, <1>4, <3>3 DEF ItemStates
    <3> QED BY <2>1, <3>4 DEF c
  <2>2. CASE TakenList(k) /\ ~ok
    <3>1. items' = [items EXCEPT !.loading = FALSE, !.error = TRUE]
      BY <1>3, <2>2
    <3> QED BY <1>1, <2>2, <3>1 DEF ItemStates
  <2>3. CASE ~TakenList(k)
    <3>1. items' = items
      BY <1>3, <2>3
    <3> QED BY <1>1, <2>3, <3>1
  <2> QED BY <2>1, <2>2, <2>3
<1>6. CustomTypes'
  BY <1>1, <1>2, <1>3, <1>5 DEF CustomTypes
<1>7. RowsOK'
  <2>1. Stayed /\ TakenList(k) => k.of = spot
    BY <1>1 DEF ListsOK
  <2>2. Stayed' <=> Stayed
    BY <1>2 DEF Stayed
  <2>3. \A s : ItemsOf(s)' = ItemsOf(s)
    BY DEF ItemsOf
  <2> QED BY <1>1, <1>2, <1>5, <2>1, <2>2, <2>3 DEF RowsOK, Listable
<1>8. ListsOK'
  <2>1. Stayed' <=> Stayed
    BY <1>2 DEF Stayed
  <2>2. \A l : TakenList(l)' <=> TakenList(l)
    BY <1>2 DEF TakenList
  <2>3. ListEnds'
    BY <1>1, <1>2, <1>3, <1>5, <2>2 DEF ListsOK, ListEnds, ItemStates
  <2> QED BY <1>1, <1>2, <1>3, <2>1, <2>2, <2>3 DEF ListsOK
<1>9. TextsOK' /\ NothingPicked' /\ ViewerTrue' /\ AppliedAsMeant' /\ DefinitionOK'
  BY <1>1, <1>2, TextsStay, PickStays, EditorKept, AppliedStays, DefinitionStays
<1> QED BY <1>6, <1>7, <1>8, <1>9 DEF CustomInv

\* A list is asked for: it loads, and the panel takes its answer.
LEMMA AskListTells ==
  ASSUME CustomTypes, AskList
  PROVE  /\ items' \in ItemStates /\ items'.loading = TRUE /\ lastList' = lastList + 1
         /\ lastList' \in Nat
<1>1. items \in ItemStates /\ lastList \in Nat
  BY DEF CustomTypes
<1>2. items' = [items EXCEPT !.loading = TRUE, !.error = FALSE] /\ lastList' = lastList + 1
  BY DEF AskList
<1>3. items' \in ItemStates /\ items'.loading = TRUE
  BY <1>1, <1>2 DEF ItemStates
<1> QED BY <1>1, <1>2, <1>3

\* The list is refreshed.
LEMMA RefreshListKeeps ==
  ASSUME CustomInv, RefreshList
  PROVE  CustomInv'
<1> DEFINE l == NewList(lastList', spot)
<1>1. /\ CustomTypes /\ ListsOK /\ RowsOK /\ TextsOK /\ NothingPicked /\ ViewerTrue
      /\ AppliedAsMeant /\ DefinitionOK /\ spot \in Spots /\ readCount \in Nat
  BY CustomFacts DEF CustomTypes
<1>2. /\ UNCHANGED <<hostOf, spot, customObject, pickedFrom, manifest, manifests,
                     viewer, saves, saveCount, applied, revision, definition,
                     definitionAsks, customOdd>>
      /\ lists' = lists \cup {l} /\ readCount' = readCount + 1 /\ AskList /\ hostOf = "section"
  BY DEF RefreshList, objectVars, editorVars, definitionVars
<1>3. items' \in ItemStates /\ items'.loading = TRUE /\ lastList' \in Nat
  BY <1>1, <1>2, AskListTells
<1>4. l \in ListAsks /\ l.of = spot /\ l.dead = FALSE /\ l.saved = FALSE
  BY <1>1, <1>3, NewTells
<1> HIDE DEF l
<1>5. CustomTypes'
  BY <1>1, <1>2, <1>3, <1>4 DEF CustomTypes
<1>6. RowsOK'
  <2>1. Stayed' <=> Stayed
    BY <1>2 DEF Stayed
  <2> QED BY <1>1, <1>2, <1>3, <2>1 DEF RowsOK, Listable
<1>7. ListsOK'
  <2>1. Stayed' <=> Stayed
    BY <1>2 DEF Stayed
  <2>2. \A k : TakenList(k)' <=> TakenList(k)
    BY <1>2 DEF TakenList
  <2>3. TakenList(l)
    BY <1>2, <1>4 DEF TakenList
  <2>4. ListEnds'
    BY <1>2, <2>2, <2>3 DEF ListEnds
  <2> QED BY <1>1, <1>2, <1>4, <2>1, <2>2, <2>4 DEF ListsOK
<1>8. TextsOK' /\ NothingPicked' /\ ViewerTrue' /\ AppliedAsMeant' /\ DefinitionOK'
  BY <1>1, <1>2, TextsStay, PickStays, EditorKept, AppliedStays, DefinitionStays
<1> QED BY <1>5, <1>6, <1>7, <1>8 DEF CustomInv

\* A detail that is new has nothing of another; its editor waits for nothing.
LEMMA NewDetailKeeps ==
  ASSUME CustomInv, customObject' = NoCustom, manifest' = NewDetail(FreshMount),
         viewer' = NoEditor(FreshEditor), UNCHANGED <<manifests, saves>>
  PROVE  /\ manifest' \in Details /\ viewer' \in Editors
         /\ TextsOK' /\ NothingPicked' /\ ViewerTrue'
<1>1. IsFiniteSet(manifests) /\ IsFiniteSet(saves)
  BY CustomFacts
<1>2. /\ FreshMount \in Nat /\ \A k \in manifests \cup saves : k.mount # FreshMount
      /\ FreshEditor \in Nat /\ \A k \in saves : k.editor # FreshEditor
  BY <1>1, FreshMountTells, FreshEditorTells
<1>3. /\ manifest' \in Details /\ manifest'.mount = FreshMount /\ manifest'.text = NoCustom
      /\ manifest'.fetched = FALSE
  BY <1>2, NewTells
<1>4. /\ viewer' \in Editors /\ viewer'.mount = FreshEditor /\ viewer'.text = NoCustom
      /\ viewer'.said = "nothing" /\ viewer'.edited = FALSE
  BY <1>2, NewTells
<1>5. TextsOK'
  BY <1>2, <1>3 DEF TextsOK
<1>6. NothingPicked'
  BY <1>2, <1>3 DEF NothingPicked
<1>7. ViewerTrue'
  BY <1>2, <1>4 DEF ViewerTrue
<1> QED BY <1>3, <1>4, <1>5, <1>6, <1>7

\* Another kind, context or namespace is chosen: the list is loaded anew and the detail
\* closes; a list that is under way is cancelled by the panel of a definition.
LEMMA ChooseSpotKeeps ==
  ASSUME CustomInv, NEW s \in Spots, ChooseSpot(s)
  PROVE  CustomInv'
<1> DEFINE l == NewList(lastList', s)
           old == {IF k.saved THEN k ELSE [k EXCEPT !.dead = TRUE] : k \in lists}
<1>1. /\ CustomTypes /\ ListsOK /\ RowsOK /\ TextsOK /\ NothingPicked /\ ViewerTrue
      /\ AppliedAsMeant /\ DefinitionOK /\ lists \subseteq ListAsks
  BY CustomFacts DEF CustomTypes
<1>2. /\ UNCHANGED <<hostOf, manifests, readCount, saves, saveCount, applied, revision,
                     definition, definitionAsks>>
      /\ lists' = old \cup {l} /\ AskList /\ spot' = s /\ customObject' = NoCustom
      /\ manifest' = NewDetail(FreshMount) /\ viewer' = NoEditor(FreshEditor)
      /\ customOdd \subseteq customOdd'
  BY DEF ChooseSpot, definitionVars, ObjectAfter
<1>3. /\ hostOf = "section" /\ s.kind # spot.kind /\ lists # {} => ~Stayed'
      /\ saves # {} => "leftDuringSave" \in customOdd'
      /\ (\E k \in lists : k.saved) => "leftDuringSave" \in customOdd'
  BY DEF ChooseSpot, Stayed
<1>4. items' \in ItemStates /\ items'.loading = TRUE /\ lastList' \in Nat
  BY <1>1, <1>2, AskListTells
<1>5. l \in ListAsks /\ l.of = s /\ l.dead = FALSE /\ l.saved = FALSE
  BY <1>4, NewTells
<1>6. \A k \in old : \E m \in lists : /\ k \in ListAsks /\ k.of = m.of /\ k.saved = m.saved
                                      /\ k.saved \/ k.dead
  <2> SUFFICES ASSUME NEW m \in lists, NEW k, k = IF m.saved THEN m ELSE [m EXCEPT !.dead = TRUE]
               PROVE  k \in ListAsks /\ k.of = m.of /\ k.saved = m.saved /\ (k.saved \/ k.dead)
    OBVIOUS
  <2> QED BY <1>1 DEF ListAsks
<1> HIDE DEF l, old
<1>7. /\ manifest' \in Details /\ viewer' \in Editors /\ TextsOK' /\ NothingPicked' /\ ViewerTrue'
  BY <1>2, NewDetailKeeps
<1>8. CustomTypes'
  BY <1>1, <1>2, <1>4, <1>5, <1>6, <1>7 DEF CustomTypes
<1>9. (Stayed' => Stayed) /\ (Stayed' => "leftDuringSave" \notin customOdd')
  BY <1>2 DEF Stayed
<1>10. RowsOK'
  BY <1>2, <1>4 DEF RowsOK, Listable
<1>11. "leftDuringSave" \notin customOdd' =>
         /\ saves = {} /\ \A k \in lists : ~k.saved
         /\ \A k \in lists' : ~k.saved
  BY <1>2, <1>3, <1>5, <1>6
<1>12. Stayed' /\ hostOf = "section" => \A k \in lists' : k.of.kind = s.kind
  <2> SUFFICES ASSUME Stayed', hostOf = "section", NEW k \in lists' PROVE k.of.kind = s.kind
    OBVIOUS
  <2>1. CASE k = l
    BY <1>5, <2>1
  <2>2. CASE k \in old
    <3>1. PICK m \in lists : k.of = m.of
      BY <1>6, <2>2
    <3>2. s.kind = spot.kind
      BY <1>3, <3>1
    <3> QED BY <1>1, <1>9, <3>1, <3>2 DEF ListsOK
  <2> QED BY <1>2, <2>1, <2>2
<1>13. \A k \in lists' : k \in ListAsks /\ k.of \in Spots
  BY <1>5, <1>6, <1>2 DEF ListAsks
<1>14. Stayed' => \A k \in lists' : TakenList(k)' => k.of = s
  <2> SUFFICES ASSUME Stayed', NEW k \in lists', TakenList(k)' PROVE k.of = s
    OBVIOUS
  <2>1. CASE hostOf = "section"
    <3>1. k.of.ctx = s.ctx /\ k.of.ns = s.ns
      BY <1>2, <2>1 DEF TakenList
    <3> QED BY <1>12, <1>13, <2>1, <3>1, CustomAssumption
  <2>2. CASE hostOf # "section"
    <3>1. ~k.dead /\ ~k.saved
      BY <1>2, <1>9, <1>11, <2>2 DEF TakenList
    <3> QED BY <1>2, <1>5, <1>6, <3>1
  <2> QED BY <2>1, <2>2
<1>15. ListEnds'
  <2>1. PICK k \in lists' : k.of = s /\ k.dead = FALSE
    BY <1>2, <1>5
  <2>2. TakenList(k)'
    BY <1>2, <2>1 DEF TakenList
  <2> QED BY <2>2 DEF ListEnds
<1>16. ListsOK'
  BY <1>2, <1>11, <1>12, <1>14, <1>15 DEF ListsOK
<1>17. AppliedAsMeant' /\ DefinitionOK'
  BY <1>1, <1>2, AppliedStays, DefinitionStays
<1> QED BY <1>7, <1>8, <1>10, <1>16, <1>17 DEF CustomInv

\* A row is picked: the detail closes, opens, or is of another object.
LEMMA PickObjectKeeps ==
  ASSUME CustomInv, NEW o \in Customs, PickObject(o)
  PROVE  CustomInv'
<1>1. /\ CustomTypes /\ ListsOK /\ RowsOK /\ TextsOK /\ NothingPicked /\ ViewerTrue
      /\ AppliedAsMeant /\ DefinitionOK /\ manifest \in Details
  BY CustomFacts
<1>2. /\ UNCHANGED <<hostOf, spot, items, lists, lastList, manifests, readCount, saves,
                     saveCount, applied, revision, definition, definitionAsks>>
      /\ Listable /\ o \in ItemsOf(items.of)
  BY DEF PickObject, listVarsOfSpot, definitionVars
<1>3. customOdd \subseteq customOdd'
  BY DEF PickObject
<1>4. ListsOK' /\ AppliedAsMeant' /\ DefinitionOK'
  BY <1>1, <1>2, <1>3, ListsStay, AppliedStays, DefinitionStays
<1>5. Stayed' => Stayed
  BY <1>3 DEF Stayed
<1>6. CASE Again(o)
  <2>1. /\ customObject' = NoCustom /\ manifest' = NewDetail(FreshMount)
        /\ viewer' = NoEditor(FreshEditor)
    BY <1>6 DEF PickObject
  <2>2. /\ manifest' \in Details /\ viewer' \in Editors
        /\ TextsOK' /\ NothingPicked' /\ ViewerTrue'
    BY <1>2, <2>1, NewDetailKeeps
  <2>3. CustomTypes'
    BY <1>1, <1>2, <2>1, <2>2 DEF CustomTypes
  <2>4. RowsOK'
    BY <1>1, <1>2, <1>5, <2>1 DEF RowsOK, Listable
  <2> QED BY <1>4, <2>2, <2>3, <2>4 DEF CustomInv
<1>7. CASE ~Again(o)
  <2>1. /\ customObject' = o
        /\ IF customObject = NoCustom THEN UNCHANGED <<manifest, viewer>> ELSE Show(OfObject(o))
    BY <1>7 DEF PickObject
  <2>2. /\ (\E k \in manifests : k.mount = manifest.mount) => "pickedDuringRead" \in customOdd'
        /\ (\E k \in saves : k.mount = manifest.mount) => "pickedDuringSave" \in customOdd'
        /\ customObject # NoCustom /\ o # customObject /\ o.name = customObject.name
             /\ manifest.text # NoCustom => "sameName" \in customOdd'
    BY <1>7 DEF PickObject
  <2>3. /\ manifest' \in Details /\ viewer' \in Editors /\ ViewerTrue'
        /\ manifest'.mount = manifest.mount
        /\ manifest'.text \in {manifest.text, NoCustom}
        /\ manifest'.text # NoCustom /\ customObject # NoCustom => o.name = customObject.name
    <3>1. CASE customObject = NoCustom
      <4>1. UNCHANGED <<manifest, viewer>>
        BY <2>1, <3>1
      <4> QED BY <1>1, <1>2, <3>1, <4>1, EditorKept, CustomFacts
    <3>2. CASE customObject # NoCustom
      <4> DEFINE m == OfObject(o)
      <4>1. Show(m)
        BY <2>1, <3>2
      <4>2. /\ m \in Details /\ m.mount = manifest.mount
            /\ m.text \in {manifest.text, NoCustom}
            /\ m.text # NoCustom => o.name = customObject.name
            /\ EditorOn(m) /\ manifest.error => m.error
        <5>1. CASE o.name = customObject.name
          BY <1>1, <5>1 DEF OfObject
        <5>2. CASE o.name # customObject.name
          <6>1. m = [manifest EXCEPT !.text = NoCustom, !.error = FALSE, !.loading = FALSE,
                                     !.fetched = FALSE]
            BY <5>2 DEF OfObject
          <6>2. m \in Details /\ m.mount = manifest.mount /\ m.text = NoCustom
            BY <1>1, <6>1 DEF Details
          <6> QED BY <6>2 DEF EditorOn
        <5> QED BY <5>1, <5>2
      <4> HIDE DEF m
      <4>3. manifest' = m /\ manifest' \in Details /\ viewer' \in Editors /\ ViewerTrue'
        BY <1>2, <4>1, <4>2, ShowKeeps
      <4> QED BY <4>2, <4>3
    <3> QED BY <3>1, <3>2
  <2>4. CustomTypes'
    BY <1>1, <1>2, <2>1, <2>3 DEF CustomTypes
  <2>5. RowsOK'
    BY <1>1, <1>2, <1>5, <2>1 DEF RowsOK, Listable
  <2>6. NothingPicked'
    BY <2>1, CustomAssumption DEF NothingPicked
  <2>7. TextsOK'
    <3>1. Stayed' =>
            /\ manifest'.text # NoCustom => manifest'.text.of.ctx = spot.ctx
            /\ \A k \in manifests : k.mount = manifest.mount => k.of.ctx = spot.ctx
            /\ \A k \in saves : k.mount = manifest.mount => k.text.of.ctx = spot.ctx
      BY <1>1, <1>5, <2>3 DEF TextsOK
    <3>2. Picked' => /\ \A k \in manifests \cup saves : k.mount # manifest.mount
                     /\ Picked /\ "sameName" \notin customOdd'
      BY <1>3, <2>2 DEF Picked
    <3>3. Picked' /\ manifest'.text # NoCustom => manifest'.text.of = o
      <4> SUFFICES ASSUME Picked', manifest'.text # NoCustom
                   PROVE  manifest'.text.of = o
        OBVIOUS
      <4>1. manifest.text # NoCustom /\ manifest'.text = manifest.text
        BY <2>3
      <4>2. customObject # NoCustom
        BY <1>1, <4>1 DEF NothingPicked
      <4>3. o = customObject
        BY <2>2, <2>3, <3>2, <4>1, <4>2
      <4> QED BY <1>1, <3>2, <4>1, <4>3 DEF TextsOK
    <3> QED BY <1>2, <2>1, <2>3, <3>1, <3>2, <3>3 DEF TextsOK
  <2> QED BY <1>4, <2>3, <2>4, <2>5, <2>6, <2>7 DEF CustomInv
<1> QED BY <1>6, <1>7

\* Another tab is chosen; the manifest is read once.
LEMMA ChooseManifestTabKeeps ==
  ASSUME CustomInv, NEW t \in {"metadata", "yaml"}, ChooseManifestTab(t)
  PROVE  CustomInv'
<1>1. /\ CustomTypes /\ ListsOK /\ RowsOK /\ TextsOK /\ NothingPicked /\ ViewerTrue
      /\ AppliedAsMeant /\ DefinitionOK /\ manifest \in Details /\ customObject # NoCustom
      /\ customObject \in Customs /\ readCount \in Nat
  BY CustomFacts DEF ChooseManifestTab, CustomTypes
<1>2. /\ UNCHANGED <<hostOf, spot, items, lists, lastList, customObject, pickedFrom, saves,
                     saveCount, applied, revision, definition, definitionAsks, customOdd>>
  BY DEF ChooseManifestTab, listVarsOfSpot, objectVars, definitionVars
<1>3. ListsOK' /\ RowsOK' /\ AppliedAsMeant' /\ DefinitionOK'
  BY <1>1, <1>2, ListsStay, RowsStay, AppliedStays, DefinitionStays
<1>4. NothingPicked'
  BY <1>1, <1>2 DEF NothingPicked
<1>5. (Stayed' <=> Stayed) /\ (Picked' <=> Picked)
  BY <1>2 DEF Stayed, Picked
<1>6. CASE t = "yaml" /\ ~manifest.fetched
  <2> DEFINE m == [manifest EXCEPT !.tab = t, !.fetched = TRUE, !.loading = TRUE, !.error = FALSE]
             n == readCount + 1
             k == [n |-> n, mount |-> manifest.mount, of |-> customObject]
  <2>1. n \in Nat
    BY <1>1
  <2> HIDE DEF n
  <2>2. Show(m) /\ manifests' = manifests \cup {k} /\ readCount' = n
    BY <1>6 DEF ChooseManifestTab, n
  <2>3. k \in ManifestReads /\ k.mount = manifest.mount /\ k.of = customObject
    BY <1>1, <2>1 DEF ManifestReads, Details
  <2>4. m \in Details /\ m.mount = manifest.mount /\ m.text = manifest.text /\ m.loading = TRUE
    BY <1>1 DEF Details
  <2> HIDE DEF m, k
  <2>5. ~EditorOn(m)
    BY <2>4 DEF EditorOn
  <2>6. ViewerTrue' /\ manifest' \in Details /\ viewer' \in Editors /\ manifest' = m
    BY <1>2, <2>2, <2>4, <2>5, ShowKeeps
  <2>7. IsFiniteSet(manifests')
    BY <1>1, <2>2, FS_AddElement DEF CustomTypes
  <2>8. CustomTypes'
    BY <1>1, <1>2, <2>1, <2>2, <2>3, <2>6, <2>7 DEF CustomTypes
  <2>9. TextsOK'
    <3>1. Stayed => customObject.ctx = spot.ctx
      <4>1. spot \in Spots
        BY <1>1 DEF CustomTypes
      <4> QED BY <1>1, <4>1, ItemsTell DEF RowsOK
    <3> QED BY <1>1, <1>2, <1>5, <2>2, <2>3, <2>4, <2>6, <3>1 DEF TextsOK
  <2> QED BY <1>3, <1>4, <2>6, <2>8, <2>9 DEF CustomInv
<1>7. CASE ~(t = "yaml" /\ ~manifest.fetched)
  <2> DEFINE m == [manifest EXCEPT !.tab = t]
  <2>1. Show(m) /\ UNCHANGED <<manifests, readCount>>
    BY <1>7 DEF ChooseManifestTab
  <2>2. m \in Details /\ m.mount = manifest.mount /\ m.text = manifest.text
        /\ m.error = manifest.error
    BY <1>1 DEF Details
  <2> HIDE DEF m
  <2>3. ViewerTrue' /\ manifest' \in Details /\ viewer' \in Editors /\ manifest' = m
    BY <1>2, <2>1, <2>2, ShowKeeps
  <2>4. CustomTypes'
    BY <1>1, <1>2, <2>1, <2>3 DEF CustomTypes
  <2>5. TextsOK'
    BY <1>1, <1>2, <2>1, <2>2, <2>3, TextsStay
  <2> QED BY <1>3, <1>4, <2>3, <2>4, <2>5 DEF CustomInv
<1> QED BY <1>6, <1>7

\* A manifest is read, or is refused.
LEMMA ManifestAnswersKeeps ==
  ASSUME CustomInv, ManifestAnswers
  PROVE  CustomInv'
<1>1. /\ CustomTypes /\ ListsOK /\ RowsOK /\ TextsOK /\ NothingPicked /\ ViewerTrue
      /\ AppliedAsMeant /\ DefinitionOK /\ manifest \in Details /\ viewer \in Editors
      /\ IsFiniteSet(manifests) /\ manifests \subseteq ManifestReads
      /\ revision \in [Customs -> Nat]
  BY CustomFacts DEF CustomTypes
<1>2. UNCHANGED <<hostOf, spot, items, lists, lastList, customObject, pickedFrom, saves,
                  saveCount, applied, revision, readCount, definition, definitionAsks, customOdd>>
  BY DEF ManifestAnswers, listVarsOfSpot, objectVars, definitionVars
<1>3. PICK k \in manifests, ok \in BOOLEAN :
        /\ manifests' = manifests \ {k}
        /\ IF k.mount # manifest.mount THEN UNCHANGED <<manifest, viewer>>
           ELSE Show(IF ok THEN [manifest EXCEPT !.text = Text(k.of), !.loading = FALSE]
                     ELSE [manifest EXCEPT !.error = TRUE, !.loading = FALSE, !.fetched = FALSE])
  BY DEF ManifestAnswers
<1>4. manifests' \subseteq manifests /\ IsFiniteSet(manifests')
  BY <1>1, <1>3, FS_RemoveElement
<1>5. ListsOK' /\ RowsOK' /\ AppliedAsMeant' /\ DefinitionOK'
  BY <1>1, <1>2, ListsStay, RowsStay, AppliedStays, DefinitionStays
<1>6. CASE k.mount # manifest.mount
  <2>1. UNCHANGED <<manifest, viewer>>
    BY <1>3, <1>6
  <2>2. CustomTypes'
    BY <1>1, <1>2, <1>4, <2>1 DEF CustomTypes
  <2>3. TextsOK' /\ NothingPicked' /\ ViewerTrue'
    BY <1>1, <1>2, <1>4, <2>1, TextsStay, PickStays, EditorKept
  <2> QED BY <1>5, <2>2, <2>3 DEF CustomInv
<1>7. CASE k.mount = manifest.mount
  <2>1. customObject # NoCustom
    BY <1>1, <1>3, <1>7 DEF NothingPicked
  <2>2. k.of \in Customs
    BY <1>1 DEF ManifestReads
  <2> DEFINE x == Text(k.of)
             m == IF ok THEN [manifest EXCEPT !.text = x, !.loading = FALSE]
                  ELSE [manifest EXCEPT !.error = TRUE, !.loading = FALSE, !.fetched = FALSE]
  <2>3. x \in CustomTexts /\ x.of = k.of
    BY <1>1, <2>2 DEF Text, CustomTexts
  <2>4. Show(m)
    BY <1>3, <1>7
  <2> HIDE DEF x
  <2>5. /\ m \in Details /\ m.mount = manifest.mount
        /\ m.text = manifest.text \/ m.text = x
        /\ manifest.error => m.error
    <3>1. CASE ok
      BY <1>1, <2>3, <3>1 DEF Details
    <3>2. CASE ~ok
      BY <1>1, <3>2 DEF Details
    <3> QED BY <3>1, <3>2
  <2> HIDE DEF m
  <2>6. ViewerTrue' /\ manifest' \in Details /\ viewer' \in Editors /\ manifest' = m
    BY <1>2, <2>4, <2>5, ShowKeeps
  <2>7. CustomTypes'
    BY <1>1, <1>2, <1>4, <2>6 DEF CustomTypes
  <2>8. NothingPicked'
    BY <1>2, <2>1 DEF NothingPicked
  <2>9. (Stayed' <=> Stayed) /\ (Picked' <=> Picked)
    BY <1>2 DEF Stayed, Picked
  <2>10. TextsOK'
    BY <1>1, <1>2, <1>3, <1>4, <1>7, <2>3, <2>5, <2>6, <2>9 DEF TextsOK
  <2> QED BY <1>5, <2>6, <2>7, <2>8, <2>10 DEF CustomInv
<1> QED BY <1>6, <1>7

\* What is typed, and how the editor shows it.
LEMMA EditorChangesKeep ==
  ASSUME CustomInv, TypeInEditor \/ ToggleDiff \/ MouseLeaves
  PROVE  CustomInv'
<1>1. /\ CustomTypes /\ ListsOK /\ RowsOK /\ TextsOK /\ NothingPicked /\ ViewerTrue
      /\ AppliedAsMeant /\ DefinitionOK /\ viewer \in Editors
  BY CustomFacts
<1>2. UNCHANGED <<hostOf, spot, items, lists, lastList, customObject, pickedFrom, manifest,
                  manifests, readCount, saves, saveCount, applied, revision, definition,
                  definitionAsks, customOdd>>
  BY DEF TypeInEditor, ToggleDiff, MouseLeaves, EditorChanges, listVarsOfSpot, objectVars,
         manifestVars, definitionVars
<1>3. /\ viewer' \in Editors /\ viewer'.text = viewer.text /\ viewer'.mount = viewer.mount
      /\ viewer'.said = viewer.said /\ viewer'.saving = viewer.saving
      /\ viewer'.edited => viewer'.seen
  <2>1. CASE TypeInEditor
    <3>1. viewer' = [viewer EXCEPT !.seen = TRUE, !.edited = viewer.edited \/ ~viewer.diff]
      BY <2>1 DEF TypeInEditor, EditorChanges
    <3>2. (viewer.edited \/ ~viewer.diff) \in BOOLEAN
      OBVIOUS
    <3> DEFINE b == viewer.edited \/ ~viewer.diff
    <3> HIDE DEF b
    <3>3. viewer' = [viewer EXCEPT !.seen = TRUE, !.edited = b] /\ b \in BOOLEAN
      BY <3>1, <3>2 DEF b
    <3> QED BY <1>1, <3>3 DEF Editors
  <2>2. CASE ToggleDiff
    <3>1. viewer' = [viewer EXCEPT !.diff = ~viewer.diff, !.seen = viewer.edited]
      BY <2>2 DEF ToggleDiff, EditorChanges
    <3> DEFINE b == ~viewer.diff
    <3> HIDE DEF b
    <3>2. viewer' = [viewer EXCEPT !.diff = b, !.seen = viewer.edited] /\ b \in BOOLEAN
      BY <3>1 DEF b
    <3> QED BY <1>1, <3>2 DEF Editors
  <2>3. CASE MouseLeaves
    <3>1. viewer' = [viewer EXCEPT !.confirm = FALSE]
      BY <2>3 DEF MouseLeaves, EditorChanges
    <3> QED BY <1>1, <3>1 DEF Editors, ViewerTrue
  <2> QED BY <2>1, <2>2, <2>3
<1>4. ViewerTrue'
  BY <1>1, <1>2, <1>3 DEF ViewerTrue, EditorOn
<1>5. CustomTypes'
  BY <1>1, <1>2, <1>3 DEF CustomTypes
<1>6. ListsOK' /\ RowsOK' /\ TextsOK' /\ NothingPicked' /\ AppliedAsMeant' /\ DefinitionOK'
  BY <1>1, <1>2, ListsStay, RowsStay, TextsStay, PickStays, AppliedStays, DefinitionStays
<1> QED BY <1>4, <1>5, <1>6 DEF CustomInv

\* What a record of a set becomes, for each, is finitely many.
LEMMA EachOutdated ==
  ASSUME NEW S, IsFiniteSet(S), NEW mount
  PROVE  IsFiniteSet({IF k.mount = mount THEN [k EXCEPT !.latest = FALSE] ELSE k : k \in S})
<1> DEFINE g(k) == IF k.mount = mount THEN [k EXCEPT !.latest = FALSE] ELSE k
           T == {g(k) : k \in S}
           f == [k \in S |-> g(k)]
<1>1. f \in Surjection(S, T)
  <2> HIDE DEF g
  <2> QED BY DEF Surjection
<1>2. IsFiniteSet(T)
  <2> HIDE DEF f, T
  <2> QED BY <1>1, FS_Surjection
<1> QED BY <1>2

\* A manifest is saved, or its save is to be confirmed.
LEMMA SaveClickKeeps ==
  ASSUME CustomInv, SaveClick
  PROVE  CustomInv'
<1>1. /\ CustomTypes /\ ListsOK /\ RowsOK /\ TextsOK /\ NothingPicked /\ ViewerTrue
      /\ AppliedAsMeant /\ DefinitionOK /\ viewer \in Editors /\ manifest \in Details
      /\ saves \subseteq Applies /\ IsFiniteSet(saves) /\ saveCount \in Nat /\ spot \in Spots
  BY CustomFacts DEF CustomTypes
<1>2. /\ UNCHANGED <<hostOf, spot, items, lists, lastList, customObject, pickedFrom, manifest,
                     manifests, readCount, revision, definition, definitionAsks, customOdd>>
      /\ viewer.text # NoCustom /\ viewer.saving = FALSE
  BY <1>1 DEF SaveClick, listVarsOfSpot, objectVars, manifestVars, definitionVars, Editors
<1>3. RowsOK' /\ DefinitionOK'
  BY <1>1, <1>2, RowsStay, DefinitionStays
<1>4. CASE AsksFirst
  <2>1. viewer' = [viewer EXCEPT !.confirm = TRUE] /\ UNCHANGED <<saves, saveCount, applied>>
    BY <1>4 DEF SaveClick
  <2>2. /\ viewer' \in Editors /\ viewer'.text = viewer.text /\ viewer'.mount = viewer.mount
        /\ viewer'.said = viewer.said /\ viewer'.saving = viewer.saving
        /\ viewer'.edited = viewer.edited /\ viewer'.seen = viewer.seen
    BY <1>1, <2>1 DEF Editors
  <2>3. ViewerTrue'
    BY <1>1, <1>2, <2>1, <2>2 DEF ViewerTrue, EditorOn
  <2>4. CustomTypes'
    BY <1>1, <1>2, <2>1, <2>2 DEF CustomTypes
  <2>5. ListsOK' /\ TextsOK' /\ NothingPicked' /\ AppliedAsMeant'
    BY <1>1, <1>2, <2>1, ListsStay, TextsStay, PickStays, AppliedStays
  <2> QED BY <1>3, <2>3, <2>4, <2>5 DEF CustomInv
<1>5. CASE ~AsksFirst
  <2> DEFINE n == saveCount + 1
             k == [n |-> n, mount |-> manifest.mount, editor |-> viewer.mount,
                   text |-> viewer.text, spot |-> spot, latest |-> TRUE]
             a == [of |-> viewer.text.of, edited |-> viewer.edited, seen |-> viewer.seen,
                   ctx |-> spot.ctx, asked |-> viewer.confirm]
             old == {IF m.mount = manifest.mount THEN [m EXCEPT !.latest = FALSE] ELSE m :
                       m \in saves}
  <2>1. n \in Nat
    BY <1>1
  <2> HIDE DEF n
  <2>2. /\ viewer' = [viewer EXCEPT !.confirm = FALSE, !.saving = TRUE] /\ saveCount' = n
        /\ saves' = old \cup {k} /\ applied' = applied \cup {a}
    BY <1>5 DEF SaveClick, n
  <2>3. viewer.text \in CustomTexts /\ viewer.text = manifest.text
    BY <1>1, <1>2 DEF Editors, ViewerTrue
  <2>4. /\ k \in Applies /\ k.mount = manifest.mount /\ k.editor = viewer.mount
        /\ k.text = viewer.text /\ k.spot = spot /\ k.latest = TRUE
    BY <1>1, <2>1, <2>3 DEF Applies, Details, Editors
  <2>5. \A x \in old : \E m \in saves : /\ x \in Applies /\ x.mount = m.mount /\ x.text = m.text
                                        /\ x.spot = m.spot /\ x.editor = m.editor
    <3> SUFFICES ASSUME NEW m \in saves, NEW x,
                        x = IF m.mount = manifest.mount THEN [m EXCEPT !.latest = FALSE] ELSE m
                 PROVE  /\ x \in Applies /\ x.mount = m.mount /\ x.text = m.text
                        /\ x.spot = m.spot /\ x.editor = m.editor
      OBVIOUS
    <3> QED BY <1>1 DEF Applies
  <2>6. IsFiniteSet(old)
    BY <1>1, EachOutdated
  <2>7. /\ a.of = viewer.text.of /\ a.edited = viewer.edited /\ a.seen = viewer.seen
        /\ a.ctx = spot.ctx /\ a.asked = viewer.confirm
    OBVIOUS
  <2>8. /\ viewer' \in Editors /\ viewer'.text = viewer.text /\ viewer'.mount = viewer.mount
        /\ viewer'.said = viewer.said /\ viewer'.saving = TRUE
        /\ viewer'.edited = viewer.edited /\ viewer'.seen = viewer.seen
    BY <1>1, <2>2 DEF Editors
  <2> HIDE DEF k, a, old
  <2>9. IsFiniteSet(saves') /\ saves' \subseteq Applies
    BY <2>2, <2>4, <2>5, <2>6, FS_AddElement
  <2>10. CustomTypes'
    BY <1>1, <1>2, <2>1, <2>2, <2>8, <2>9 DEF CustomTypes
  <2>11. customObject # NoCustom
    BY <1>1, <1>2, <2>3 DEF NothingPicked
  <2>12. \A x \in saves : x.editor # viewer.mount
    BY <1>1, <1>2 DEF ViewerTrue
  <2>13. ViewerTrue'
    <3>1. \A x \in saves' : x.editor = viewer.mount => x = k
      BY <2>2, <2>5, <2>12
    <3>2. EditorOn(manifest') <=> EditorOn(manifest)
      BY <1>2
    <3> QED BY <1>1, <1>2, <2>4, <2>8, <3>1, <3>2 DEF ViewerTrue
  <2>14. (Stayed' <=> Stayed) /\ (Picked' <=> Picked)
    BY <1>2 DEF Stayed, Picked
  <2>15. TextsOK'
    BY <1>1, <1>2, <2>2, <2>3, <2>4, <2>5, <2>14 DEF TextsOK
  <2>16. ListsOK'
    <3>1. "leftDuringSave" \notin customOdd => \A x \in saves' : x.spot = spot
      BY <1>1, <2>2, <2>4, <2>5 DEF ListsOK
    <3>2. \A x : TakenList(x)' <=> TakenList(x)
      BY <1>2 DEF TakenList
    <3> QED BY <1>1, <1>2, <2>14, <3>1, <3>2 DEF ListsOK, ListEnds
  <2>17. NothingPicked'
    BY <1>2, <2>11 DEF NothingPicked
  <2>18. AppliedAsMeant'
    <3>1. Stayed => viewer.text.of.ctx = spot.ctx
      BY <1>1, <1>2, <2>3 DEF TextsOK
    <3>2. viewer.edited => viewer.seen
      BY <1>1 DEF ViewerTrue
    <3>3. spot.ctx \in Guarded => viewer.confirm
      BY <1>5 DEF AsksFirst
    <3> QED BY <1>1, <1>2, <2>2, <2>7, <3>1, <3>2, <3>3 DEF AppliedAsMeant, Stayed
  <2> QED BY <1>3, <2>10, <2>13, <2>15, <2>16, <2>17, <2>18 DEF CustomInv
<1> QED BY <1>4, <1>5

\* A save ends: the latest of the detail closes the editor and loads the list, another one
\* only tells its editor.
LEMMA SaveEndsKeeps ==
  ASSUME CustomInv, SaveEnds
  PROVE  CustomInv'
<1>1. /\ CustomTypes /\ ListsOK /\ RowsOK /\ TextsOK /\ NothingPicked /\ ViewerTrue
      /\ AppliedAsMeant /\ DefinitionOK /\ viewer \in Editors /\ manifest \in Details
      /\ saves \subseteq Applies /\ IsFiniteSet(saves) /\ spot \in Spots
      /\ revision \in [Customs -> Nat] /\ lists \subseteq ListAsks /\ lastList \in Nat
  BY CustomFacts DEF CustomTypes
<1>2. UNCHANGED <<hostOf, spot, customObject, pickedFrom, manifests, readCount, saveCount,
                  applied, definition, definitionAsks, customOdd>>
  BY DEF SaveEnds, objectVars, definitionVars
<1>3. PICK k \in saves, ok \in BOOLEAN :
        LET here  == k.mount = manifest.mount
            after == [manifest EXCEPT !.text = [k.text EXCEPT !.rev = revision'[k.text.of]],
                                      !.tab = "metadata", !.fetched = FALSE]
            told  == IF viewer.mount = k.editor
                     THEN [viewer EXCEPT !.saving = FALSE, !.said = "applied"] ELSE viewer
        IN  /\ saves' = saves \ {k}
            /\ revision' = IF ok THEN [revision EXCEPT ![k.text.of] = @ + 1] ELSE revision
            /\ IF ok /\ k.latest
               THEN /\ IF here THEN Show(after) ELSE UNCHANGED <<manifest, viewer>>
                    /\ AskList
                    /\ lists' = lists \cup {[NewList(lastList', k.spot) EXCEPT !.saved = TRUE]}
               ELSE /\ manifest' = IF here /\ k.latest /\ ~ok THEN [manifest EXCEPT !.error = TRUE]
                                   ELSE manifest
                    /\ viewer' = told /\ UNCHANGED listVarsOfSpot
  BY DEF SaveEnds
<1>4. /\ k.text \in CustomTexts /\ k.text.of \in Customs /\ k.spot \in Spots /\ k.mount \in Nat
      /\ k.latest \in BOOLEAN
  BY <1>1, <1>3 DEF Applies, CustomTexts
<1>5. revision' \in [Customs -> Nat]
  <2>1. revision' = IF ok THEN [revision EXCEPT ![k.text.of] = @ + 1] ELSE revision
    BY <1>3
  <2>2. revision[k.text.of] + 1 \in Nat
    BY <1>1, <1>4
  <2> DEFINE c == revision[k.text.of] + 1
  <2> HIDE DEF c
  <2>3. revision' = IF ok THEN [revision EXCEPT ![k.text.of] = c] ELSE revision
    BY <2>1 DEF c
  <2>4. c \in Nat
    BY <2>2 DEF c
  <2> QED BY <1>1, <2>3, <2>4
<1>6. saves' \subseteq saves /\ IsFiniteSet(saves') /\ saves' \subseteq Applies /\ k \notin saves'
  BY <1>1, <1>3, FS_RemoveElement
<1>7. AppliedAsMeant' /\ DefinitionOK'
  BY <1>1, <1>2, AppliedStays, DefinitionStays
<1>8. (Stayed' <=> Stayed) /\ (Picked' <=> Picked)
  BY <1>2 DEF Stayed, Picked
<1>9. k.mount = manifest.mount => customObject # NoCustom
  BY <1>1, <1>3 DEF NothingPicked
<1>10. CASE ok /\ k.latest
  <2> DEFINE x == [k.text EXCEPT !.rev = revision'[k.text.of]]
             m == [manifest EXCEPT !.text = x, !.tab = "metadata", !.fetched = FALSE]
             l == [NewList(lastList', k.spot) EXCEPT !.saved = TRUE]
  <2>1. /\ IF k.mount = manifest.mount THEN Show(m) ELSE UNCHANGED <<manifest, viewer>>
        /\ AskList /\ lists' = lists \cup {l}
    BY <1>3, <1>10
  <2>2. items' \in ItemStates /\ items'.loading = TRUE /\ lastList' \in Nat
    BY <1>1, <2>1, AskListTells
  <2>3. l \in ListAsks /\ l.of = k.spot /\ l.dead = FALSE /\ l.saved = TRUE
    <3> DEFINE y == NewList(lastList', k.spot)
    <3>1. y \in ListAsks /\ y.of = k.spot /\ y.dead = FALSE
      BY <1>4, <2>2, NewTells
    <3> HIDE DEF y
    <3>2. l = [y EXCEPT !.saved = TRUE]
      BY DEF y
    <3> HIDE DEF l
    <3> QED BY <3>1, <3>2 DEF ListAsks
  <2>4. x \in CustomTexts /\ x.of = k.text.of
    <3>1. revision'[k.text.of] \in Nat
      BY <1>4, <1>5
    <3> DEFINE r == revision'[k.text.of]
    <3> HIDE DEF r
    <3>2. x = [k.text EXCEPT !.rev = r] /\ r \in Nat
      BY <3>1 DEF r
    <3> HIDE DEF x
    <3> QED BY <1>4, <3>2 DEF CustomTexts
  <2> HIDE DEF x
  <2>5. /\ m \in Details /\ m.mount = manifest.mount /\ m.text = x /\ m.tab = "metadata"
        /\ m.fetched = FALSE
    BY <1>1, <2>4 DEF Details
  <2> HIDE DEF l, m
  <2>6. /\ manifest' \in Details /\ viewer' \in Editors /\ ViewerTrue'
        /\ manifest'.mount = manifest.mount
        /\ IF k.mount = manifest.mount THEN manifest'.text = x ELSE manifest' = manifest
    <3>1. CASE k.mount = manifest.mount
      <4>1. ~EditorOn(m)
        BY <2>5 DEF EditorOn
      <4>2. ViewerTrue' /\ manifest' \in Details /\ viewer' \in Editors /\ manifest' = m
        BY <1>6, <2>1, <2>5, <3>1, <4>1, ShowKeeps
      <4> QED BY <2>5, <3>1, <4>2
    <3>2. CASE k.mount # manifest.mount
      <4>1. UNCHANGED <<manifest, viewer>>
        BY <2>1, <3>2
      <4> QED BY <1>1, <1>6, <3>2, <4>1, EditorKept
    <3> QED BY <3>1, <3>2
  <2>7. CustomTypes'
    BY <1>1, <1>2, <1>5, <1>6, <2>1, <2>2, <2>3, <2>6 DEF CustomTypes
  <2>8. RowsOK'
    BY <1>1, <1>2, <1>8, <2>2 DEF RowsOK, Listable
  <2>9. TextsOK'
    BY <1>1, <1>2, <1>3, <1>6, <1>8, <2>4, <2>6 DEF TextsOK
  <2>10. NothingPicked'
    BY <1>1, <1>2, <1>6, <1>9, <2>6 DEF NothingPicked
  <2>11. "leftDuringSave" \notin customOdd => k.spot = spot
    BY <1>1, <1>3 DEF ListsOK
  <2>12. Stayed => "leftDuringSave" \notin customOdd
    BY DEF Stayed
  <2>13. \A y : TakenList(y)' <=> TakenList(y)
    BY <1>2 DEF TakenList
  <2>14. "leftDuringSave" \notin customOdd => TakenList(l)
    BY <2>3, <2>11 DEF TakenList
  <2>15. ListEnds'
    BY <1>2, <2>1, <2>13, <2>14 DEF ListEnds
  <2>16. ListsOK'
    BY <1>1, <1>2, <1>6, <1>8, <2>1, <2>3, <2>11, <2>12, <2>13, <2>15 DEF ListsOK
  <2> QED BY <1>7, <2>6, <2>7, <2>8, <2>9, <2>10, <2>16 DEF CustomInv
<1>11. CASE ~(ok /\ k.latest)
  <2> DEFINE refused == k.mount = manifest.mount /\ k.latest /\ ~ok
             mine == viewer.mount = k.editor
  <2>1. /\ manifest' = IF refused THEN [manifest EXCEPT !.error = TRUE] ELSE manifest
        /\ viewer' = IF mine THEN [viewer EXCEPT !.saving = FALSE, !.said = "applied"] ELSE viewer
        /\ UNCHANGED <<items, lists, lastList>>
    BY <1>3, <1>11 DEF listVarsOfSpot
  <2>2. mine => refused
    BY <1>1, <1>3, <1>11 DEF ViewerTrue
  <2>3. mine => \A y \in saves' : y.editor # viewer.mount
    BY <1>1, <1>3, <1>6 DEF ViewerTrue
  <2> HIDE DEF refused, mine
  <2>4. /\ manifest' \in Details /\ manifest'.text = manifest.text
        /\ manifest'.mount = manifest.mount /\ manifest'.fetched = manifest.fetched
        /\ manifest'.tab = manifest.tab /\ manifest'.loading = manifest.loading
        /\ manifest.error => manifest'.error
        /\ refused => manifest'.error
    BY <1>1, <2>1 DEF Details
  <2>5. /\ viewer' \in Editors /\ viewer'.text = viewer.text /\ viewer'.mount = viewer.mount
        /\ viewer'.edited = viewer.edited /\ viewer'.seen = viewer.seen
        /\ ~mine => viewer' = viewer
    BY <1>1, <2>1 DEF Editors
  <2>6. EditorOn(manifest)' <=> EditorOn(manifest)
    BY <2>4 DEF EditorOn
  <2>7. ViewerTrue'
    <3>1. CASE mine
      BY <1>1, <2>2, <2>3, <2>4, <2>5, <2>6, <3>1 DEF ViewerTrue
    <3>2. CASE ~mine
      BY <1>1, <1>6, <2>4, <2>5, <2>6, <3>2 DEF ViewerTrue
    <3> QED BY <3>1, <3>2
  <2>8. CustomTypes'
    BY <1>1, <1>2, <1>5, <1>6, <2>1, <2>4, <2>5 DEF CustomTypes
  <2>9. ListsOK' /\ RowsOK' /\ TextsOK' /\ NothingPicked'
    BY <1>1, <1>2, <1>6, <2>1, <2>4, ListsStay, RowsStay, TextsStay, PickStays
  <2> QED BY <1>7, <2>7, <2>8, <2>9, <2>5 DEF CustomInv
<1> QED BY <1>10, <1>11

----------------------------------------------------------------------------
\* The definition is asked for, answered, applied and closed.
LEMMA ModalKeeps ==
  ASSUME CustomInv, ModalNext
  PROVE  CustomInv'
<1>1. /\ CustomTypes /\ ListsOK /\ RowsOK /\ TextsOK /\ NothingPicked /\ ViewerTrue
      /\ AppliedAsMeant /\ DefinitionOK /\ definition \in DefinitionStates
      /\ definitionAsks \subseteq DefinitionAsks /\ readCount \in Nat
  BY CustomFacts DEF CustomTypes
<1>2. AroundDefinition
  BY DEF ModalNext, ViewDefinition, CloseDefinition, ApplyDefinition, DefinitionAnswers
<1>3. UNCHANGED <<hostOf, spot, items, lists, lastList, customObject, pickedFrom, manifest,
                  manifests, viewer, saves, saveCount, applied, revision, customOdd>>
  BY <1>2 DEF AroundDefinition, listVarsOfSpot, objectVars, editorVars
<1>4. /\ ListsOK' /\ RowsOK' /\ TextsOK' /\ NothingPicked' /\ ViewerTrue' /\ AppliedAsMeant'
  BY <1>1, <1>3, ListsStay, RowsStay, TextsStay, PickStays, EditorKept, AppliedStays
<1>5. definition.id \in Nat /\ \A k \in definitionAsks : k.id \in Nat /\ k.id <= definition.id
  BY <1>1 DEF DefinitionStates, DefinitionAsks, DefinitionOK
<1> DEFINE n == definition.id + 1
<1>6. n \in Nat /\ \A k \in definitionAsks : k.id # n /\ k.id <= n
  BY <1>5
<1> HIDE DEF n
<1>7. readCount' \in Nat
  BY <1>1 DEF ModalNext, ViewDefinition, CloseDefinition, ApplyDefinition, DefinitionAnswers
<1>8. /\ definition' \in DefinitionStates /\ definitionAsks' \subseteq DefinitionAsks
      /\ DefinitionOK'
  <2>1. CASE ViewDefinition
    <3> DEFINE k == [id |-> n, what |-> "get"]
    <3>1. /\ definition' = [id |-> n, state |-> "loading", wanted |-> TRUE]
          /\ definitionAsks' = definitionAsks \cup {k}
      BY <2>1 DEF ViewDefinition, n
    <3>2. k \in DefinitionAsks /\ k.id = n /\ k.what = "get"
      BY <1>6 DEF DefinitionAsks
    <3> HIDE DEF k
    <3>3. /\ definition' \in DefinitionStates /\ definition'.id = n
          /\ definition'.state = "loading" /\ definition'.wanted = TRUE
      BY <1>6, <3>1 DEF DefinitionStates
    <3>4. \A x \in definitionAsks' : x.id <= n /\ (x.id = n => x = k)
      BY <1>6, <3>1, <3>2
    <3> QED BY <1>1, <3>1, <3>2, <3>3, <3>4 DEF DefinitionOK, DefinitionTrue
  <2>2. CASE CloseDefinition
    <3>1. /\ definition' = [id |-> n, state |-> "none", wanted |-> FALSE]
          /\ definitionAsks' = definitionAsks
      BY <2>2 DEF CloseDefinition, ClosedDefinition, n
    <3>2. /\ definition' \in DefinitionStates /\ definition'.id = n
          /\ definition'.state = "none" /\ definition'.wanted = FALSE
      BY <1>6, <3>1 DEF DefinitionStates
    <3> QED BY <1>1, <1>6, <3>1, <3>2 DEF DefinitionOK, DefinitionTrue
  <2>3. CASE ApplyDefinition
    <3> DEFINE k == [id |-> n, what |-> "apply"]
    <3>1. definition' = [definition EXCEPT !.id = n] /\ definition.state = "shown"
      BY <2>3 DEF ApplyDefinition, n
    <3>2. /\ definition' \in DefinitionStates /\ definition'.id = n
          /\ definition'.state = "shown" /\ definition'.wanted = definition.wanted
      BY <1>1, <1>6, <3>1 DEF DefinitionStates
    <3>3. definitionAsks' = definitionAsks \cup {k}
      BY <2>3, <3>2 DEF ApplyDefinition
    <3>4. k \in DefinitionAsks /\ k.id = n /\ k.what = "apply"
      BY <1>6 DEF DefinitionAsks
    <3> HIDE DEF k
    <3>5. \A x \in definitionAsks' : x.id <= n /\ (x.id = n => x = k)
      BY <1>6, <3>3, <3>4
    <3> QED BY <1>1, <3>1, <3>2, <3>3, <3>4, <3>5 DEF DefinitionOK, DefinitionTrue
  <2>4. CASE DefinitionAnswers
    <3>1. PICK k \in definitionAsks, ok \in BOOLEAN :
            /\ definitionAsks' = definitionAsks \ {k}
            /\ definition' =
                 CASE k.id = definition.id /\ k.what = "get" ->
                        [definition EXCEPT !.state = IF ok THEN "shown" ELSE "error"]
                   [] k.id = definition.id /\ k.what = "apply" /\ ok ->
                        [definition EXCEPT !.state = "none", !.wanted = FALSE]
                   [] OTHER -> definition
      BY <2>4 DEF DefinitionAnswers
    <3>2. k \in DefinitionAsks
      BY <1>1, <3>1
    <3>3. CASE k.id = definition.id /\ k.what = "get"
      <4>1. definition' = [definition EXCEPT !.state = IF ok THEN "shown" ELSE "error"]
        BY <3>1, <3>3
      <4>2. /\ definition' \in DefinitionStates /\ definition'.id = definition.id
            /\ definition'.wanted = definition.wanted
            /\ definition'.state = IF ok THEN "shown" ELSE "error"
        BY <1>1, <4>1 DEF DefinitionStates
      <4>3. definition.state = "loading" /\ definition.wanted = TRUE
        BY <1>1, <3>1, <3>3 DEF DefinitionOK, DefinitionTrue, DefinitionStates
      <4>4. \A x \in definitionAsks' : x.id # definition.id
        BY <1>1, <3>1, <3>2, <3>3, <4>3 DEF DefinitionOK, DefinitionAsks
      <4> QED BY <1>1, <1>5, <3>1, <4>2, <4>3, <4>4 DEF DefinitionOK, DefinitionTrue
    <3>4. CASE k.id = definition.id /\ k.what = "apply" /\ ok
      <4>1. definition' = [definition EXCEPT !.state = "none", !.wanted = FALSE]
        BY <3>1, <3>4
      <4>2. /\ definition' \in DefinitionStates /\ definition'.id = definition.id
            /\ definition'.wanted = FALSE /\ definition'.state = "none"
        BY <1>1, <4>1 DEF DefinitionStates
      <4>3. definition.state = "shown"
        BY <1>1, <3>1, <3>4 DEF DefinitionOK
      <4>4. \A x \in definitionAsks' : x.id # definition.id
        BY <1>1, <3>1, <3>2, <3>4, <4>3 DEF DefinitionOK, DefinitionAsks
      <4> QED BY <1>1, <1>5, <3>1, <4>2, <4>4 DEF DefinitionOK, DefinitionTrue
    <3>5. CASE /\ ~(k.id = definition.id /\ k.what = "get")
               /\ ~(k.id = definition.id /\ k.what = "apply" /\ ok)
      <4>1. definition' = definition
        BY <3>1, <3>5
      <4> QED BY <1>1, <1>5, <3>1, <3>5, <4>1 DEF DefinitionOK, DefinitionTrue
    <3> QED BY <3>3, <3>4, <3>5
  <2> QED BY <2>1, <2>2, <2>3, <2>4 DEF ModalNext
<1>9. CustomTypes'
  BY <1>1, <1>3, <1>7, <1>8 DEF CustomTypes
<1> QED BY <1>4, <1>8, <1>9 DEF CustomInv

\* Nothing happens.
LEMMA CustomIdle ==
  ASSUME CustomInv, UNCHANGED customVars
  PROVE  CustomInv'
<1>1. /\ CustomTypes /\ ListsOK /\ RowsOK /\ TextsOK /\ NothingPicked /\ ViewerTrue
      /\ AppliedAsMeant /\ DefinitionOK
  BY CustomFacts
<1>2. UNCHANGED <<hostOf, spot, items, lists, lastList, customObject, pickedFrom, manifest,
                  manifests, readCount, viewer, saves, saveCount, applied, revision,
                  definition, definitionAsks, customOdd>>
  BY DEF customVars, listVarsOfSpot, objectVars, manifestVars, editorVars, definitionVars
<1>3. CustomTypes'
  BY <1>1, <1>2 DEF CustomTypes
<1> QED BY <1>1, <1>2, <1>3, ListsStay, RowsStay, TextsStay, PickStays, EditorKept, AppliedStays,
           DefinitionStays DEF CustomInv

\* Every step keeps the invariant.
LEMMA CustomSteps ==
  ASSUME CustomInv, [CustomNext \/ SaveNext \/ ModalNext]_customVars
  PROVE  CustomInv'
<1>1. CASE Browsing
  BY <1>1, ChooseSpotKeeps, PickObjectKeeps, ChooseManifestTabKeeps DEF Browsing
<1>2. CASE Editing
  BY <1>2, EditorChangesKeep, SaveClickKeeps DEF Editing
<1>3. CASE ListArrives \/ RefreshList \/ ManifestAnswers \/ SaveEnds
  BY <1>3, ListArrivesKeeps, RefreshListKeeps, ManifestAnswersKeeps, SaveEndsKeeps
<1> QED BY <1>1, <1>2, <1>3, ModalKeeps, CustomIdle DEF CustomNext, SaveNext

\* Whatever is browsed, saved and answered, and in whatever order: the rows, the manifest and
\* the editor of a custom resource are of what is shown.
THEOREM CustomHold == CustomSpec => []CustomTrue
<1>1. CustomSpec => []CustomInv
  BY CustomStarts, CustomSteps, PTL DEF CustomSpec
<1> QED BY <1>1, CustomInvTells, PTL

=============================================================================
