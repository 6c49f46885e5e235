--------------------------- MODULE FavoritesProofs ---------------------------
(* Theorems about Favorites, for any number of toggles and tracks. *)
EXTENDS Favorites, ListProofs, FiniteSetTheorems

\* The statements on a list without doubles.
LEMMA Deleted ==
  ASSUME NEW list \in Seq(Tracks), IsInjective(list), NEW t
  PROVE  LET rest == Only(list, Tracks \ {t})
         IN  rest \in Seq(Tracks) /\ IsInjective(rest) /\ ToSet(rest) = ToSet(list) \ {t}
<1>1. ToSet(list) \subseteq Tracks
  BY ElementsIn
<1> QED
  BY <1>1, OnlyElements, OnlyOnce

LEMMA Inserted ==
  ASSUME NEW list \in Seq(Tracks), IsInjective(list), NEW t \in Tracks
  PROVE  LET more == IF Contains(list, t) THEN list ELSE <<t>> \o list
         IN  more \in Seq(Tracks) /\ IsInjective(more) /\ ToSet(more) = ToSet(list) \cup {t}
<1>1. Contains(list, t) <=> t \in ToSet(list)
  BY ContainsElement
<1> QED
  BY <1>1, ToSetCons, ConsNew

LEMMA ListsOfTracks ==
  ASSUME NEW list \in SetToAllKPermutations(Tracks)
  PROVE  list \in Seq(Tracks) /\ IsInjective(list)
<1>1. PICK s \in SUBSET Tracks : list \in SetToSeqs(s)
  BY DEF SetToAllKPermutations
<1>2. Cardinality(s) \in Nat
  BY TracksAssumption, FS_Subset, FS_CardinalityType
<1>3. list \in [1..Cardinality(s) -> Tracks]
  BY <1>1 DEF SetToSeqs
<1>4. \A i, j \in 1..Cardinality(s) : i # j => list[i] # list[j]
  BY <1>1 DEF SetToSeqs
<1>5. list \in Seq(Tracks)
  BY <1>2, <1>3
<1>6. IsInjective(list)
  BY <1>3, <1>4 DEF IsInjective
<1> QED
  BY <1>5, <1>6

LEMMA InitType == Init => TypeOK
<1> SUFFICES ASSUME Init PROVE TypeOK
  OBVIOUS
<1>1. liked \in Seq(Tracks) /\ IsInjective(liked)
  BY ListsOfTracks DEF Init
<1>2. <<>> \in Seq(Tracks)
  OBVIOUS
<1>3. fetch \in [stage : {"none", "asked", "read"}, list : Seq(Tracks)]
  BY <1>2 DEF Init, Fetch
<1>4. before \in [Toggles -> Seq(Tracks)]
  BY <1>2 DEF Init
<1> QED
  BY <1>1, <1>3, <1>4 DEF Init, TypeOK, Stages
-----------------------------------------------------------------------------
LEMMA TypeStep ==
  ASSUME TypeOK, [Next]_vars
  PROVE  TypeOK'
<1> USE DEF TypeOK
<1>0. <<>> \in Seq(Tracks) /\ Fetch("none", <<>>) \in [stage : {"none", "asked", "read"}, list : Seq(Tracks)]
      /\ Fetch("asked", <<>>) \in [stage : {"none", "asked", "read"}, list : Seq(Tracks)]
  BY DEF Fetch
<1>1. CASE UNCHANGED vars
  BY <1>1 DEF vars, server, clicks
<1>2. ASSUME NEW m \in Toggles, NEW t \in Tracks, Click(m, t)
      PROVE  TypeOK'
  <2> DEFINE previous == IF cache = Nil THEN <<>> ELSE cache
             now      == applyFavoriteToggle(previous, t, t \in shown)
  <2>1. previous \in Seq(Tracks)
    BY <1>0
  <2> HIDE DEF previous
  <2>2. now \in Seq(Tracks)
    <3>1. Only(previous, Tracks \ {t}) \in Seq(Tracks)
      BY <2>1, OnlyElements
    <3>2. <<t>> \o previous \in Seq(Tracks)
      BY <2>1, ToSetCons
    <3> QED
      BY <3>1, <3>2 DEF applyFavoriteToggle
  <2> HIDE DEF now
  <2>3. /\ fetch' = Fetch("none", <<>>) /\ cache' = now
        /\ before' = [before EXCEPT ![m] = previous]
        /\ track' = [track EXCEPT ![m] = t]
        /\ last' = [last EXCEPT ![t] = m]
        /\ outcome' = [outcome EXCEPT ![m] = "waiting"]
        /\ UNCHANGED <<tracks, liked, shown, doubt>>
    BY <1>2, Zenon DEF Click, now, previous
  <2>4. PICK b \in BOOLEAN : like' = [like EXCEPT ![m] = b]
    <3>1. CASE t \in shown
      BY <1>2, <3>1 DEF Click
    <3>2. CASE t \notin shown
      BY <1>2, <3>2 DEF Click
    <3> QED
      BY <3>1, <3>2
  <2>5. PICK s \in {"check", "remove"} : pc' = [pc EXCEPT ![m] = s]
    BY <1>2, Zenon DEF Click, FirstStep
  <2>6. muddled' \in SUBSET Tracks
    <3>1. muddled' = muddled \/ muddled' = muddled \cup {t}
      BY <1>2, Zenon DEF Click
    <3> QED
      BY <3>1
  <2> QED
    BY <1>0, <2>1, <2>2, <2>3, <2>4, <2>5, <2>6 DEF Stages
<1>3. ASSUME NEW m \in Toggles, Settle(m) \/ GiveUp(m)
      PROVE  TypeOK'
  <2>1. UNCHANGED <<tracks, liked, clicks, shown>>
    BY <1>3 DEF Settle, GiveUp, server
  <2>2. PICK r \in {"ok", "error"} : outcome' = [outcome EXCEPT ![m] = r]
    BY <1>3 DEF Settle, GiveUp, Failed, End
  <2>3. before' = [before EXCEPT ![m] = <<>>] /\ fetch' = Fetch("asked", <<>>)
        /\ cache' \in {cache, before[m]}
    BY <1>3 DEF Settle, GiveUp, Failed, End
  <2>4. pc' \in {pc, [pc EXCEPT ![m] = "dropped"]} /\ doubt' \in {doubt, TRUE}
    BY <1>3 DEF Settle, GiveUp, server
  <2>5. pc' \in [Toggles -> Stages]
    BY <2>4 DEF Stages
  <2>6. cache' = Nil \/ cache' \in Seq(Tracks)
    BY <2>3
  <2>7. before' \in [Toggles -> Seq(Tracks)]
    BY <1>0, <2>3
  <2>8. outcome' \in [Toggles -> {"none", "waiting", "ok", "error"}]
    BY <2>2
  <2> QED
    BY <1>0, <2>1, <2>3, <2>4, <2>5, <2>6, <2>7, <2>8 DEF clicks
<1>4. ASSUME NEW m \in Toggles, Handle(m)
      PROVE  TypeOK'
  <2>1. UNCHANGED <<tracks, clicks, cache, shown, fetch, before, outcome, doubt>>
    BY <1>4 DEF Handle, CheckTrack, AddFavorite, RemoveFavorite, StatementFails, Step
  <2>2. PICK s \in {"insert", "ok", "error"} : pc' = [pc EXCEPT ![m] = s]
    BY <1>4, Zenon DEF Handle, CheckTrack, AddFavorite, RemoveFavorite, StatementFails, Step
  <2>3. liked' \in Seq(Tracks) /\ IsInjective(liked')
    <3>1. \/ liked' = liked
          \/ track[m] \in tracks /\ liked' = IF Contains(liked, track[m]) THEN liked ELSE <<track[m]>> \o liked
          \/ liked' = Only(liked, Tracks \ {track[m]})
      BY <1>4, Zenon DEF Handle, CheckTrack, AddFavorite, RemoveFavorite, StatementFails, Insert, Delete
    <3>2. CASE track[m] \in tracks
               /\ liked' = IF Contains(liked, track[m]) THEN liked ELSE <<track[m]>> \o liked
      BY <3>2, Inserted
    <3>3. CASE liked' = Only(liked, Tracks \ {track[m]})
      BY <3>3, Deleted
    <3> QED
      BY <3>1, <3>2, <3>3
  <2> QED
    BY <2>1, <2>2, <2>3 DEF clicks, Stages
<1>5. ASSUME NEW t \in Tracks, DeleteTrack(t)
      PROVE  TypeOK'
  <2>1. liked' \in Seq(Tracks) /\ IsInjective(liked')
    BY <1>5, Deleted DEF DeleteTrack, Delete
  <2> QED
    BY <1>5, <2>1 DEF DeleteTrack, clicks
<1>6. CASE Render
  <2>1. Ids \subseteq Tracks
    BY ElementsIn DEF Ids
  <2> QED
    BY <1>6, <2>1 DEF Render, server, clicks
<1>7. CASE Mount \/ FetchFails
  BY <1>0, <1>7 DEF Mount, FetchFails, server, clicks
<1>8. CASE ReceiveList
  BY <1>0, <1>8 DEF ReceiveList, server, clicks
<1>9. CASE ListFavorites
  <2>1. fetch' \in [stage : {"none", "asked", "read"}, list : Seq(Tracks)]
    BY <1>9 DEF ListFavorites, Fetch, Listed
  <2>2. doubt' = (doubt /\ \E m \in Toggles : RunsOn(m))
    BY <1>9 DEF ListFavorites
  <2>3. doubt' \in BOOLEAN
    BY <2>2, Zenon
  <2> QED
    BY <1>9, <2>1, <2>3 DEF ListFavorites, server, clicks
<1> QED
  BY <1>1, <1>2, <1>3, <1>4, <1>5, <1>6, <1>7, <1>8, <1>9 DEF Next

\* The types of the tables, the cache and the toggles.
THEOREM TypeCorrect == Spec => []TypeOK
<1>1. Init => TypeOK
  BY InitType
<1>2. TypeOK /\ [Next]_vars => TypeOK'
  BY TypeStep
<1> QED
  BY <1>1, <1>2, PTL DEF Spec

-----------------------------------------------------------------------------
(* Each kind of step, as far as the server's tables and the toggles go. *)

Same(m) == pc'[m] = pc[m] /\ track'[m] = track[m] /\ like'[m] = like[m] /\ outcome'[m] = outcome[m]

\* No statement is executed.
LEMMA TabSteps ==
  ASSUME TypeOK, NEW m \in Toggles, NEW t \in Tracks,
         Click(m, t) \/ Settle(m) \/ GiveUp(m)
  PROVE  UNCHANGED <<tracks, liked>> /\ \A o \in Toggles \ {m} : Same(o)
<1>1. CASE Click(m, t)
  BY <1>1 DEF Click, TypeOK, Same
<1>2. CASE Settle(m)
  BY <1>2 DEF Settle, Failed, End, TypeOK, Same, server, clicks
<1>3. CASE GiveUp(m)
  BY <1>3 DEF GiveUp, Failed, End, TypeOK, Same, clicks
<1> QED
  BY <1>1, <1>2, <1>3

\* What a handler's step does to the favorites.
LEMMA HandlerSteps ==
  ASSUME TypeOK, NEW m \in Toggles, Handle(m)
  PROVE  /\ UNCHANGED <<tracks, clicks, cache, shown, fetch, before, outcome, doubt>>
         /\ \A o \in Toggles \ {m} : Same(o)
         /\ pc[m] \in {"check", "insert", "remove"}
         /\ \/ liked' = liked /\ pc'[m] = "error"
            \/ liked' = liked /\ pc[m] = "check" /\ pc'[m] = "insert"
            \/ /\ pc[m] = "insert" /\ pc'[m] = "ok" /\ track[m] \in tracks
               /\ ToSet(liked') = ToSet(liked) \cup {track[m]}
            \/ /\ pc[m] = "remove" /\ pc'[m] = "ok"
               /\ ToSet(liked') = ToSet(liked) \ {track[m]}
<1> USE DEF TypeOK
<1>1. /\ UNCHANGED <<tracks, clicks, cache, shown, fetch, before, outcome, doubt>>
      /\ pc[m] \in {"check", "insert", "remove"}
      /\ \E s : pc' = [pc EXCEPT ![m] = s]
  BY DEF Handle, CheckTrack, AddFavorite, RemoveFavorite, StatementFails, Step
<1>2. \A o \in Toggles \ {m} : Same(o)
  BY <1>1 DEF Same, clicks
<1>3. CASE liked' = liked /\ pc'[m] = "error"
  BY <1>1, <1>2, <1>3
<1>4. CASE CheckTrack(m)
  BY <1>1, <1>2, <1>4 DEF CheckTrack, StatementFails, Step
<1>5. CASE AddFavorite(m)
  <2>1. CASE track[m] \in tracks /\ Step(m, "ok") /\ Insert(track[m])
    <3>1. ToSet(liked') = ToSet(liked) \cup {track[m]}
      BY <2>1, Inserted DEF Insert
    <3> QED
      BY <1>1, <1>2, <1>5, <2>1, <3>1 DEF AddFavorite, Step
  <2>2. CASE Step(m, "error") /\ liked' = liked
    BY <1>3, <2>2 DEF Step
  <2> QED
    BY <1>5, <2>1, <2>2 DEF AddFavorite, StatementFails
<1>6. CASE RemoveFavorite(m)
  <2>1. CASE Step(m, "ok") /\ Delete(track[m])
    <3>1. ToSet(liked') = ToSet(liked) \ {track[m]}
      BY <2>1, Deleted DEF Delete
    <3> QED
      BY <1>1, <1>2, <1>6, <2>1, <3>1 DEF RemoveFavorite, Step
  <2>2. CASE Step(m, "error") /\ liked' = liked
    BY <1>3, <2>2 DEF Step
  <2> QED
    BY <1>6, <2>1, <2>2 DEF RemoveFavorite, StatementFails
<1> QED
  BY <1>4, <1>5, <1>6 DEF Handle

LEMMA DeletionSteps ==
  ASSUME TypeOK, NEW t \in Tracks, DeleteTrack(t)
  PROVE  /\ tracks' = tracks \ {t} /\ ToSet(liked') = ToSet(liked) \ {t}
         /\ UNCHANGED <<pc, clicks, cache, shown, fetch, before, outcome, doubt>>
  BY Deleted DEF DeleteTrack, Delete, TypeOK

\* The rest has to do with the cache only.
CacheStep == Render \/ Mount \/ ReceiveList \/ FetchFails \/ ListFavorites

LEMMA CacheSteps ==
  ASSUME CacheStep \/ UNCHANGED vars
  PROVE  UNCHANGED <<tracks, liked, pc, clicks, outcome>>
  BY DEF CacheStep, Render, Mount, ReceiveList, FetchFails, ListFavorites, vars, server

LEMMA KindsOfSteps ==
  ASSUME [Next]_vars
  PROVE  \/ \E m \in Toggles, t \in Tracks : Click(m, t)
         \/ \E m \in Toggles : Settle(m) \/ GiveUp(m)
         \/ \E m \in Toggles : Handle(m)
         \/ \E t \in Tracks : DeleteTrack(t)
         \/ CacheStep \/ UNCHANGED vars
  BY DEF Next, CacheStep

-----------------------------------------------------------------------------
\* Every favorite is a track of the library, in whatever order the handlers'
\* statements and the deletions of tracks are executed.
THEOREM FavoritesExistAlways == Spec => []FavoritesExist
<1>1. Init => FavoritesExist
  <2> SUFFICES ASSUME Init PROVE FavoritesExist
    OBVIOUS
  <2>1. liked \in Seq(Tracks) /\ tracks = Tracks
    BY ListsOfTracks DEF Init
  <2> QED
    BY <2>1, ElementsIn DEF FavoritesExist
<1>2. TypeOK /\ FavoritesExist /\ [Next]_vars => FavoritesExist'
  <2> SUFFICES ASSUME TypeOK, FavoritesExist, [Next]_vars PROVE FavoritesExist'
    OBVIOUS
  <2>1. ASSUME UNCHANGED <<tracks, liked>> PROVE FavoritesExist'
    BY <2>1 DEF FavoritesExist
  <2>2. ASSUME NEW m \in Toggles, NEW t \in Tracks, Click(m, t) PROVE FavoritesExist'
    BY <2>1, <2>2, TabSteps
  <2>3. ASSUME NEW m \in Toggles, Settle(m) \/ GiveUp(m) PROVE FavoritesExist'
    BY <2>1, <2>3 DEF Settle, GiveUp, server
  <2>4. ASSUME NEW m \in Toggles, Handle(m) PROVE FavoritesExist'
    BY <2>4, HandlerSteps DEF FavoritesExist
  <2>5. ASSUME NEW t \in Tracks, DeleteTrack(t) PROVE FavoritesExist'
    BY <2>5, DeletionSteps DEF FavoritesExist
  <2>6. CASE CacheStep \/ UNCHANGED vars
    BY <2>1, <2>6, CacheSteps
  <2> QED
    BY <2>2, <2>3, <2>4, <2>5, <2>6, KindsOfSteps
<1> QED
  BY <1>1, <1>2, TypeCorrect, PTL DEF Spec

-----------------------------------------------------------------------------
\* What a toggle's request asks for, and how far tab and server have come with it.
Waits(m) ==
    /\ outcome[m] = "none" => pc[m] = "idle" /\ track[m] = Nil
    /\ outcome[m] = "ok" => pc[m] = "ok"
    /\ pc[m] \in {"check", "insert"} => like[m]
    /\ pc[m] = "remove" => ~like[m]

\* Unless its toggles are muddled, the latest of a track is the only one that may
\* still have a statement to execute; when it has succeeded, it shows.
Latest(t) ==
    /\ last[t] # Nil => track[last[t]] = t
    /\ t \notin muddled => \A o \in Toggles : track[o] = t /\ o # last[t] => Over(o)
    /\ t \in tracks \ muddled /\ last[t] # Nil /\ pc[last[t]] = "ok" =>
           (t \in ToSet(liked) <=> like[last[t]])

LastInv == (\A m \in Toggles : Waits(m)) /\ \A t \in Tracks : Latest(t)

LEMMA LastInit ==
  ASSUME Init
  PROVE  LastInv
  BY NilAssumption DEF Init, LastInv, Waits, Latest

\* A toggle that is over stays so, and the others are not concerned.
LEMMA OverStays ==
  ASSUME NEW o, Same(o), Over(o)
  PROVE  Over(o)'
  BY DEF Same, Over

LEMMA LastClick ==
  ASSUME TypeOK, LastInv, NEW m \in Toggles, NEW t \in Tracks, Click(m, t)
  PROVE  LastInv'
<1> USE DEF TypeOK
<1>1. UNCHANGED <<tracks, liked>> /\ \A o \in Toggles \ {m} : Same(o)
  BY TabSteps
<1>2. /\ outcome[m] = "none" /\ outcome'[m] = "waiting" /\ track'[m] = t
      /\ pc'[m] = FirstStep(t \in shown) /\ like'[m] = (t \notin shown)
      /\ last' = [last EXCEPT ![t] = m]
  BY DEF Click
<1>3. track[m] = Nil /\ m # Nil
  BY <1>2, NilAssumption DEF LastInv, Waits
<1>4. /\ muddled \subseteq muddled' /\ muddled' \subseteq muddled \cup {t}
      /\ t \notin muddled' => \A o \in Toggles : track[o] = t => Over(o)
  BY DEF Click
<1>5. ASSUME NEW o \in Toggles PROVE Waits(o)'
  <2>1. CASE o = m
    BY <1>2, <2>1 DEF Waits, FirstStep
  <2>2. CASE o # m
    BY <1>1, <2>2 DEF LastInv, Waits, Same
  <2> QED
    BY <2>1, <2>2
<1>6. ASSUME NEW u \in Tracks PROVE Latest(u)'
  <2>1. CASE u = t
    <3>1. last'[u] = m /\ track'[m] = u /\ pc'[m] # "ok"
      BY <1>2, <2>1 DEF FirstStep
    <3>2. ASSUME u \notin muddled', NEW o \in Toggles, track'[o] = u, o # m
          PROVE  Over(o)'
      BY <1>1, <1>4, <2>1, <3>2, OverStays DEF Same
    <3> QED
      BY <3>1, <3>2 DEF Latest
  <2>2. CASE u # t
    <3>1. last'[u] = last[u] /\ (u \in muddled' <=> u \in muddled)
      BY <1>2, <1>4, <2>2
    <3>2. last[u] # Nil => last[u] \in Toggles /\ track[last[u]] = u /\ last[u] # m
      BY <1>3, NilAssumption DEF LastInv, Latest
    <3>3. ASSUME u \notin muddled', NEW o \in Toggles, track'[o] = u, o # last[u]
          PROVE  Over(o)'
      <4>1. o # m
        BY <1>2, <2>2, <3>3
      <4> QED
        BY <1>1, <3>1, <3>3, <4>1, OverStays DEF Same, LastInv, Latest
    <3>4. last[u] # Nil => Same(last[u])
      BY <1>1, <3>2
    <3> QED
      BY <1>1, <3>1, <3>2, <3>3, <3>4 DEF Same, LastInv, Latest
  <2> QED
    BY <2>1, <2>2
<1> QED
  BY <1>5, <1>6 DEF LastInv

LEMMA LastSettle ==
  ASSUME TypeOK, LastInv, NEW m \in Toggles, Settle(m) \/ GiveUp(m)
  PROVE  LastInv'
<1> USE DEF TypeOK
<1>1. UNCHANGED <<tracks, liked, clicks>> /\ outcome[m] = "waiting"
  BY DEF Settle, GiveUp, server
<1>2. \A o \in Toggles \ {m} : Same(o)
  BY DEF Settle, GiveUp, Failed, End, Same, server, clicks
<1>3. /\ outcome'[m] \in {"ok", "error"} /\ (outcome'[m] = "ok" => pc[m] = "ok" /\ pc'[m] = "ok")
      /\ pc'[m] \in {pc[m], "dropped"}
  BY DEF Settle, GiveUp, Failed, End, server
<1>4. ASSUME NEW o \in Toggles PROVE Waits(o)'
  <2>1. CASE o = m
    BY <1>1, <1>3, <2>1 DEF LastInv, Waits, clicks
  <2>2. CASE o # m
    BY <1>2, <2>2 DEF LastInv, Waits, Same
  <2> QED
    BY <2>1, <2>2
<1>5. ASSUME NEW u \in Tracks PROVE Latest(u)'
  <2>1. \A o \in Toggles : Over(o) => Over(o)'
    BY <1>1, <1>2, OverStays DEF Over
  <2>2. \A o \in Toggles : pc'[o] = "ok" => pc[o] = "ok"
    BY <1>2, <1>3 DEF Same
  <2>3. last[u] # Nil => last[u] \in Toggles
    OBVIOUS
  <2> QED
    BY <1>1, <2>1, <2>2, <2>3 DEF LastInv, Latest, clicks
<1> QED
  BY <1>4, <1>5 DEF LastInv

LEMMA LastHandle ==
  ASSUME TypeOK, LastInv, NEW m \in Toggles, Handle(m)
  PROVE  LastInv'
<1> USE DEF TypeOK
<1>1. /\ UNCHANGED <<tracks, clicks, outcome>>
      /\ \A o \in Toggles \ {m} : Same(o)
      /\ pc[m] \in {"check", "insert", "remove"}
  BY HandlerSteps
<1>2. ~Over(m)
  BY <1>1 DEF Over
<1>3. outcome[m] \notin {"none", "ok"}
  BY <1>1 DEF LastInv, Waits
<1>4. ASSUME NEW o \in Toggles PROVE Waits(o)'
  <2>1. CASE o = m
    <3>1. \/ pc'[m] = "error" \/ pc'[m] = "ok"
          \/ pc[m] = "check" /\ pc'[m] = "insert"
      BY HandlerSteps
    <3> QED
      BY <1>1, <1>3, <2>1, <3>1 DEF LastInv, Waits, clicks
  <2>2. CASE o # m
    BY <1>1, <2>2 DEF LastInv, Waits, Same
  <2> QED
    BY <2>1, <2>2
<1>5. ASSUME NEW u \in Tracks PROVE Latest(u)'
  <2>1. \A o \in Toggles : Over(o) => Over(o)'
    BY <1>1, <1>2, OverStays
  <2>2. last[u] # Nil => last[u] \in Toggles /\ track[last[u]] = u
    BY DEF LastInv, Latest
  <2>3. ASSUME u \in tracks \ muddled, last[u] # Nil, pc'[last[u]] = "ok"
        PROVE  u \in ToSet(liked') <=> like[last[u]]
    <3>1. CASE last[u] = m
      <4>1. \/ pc[m] = "insert" /\ ToSet(liked') = ToSet(liked) \cup {u}
            \/ pc[m] = "remove" /\ ToSet(liked') = ToSet(liked) \ {u}
        BY <2>2, <2>3, <3>1, HandlerSteps
      <4> QED
        BY <3>1, <4>1 DEF LastInv, Waits
    <3>2. CASE last[u] # m
      <4>1. track[m] # u
        BY <1>2, <2>3, <3>2 DEF LastInv, Latest
      <4>2. u \in ToSet(liked') <=> u \in ToSet(liked)
        BY <4>1, HandlerSteps
      <4>3. pc[last[u]] = "ok"
        BY <1>1, <2>2, <2>3, <3>2 DEF Same
      <4> QED
        BY <2>3, <4>2, <4>3 DEF LastInv, Latest
    <3> QED
      BY <3>1, <3>2
  <2> QED
    BY <1>1, <2>1, <2>2, <2>3 DEF LastInv, Latest, clicks
<1> QED
  BY <1>4, <1>5 DEF LastInv

LEMMA LastOthers ==
  ASSUME TypeOK, LastInv,
         (\E t \in Tracks : DeleteTrack(t)) \/ CacheStep \/ UNCHANGED vars
  PROVE  LastInv'
<1>1. UNCHANGED <<pc, clicks, outcome>>
  BY DeletionSteps, CacheSteps
<1>2. /\ tracks' \subseteq tracks
      /\ \A t \in tracks' : t \in ToSet(liked') <=> t \in ToSet(liked)
  <2>1. CASE \E t \in Tracks : DeleteTrack(t)
    BY <2>1, DeletionSteps
  <2>2. CASE CacheStep \/ UNCHANGED vars
    BY <2>2, CacheSteps
  <2> QED
    BY <2>1, <2>2
<1>3. \A o \in Toggles : Over(o) => Over(o)'
  BY <1>1 DEF Over
<1>4. ASSUME NEW o \in Toggles PROVE Waits(o)'
  BY <1>1 DEF LastInv, Waits, clicks
<1>5. ASSUME NEW u \in Tracks PROVE Latest(u)'
  BY <1>1, <1>2, <1>3 DEF LastInv, Latest, clicks
<1> QED
  BY <1>4, <1>5 DEF LastInv

\* The last toggle of a track decides whatever else is toggled, given up, refused
\* or deleted, for any number of toggles and tracks.
THEOREM LastToggleWinsAlways == Spec => []LastToggleWins
<1>1. Init => LastInv
  BY LastInit
<1>2. TypeOK /\ LastInv /\ [Next]_vars => LastInv'
  BY LastClick, LastSettle, LastHandle, LastOthers, KindsOfSteps
<1>3. TypeOK /\ LastInv => LastToggleWins
  <2> SUFFICES ASSUME TypeOK, LastInv, NEW t \in tracks \ muddled,
                      last[t] # Nil, outcome[last[t]] = "ok"
               PROVE  Contains(liked, t) = like[last[t]]
    BY DEF LastToggleWins
  <2>1. last[t] \in Toggles /\ t \in Tracks
    BY DEF TypeOK
  <2>2. t \in ToSet(liked) <=> like[last[t]]
    BY <2>1 DEF LastInv, Waits, Latest
  <2>3. Contains(liked, t) <=> t \in ToSet(liked)
    BY ContainsElement DEF TypeOK
  <2>4. like[last[t]] \in BOOLEAN /\ Contains(liked, t) \in BOOLEAN
    BY <2>1 DEF TypeOK, Contains
  <2> QED
    BY <2>2, <2>3, <2>4
<1> QED
  BY <1>1, <1>2, <1>3, TypeCorrect, PTL DEF Spec

-----------------------------------------------------------------------------
\* The list agrees with the table, unless a toggle is about.
Current(list) == (\A m \in Toggles : Over(m)) => Only(list, tracks) = liked

\* Unless in doubt, a toggle that the tab has done with is over on the server, so
\* the fetch that is asked for then comes after the last statement.
CacheInv ==
    ~doubt =>
        /\ \A m \in Toggles : outcome[m] # "waiting" => Over(m)
        /\ fetch.stage = "read" => Current(fetch.list)
        /\ fetch.stage = "none" /\ cache # Nil => Current(cache)

LEMMA CacheInit ==
  ASSUME Init
  PROVE  CacheInv
  BY DEF Init, CacheInv, Over, Fetch

LEMMA CacheClick ==
  ASSUME TypeOK, CacheInv, NEW m \in Toggles, NEW t \in Tracks, Click(m, t)
  PROVE  CacheInv'
<1>1. /\ doubt' = doubt /\ fetch'.stage = "none" /\ outcome'[m] = "waiting"
      /\ \A o \in Toggles \ {m} : Same(o)
  BY TabSteps DEF Click, Fetch, TypeOK
<1>2. ~Over(m)'
  BY <1>1 DEF Over
<1>3. \A o \in Toggles : ~doubt' /\ outcome'[o] # "waiting" => Over(o)'
  BY <1>1, OverStays DEF Same, CacheInv
<1> QED
  BY <1>1, <1>2, <1>3 DEF CacheInv, Current

LEMMA CacheSettle ==
  ASSUME TypeOK, CacheInv, NEW m \in Toggles, Settle(m) \/ GiveUp(m)
  PROVE  CacheInv'
<1> USE DEF TypeOK
<1>1. /\ fetch'.stage = "asked" /\ (doubt => doubt')
      /\ outcome'[m] \in {"ok", "error"}
      /\ doubt' = TRUE \/ pc'[m] \in {"ok", "error", "dropped"}
  <2>1. CASE Settle(m)
    BY <2>1 DEF Settle, Failed, End, Fetch, server
  <2>2. CASE GiveUp(m)
    BY <2>2 DEF GiveUp, Failed, End, Fetch
  <2> QED
    BY <2>1, <2>2
<1>2. \A o \in Toggles \ {m} : Same(o)
  BY DEF Settle, GiveUp, Failed, End, Same, server, clicks
<1>3. ASSUME ~doubt', NEW o \in Toggles, outcome'[o] # "waiting"
      PROVE  Over(o)'
  <2>1. CASE o = m
    BY <1>1, <1>3, <2>1 DEF Over
  <2>2. CASE o # m
    <3>1. Same(o) /\ ~doubt
      BY <1>1, <1>2, <1>3, <2>2
    <3> QED
      BY <1>3, <3>1, OverStays DEF Same, CacheInv
  <2> QED
    BY <2>1, <2>2
<1> QED
  BY <1>1, <1>3 DEF CacheInv

LEMMA CacheHandle ==
  ASSUME TypeOK, CacheInv, NEW m \in Toggles, Handle(m)
  PROVE  CacheInv'
<1>1. /\ UNCHANGED <<cache, fetch, outcome, doubt>>
      /\ \A o \in Toggles \ {m} : Same(o)
      /\ pc[m] \in {"check", "insert", "remove"}
  BY HandlerSteps
<1>2. ~doubt => outcome[m] = "waiting"
  BY <1>1 DEF CacheInv, Over
<1>3. ~doubt => ~Over(m)'
  BY <1>1, <1>2 DEF Over
<1>4. \A o \in Toggles : ~doubt' /\ outcome'[o] # "waiting" => Over(o)'
  BY <1>1, <1>2, OverStays DEF Same, CacheInv
<1> QED
  BY <1>1, <1>3, <1>4 DEF CacheInv, Current

\* The list and the table lose the same row.
LEMMA CacheDelete ==
  ASSUME TypeOK, FavoritesExist, CacheInv, NEW t \in Tracks, DeleteTrack(t)
  PROVE  CacheInv'
<1>1. UNCHANGED <<pc, cache, fetch, outcome, doubt>> /\ tracks' = tracks \ {t}
  BY DeletionSteps
<1>2. \A o \in Toggles : Over(o)' <=> Over(o)
  BY <1>1 DEF Over
<1>3. ASSUME NEW list \in Seq(Tracks), Only(list, tracks) = liked
      PROVE  Only(list, tracks') = liked'
  <2>1. Only(liked, tracks') = Only(list, tracks')
    <3>1. tracks \cap tracks' = tracks'
      BY <1>1
    <3> QED
      BY <1>3, <3>1, OnlyTwice
  <2>2. ToSet(liked) \cap tracks' = ToSet(liked) \cap (Tracks \ {t})
    BY <1>1, ElementsIn DEF TypeOK, FavoritesExist
  <2>3. Only(liked, tracks') = Only(liked, Tracks \ {t})
    BY <2>2, OnlySame DEF TypeOK
  <2> QED
    BY <2>1, <2>3 DEF DeleteTrack, Delete
<1>4. ASSUME NEW list \in Seq(Tracks), Current(list) PROVE Current(list)'
  BY <1>2, <1>3, <1>4 DEF Current
<1> QED
  BY <1>1, <1>2, <1>4 DEF CacheInv, TypeOK

LEMMA CacheOthers ==
  ASSUME TypeOK, FavoritesExist, CacheInv, CacheStep \/ UNCHANGED vars
  PROVE  CacheInv'
<1>1. UNCHANGED <<tracks, liked, pc, outcome>>
  BY CacheSteps DEF clicks
<1>2. \A o \in Toggles : Over(o)' <=> Over(o)
  BY <1>1 DEF Over
<1>3. ASSUME NEW list, Current(list) PROVE Current(list)'
  BY <1>1, <1>2, <1>3 DEF Current
<1>4. CASE Render \/ UNCHANGED vars
  BY <1>2, <1>3, <1>4 DEF Render, vars, CacheInv
<1>5. CASE Mount
  BY <1>2, <1>5 DEF Mount, Fetch, CacheInv
<1>6. CASE FetchFails
  BY <1>6 DEF FetchFails, CacheInv
<1>7. CASE ReceiveList
  BY <1>2, <1>3, <1>7 DEF ReceiveList, Fetch, CacheInv
<1>8. CASE ListFavorites
  <2>1. Only(liked, tracks) = liked
    BY OnlyAll DEF TypeOK, FavoritesExist
  <2>2. ASSUME ~doubt', NEW o \in Toggles, outcome'[o] # "waiting"
        PROVE  Over(o)'
    <3>1. ~doubt \/ ~RunsOn(o)
      BY <1>8, <2>2, Zenon DEF ListFavorites
    <3> QED
      BY <1>1, <1>2, <2>2, <3>1 DEF CacheInv, RunsOn
  <2>3. fetch' = [stage |-> "read", list |-> liked]
    BY <1>8 DEF ListFavorites, Fetch, Listed
  <2>4. Current(fetch.list)' /\ fetch'.stage = "read"
    BY <1>1, <2>1, <2>3 DEF Current
  <2> QED
    BY <2>2, <2>4 DEF CacheInv
<1> QED
  BY <1>4, <1>5, <1>6, <1>7, <1>8 DEF CacheStep

\* The cached list is the server's again whenever everything has come to rest,
\* for any number of toggles, rollbacks and fetches in any order, once a fetch
\* has read the table after the last one that failed and the last request that
\* ran on after the tab gave it up.
THEOREM CacheAgreesAlways == Spec => []CacheAgrees
<1>1. Init => CacheInv
  BY CacheInit
<1>2. TypeOK /\ FavoritesExist /\ CacheInv /\ [Next]_vars => CacheInv'
  BY CacheClick, CacheSettle, CacheHandle, CacheDelete, CacheOthers, KindsOfSteps
<1>3. CacheInv => CacheAgrees
  BY DEF CacheInv, Current, CacheAgrees
<1> QED
  BY <1>1, <1>2, <1>3, TypeCorrect, FavoritesExistAlways, PTL DEF Spec

=============================================================================
