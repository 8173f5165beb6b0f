------------------------- MODULE ClientManagerProofs -------------------------
(***************************************************************************)
(* Proofs about ClientManager, for any sets of connections, databases,     *)
(* handlers, clients and timestamps.                                       *)
(*                                                                         *)
(* The argument: every client that is open has exactly one owner, either a *)
(* key of the table or the Add that dialled it; ownership passes from one  *)
(* to the other only in AddInstall, under the write lock.  While no two    *)
(* handlers work on one connection, its clients agree with its row unless  *)
(* a handler is about to switch them, and every handler's copy of the row  *)
(* is as good as the row: nobody else writes it.                           *)
(***************************************************************************)
EXTENDS ClientManager, TLAPS

\* The key and the row an idle handler is given have the right type.
LEMMA NoKeyType == NoKey \in Key /\ NoKey[1] \in Conn /\ NoKey[2] \in Db
<1>1. Key # {}
  <2>1. PICK c \in Conn, d \in Db : TRUE
    BY KeyAssumption
  <2>2. <<c, d>> \in Key
    BY DEF Key
  <2>. QED
    BY <2>2
<1>2. NoKey \in Key
  BY <1>1 DEF NoKey
<1>. QED
  BY <1>2 DEF Key

LEMMA NoRowType == NoRow \in Row
  BY NoKeyType DEF NoRow, Row, VerOrNone

LEMMA IdleType == Idle \in Frame /\ Idle.own = None /\ Idle.at = "idle"
  BY NoKeyType, NoRowType DEF Idle, Frame, Steps, VerOrNone

LEMMA NoFieldsType == NoFields \in Fields
  BY DEF NoFields, Fields, VerOrNone

LEMMA KeyParts == \A k \in Key : k = <<k[1], k[2]>> /\ k[1] \in Conn /\ k[2] \in Db
  BY DEF Key

\* Stamping a row keeps it a row.
LEMMA StampType == \A r \in Row, v \in Ver : [r EXCEPT !.updatedAt = v] \in Row
  BY DEF Row, VerOrNone

\* The parts of a handler's frame.
LEMMA FrameParts ==
  ASSUME TypeOK, NEW p \in Proc
  PROVE  /\ frame[p] \in Frame
         /\ frame[p].cfg \in Row
         /\ frame[p].key \in Key
         /\ frame[p].key[1] \in Conn
         /\ frame[p].key[2] \in Db
<1>1. frame[p] \in Frame
  BY DEF TypeOK
<1>2. frame[p].cfg \in Row /\ frame[p].key \in Key
  BY <1>1 DEF Frame
<1>. QED
  BY <1>1, <1>2, KeyParts

\* The initial states are typed.
LEMMA InitTypeOK == Init => TypeOK
<1>. SUFFICES ASSUME Init PROVE TypeOK
  OBVIOUS
<1>. PICK v \in Ver : /\ profile = v
                      /\ row \in [Conn -> {NoRow} \cup
                           [st : {"live"}, readOnly : BOOLEAN, lastDb : Db, updatedAt : {v}]]
  BY DEF Init
<1>1. row \in [Conn -> Row]
  BY NoRowType DEF Row, VerOrNone
<1>2. frame \in [Proc -> Frame]
  BY IdleType DEF Init
<1>3. client \in [Client -> Fields]
  BY NoFieldsType DEF Init
<1>. QED
  BY <1>1, <1>2, <1>3 DEF Init, TypeOK

-----------------------------------------------------------------------------
(* Type correctness: one step per action *)

LEMMA BecomeType ==
  ASSUME TypeOK, NEW p \in Proc, NEW f \in Frame, Become(p, f)
  PROVE  frame' \in [Proc -> Frame]
BY DEF TypeOK, Become

LEMMA ReturnType ==
  ASSUME TypeOK, NEW p \in Proc, Return(p)
  PROVE  frame' \in [Proc -> Frame]
BY IdleType, BecomeType DEF Return

LEMMA GotoType ==
  ASSUME TypeOK, NEW p \in Proc, NEW s \in Steps, Goto(p, s)
  PROVE  frame' \in [Proc -> Frame]
BY DEF TypeOK, Goto, Become, Frame

LEMMA CloseKeysType ==
  ASSUME TypeOK, NEW K, CloseKeys(K)
  PROVE  /\ cache' \in [Key -> Client \cup {None}]
         /\ open' \in SUBSET Client
         /\ client' \in [Client -> Fields]
<1>1. cache' \in [Key -> Client \cup {None}]
  BY DEF TypeOK, CloseKeys
<1>2. open' \in SUBSET Client
  BY DEF TypeOK, CloseKeys
<1>3. client' \in [Client -> Fields]
  BY NoFieldsType DEF TypeOK, CloseKeys
<1>. QED
  BY <1>1, <1>2, <1>3

LEMMA TypeStep == TypeOK /\ [Next]_vars => TypeOK'
<1>. SUFFICES ASSUME TypeOK, [Next]_vars PROVE TypeOK'
  OBVIOUS
<1>. USE DEF TypeOK
<1>1. ASSUME NEW p \in Proc, NEW k \in Key, ConnectFindOne(p, k) PROVE TypeOK'
  <2>1. [frame[p] EXCEPT !.at = "profile", !.key = k, !.cfg = row[k[1]]] \in Frame
    BY KeyParts DEF Frame, Steps
  <2>2. frame' \in [Proc -> Frame]
    BY <1>1, <2>1, BecomeType DEF ConnectFindOne
  <2>. QED
    BY <1>1, <2>2 DEF ConnectFindOne
<1>2. ASSUME NEW p \in Proc, ConnectFindProfile(p) PROVE TypeOK'
  <2>1. \A s \in Steps, v \in VerOrNone : [frame[p] EXCEPT !.at = s, !.prof = v] \in Frame
    BY DEF Frame
  <2>2. PICK s \in Steps, v \in VerOrNone : Become(p, [frame[p] EXCEPT !.at = s, !.prof = v])
    BY <1>2 DEF ConnectFindProfile, Steps, VerOrNone
  <2>3. frame' \in [Proc -> Frame]
    BY <2>1, <2>2, BecomeType
  <2>. QED
    BY <1>2, <2>3 DEF ConnectFindProfile
<1>3. ASSUME NEW p \in Proc, ConnectUpdate(p) PROVE TypeOK'
  <2>1. PICK v \in Ver : LET f == frame[p]
                           new == [f.cfg EXCEPT !.lastDb = f.key[2], !.updatedAt = v] IN
             /\ row' = [row EXCEPT ![f.key[1]] = new]
             /\ Become(p, [f EXCEPT !.at = "lookup", !.cfg = new])
    BY <1>3 DEF ConnectUpdate, FreshVer
  <2>2. frame[p] \in Frame /\ frame[p].key[1] \in Conn /\ frame[p].key[2] \in Db
    BY KeyParts DEF Frame
  <2>3. [frame[p].cfg EXCEPT !.lastDb = frame[p].key[2], !.updatedAt = v] \in Row
    BY <2>2 DEF Frame, Row, VerOrNone
  <2>4. row' \in [Conn -> Row]
    BY <2>1, <2>2, <2>3
  <2>5. frame' \in [Proc -> Frame]
    BY <2>1, <2>2, <2>3 DEF Become, Frame, Steps
  <2>. QED
    BY <1>3, <2>4, <2>5 DEF ConnectUpdate
<1>4. ASSUME NEW p \in Proc, AddLookup(p) PROVE TypeOK'
  BY <1>4, ReturnType, GotoType DEF AddLookup, Steps
<1>5. ASSUME NEW p \in Proc, AddRemove(p) PROVE TypeOK'
  BY <1>5, CloseKeysType, GotoType DEF AddRemove, Steps
<1>6. ASSUME NEW p \in Proc, NEW i \in Client, AddInit(p, i) PROVE TypeOK'
  <2>1. frame[p] \in Frame
    OBVIOUS
  <2>2. frame' \in [Proc -> Frame]
    BY <1>6, <2>1 DEF AddInit, Become, Frame, Steps
  <2>3. client' \in [Client -> Fields]
    BY <1>6, <2>1 DEF AddInit, Frame, Row, Fields
  <2>. QED
    BY <1>6, <2>2, <2>3 DEF AddInit
<1>7. ASSUME NEW p \in Proc, AddInitFails(p) PROVE TypeOK'
  BY <1>7, ReturnType DEF AddInitFails
<1>8. ASSUME NEW p \in Proc, AddInstall(p) PROVE TypeOK'
  BY <1>8, ReturnType DEF AddInstall, Frame
<1>9. ASSUME NEW p \in Proc, AddYield(p) PROVE TypeOK'
  BY <1>9, ReturnType, NoFieldsType DEF AddYield
<1>10. ASSUME NEW p \in Proc, NEW k \in Key, Disconnect(p, k) PROVE TypeOK'
  BY <1>10, CloseKeysType DEF Disconnect
<1>11. ASSUME CloseAll PROVE TypeOK'
  BY <1>11, CloseKeysType DEF CloseAll
<1>12. ASSUME NEW p \in Proc, NEW k \in Key, NEW ro \in BOOLEAN, SetReadOnlyFindOne(p, k, ro)
       PROVE TypeOK'
  <2>0. row[k[1]] \in Row
    BY KeyParts
  <2>1. [row[k[1]] EXCEPT !.readOnly = ro, !.updatedAt = NoVer] \in Row
    BY <2>0 DEF Row, VerOrNone
  <2>2. PICK s \in Steps, r \in Row :
          Become(p, [frame[p] EXCEPT !.at = s, !.key = k, !.want = ro, !.cfg = r])
    BY <1>12, <2>1 DEF SetReadOnlyFindOne, Steps
  <2>3. [frame[p] EXCEPT !.at = s, !.key = k, !.want = ro, !.cfg = r] \in Frame
    BY DEF Frame
  <2>4. frame' \in [Proc -> Frame]
    BY <2>2, <2>3, BecomeType
  <2>. QED
    BY <1>12, <2>4 DEF SetReadOnlyFindOne
<1>13. ASSUME NEW p \in Proc, WriteRow(p) PROVE TypeOK'
  <2>1. PICK v \in Ver :
          /\ row' = [row EXCEPT ![frame[p].key[1]] = [frame[p].cfg EXCEPT !.updatedAt = v]]
          /\ Become(p, [frame[p] EXCEPT !.at = "rlock", !.cfg = NoRow])
    BY <1>13 DEF WriteRow, FreshVer
  <2>2. [frame[p].cfg EXCEPT !.updatedAt = v] \in Row
    BY FrameParts, StampType
  <2>3. row' \in [Conn -> Row]
    BY <2>1, <2>2, FrameParts
  <2>4. [frame[p] EXCEPT !.at = "rlock", !.cfg = NoRow] \in Frame
    BY FrameParts, NoRowType DEF Frame, Steps
  <2>5. frame' \in [Proc -> Frame]
    BY <2>1, <2>4, BecomeType
  <2>. QED
    BY <1>13, <2>3, <2>5 DEF WriteRow
<1>14. ASSUME NEW p \in Proc, SweepBegin(p) PROVE TypeOK'
  <2>1. \A S \in SUBSET Client :
          [frame[p] EXCEPT !.at = "sweep", !.cfg = NoRow, !.todo = S] \in Frame
    BY NoRowType DEF Frame, Steps
  <2>2. CachedOf(frame[p].key[1]) \in SUBSET Client
    BY DEF CachedOf
  <2>3. frame' \in [Proc -> Frame]
    BY <1>14, <2>1, <2>2, BecomeType DEF SweepBegin
  <2>. QED
    BY <1>14, <2>3 DEF SweepBegin
<1>15. ASSUME NEW p \in Proc, NEW i \in Client, SweepStore(p, i) PROVE TypeOK'
  <2>1. frame' \in [Proc -> Frame]
    BY <1>15 DEF SweepStore, Become, Frame
  <2>2. client' \in [Client -> Fields]
    BY <1>15 DEF SweepStore, Frame, Fields
  <2>. QED
    BY <1>15, <2>1, <2>2 DEF SweepStore
<1>16. ASSUME NEW p \in Proc, SweepEnd(p) PROVE TypeOK'
  BY <1>16, ReturnType DEF SweepEnd
<1>17. ASSUME NEW p \in Proc, NEW k \in Key, NEW ro \in BOOLEAN, UpsertFindOne(p, k, ro)
       PROVE TypeOK'
  <2>1. [st |-> "live", readOnly |-> ro, lastDb |-> k[2], updatedAt |-> NoVer] \in Row
    BY KeyParts DEF Row, VerOrNone
  <2>2. PICK s \in Steps, r \in Row :
          Become(p, [frame[p] EXCEPT !.at = s, !.key = k, !.want = ro, !.cfg = r])
    BY <1>17, <2>1 DEF UpsertFindOne, Steps
  <2>3. [frame[p] EXCEPT !.at = s, !.key = k, !.want = ro, !.cfg = r] \in Frame
    BY DEF Frame
  <2>4. frame' \in [Proc -> Frame]
    BY <2>2, <2>3, BecomeType
  <2>. QED
    BY <1>17, <2>4 DEF UpsertFindOne
<1>18. ASSUME NEW p \in Proc, UpsertInsert(p) PROVE TypeOK'
  <2>1. row' \in [Conn -> Row]
    <3>1. CASE UNCHANGED row
      BY <3>1
    <3>2. ASSUME NEW v \in FreshVer,
                 row' = [row EXCEPT ![frame[p].key[1]] = [frame[p].cfg EXCEPT !.updatedAt = v]]
          PROVE  row' \in [Conn -> Row]
      <4>1. [frame[p].cfg EXCEPT !.updatedAt = v] \in Row
        BY FrameParts, StampType DEF FreshVer
      <4>. QED
        BY <3>2, <4>1, FrameParts
    <3>. QED
      BY <1>18, <3>1, <3>2 DEF UpsertInsert
  <2>. QED
    BY <1>18, <2>1, ReturnType DEF UpsertInsert
<1>19. ASSUME NEW p \in Proc, StatementFails(p) PROVE TypeOK'
  BY <1>19, ReturnType DEF StatementFails
<1>20. ASSUME NEW p \in Proc, NEW c \in Conn, Delete(p, c) PROVE TypeOK'
  BY <1>20 DEF Delete, Row
<1>21. ASSUME NEW p \in Proc, ProfileUpsert(p) PROVE TypeOK'
  BY <1>21 DEF ProfileUpsert, FreshVer
<1>22. CASE UNCHANGED vars
  BY <1>22 DEF vars
<1>. QED
  BY <1>1, <1>2, <1>3, <1>4, <1>5, <1>6, <1>7, <1>8, <1>9, <1>10, <1>11, <1>12, <1>13,
     <1>14, <1>15, <1>16, <1>17, <1>18, <1>19, <1>20, <1>21, <1>22
  DEF Next, Begin, Continue

\* Every reachable state is typed.
THEOREM TypeCorrect == Spec => []TypeOK
<1>. QED
  BY InitTypeOK, TypeStep, PTL DEF Spec

-----------------------------------------------------------------------------
(* Ownership *)

Rest == Ownership /\ OwnAtInstall /\ SweepUnderLock

LEMMA InitRest == Init => Rest
<1>. SUFFICES ASSUME Init PROVE Rest
  OBVIOUS
<1>1. \A p \in Proc : frame[p] = Idle
  BY DEF Init
<1>2. Ownership
  BY <1>1, IdleType DEF Init, Ownership, CachedOpen, OneKey, OwnedOpen, OneOwner, NoLeak
<1>3. OwnAtInstall
  BY <1>1, IdleType DEF OwnAtInstall, At
<1>4. SweepUnderLock
  BY <1>1, IdleType DEF SweepUnderLock, At
<1>. QED
  BY <1>2, <1>3, <1>4 DEF Rest

\* Steps that leave table and sockets alone and hand no client over.
LEMMA LocalStep ==
  ASSUME IInv, NEW p \in Proc, NEW f, Become(p, f), UNCHANGED <<cache, open>>,
         frame[p].own = None, f.own = None, f.at # "install",
         f.at = "sweep" => f.todo \subseteq CachedOf(f.key[1])
  PROVE  Rest'
<1>. USE DEF IInv
<1>1. frame'[p] = f /\ \A q \in Proc \ {p} : frame'[q] = frame[q]
  BY DEF Become, TypeOK
<1>2. Ownership'
  BY <1>1 DEF Ownership, CachedOpen, OneKey, OwnedOpen, OneOwner, NoLeak, Cached
<1>3. OwnAtInstall'
  BY <1>1 DEF OwnAtInstall, At
<1>4. SweepUnderLock'
  <2>1. \A c : CachedOf(c)' = CachedOf(c)
    BY DEF CachedOf
  <2>. QED
    BY <1>1, <2>1 DEF SweepUnderLock, At
<1>. QED
  BY <1>2, <1>3, <1>4 DEF Rest

\* Steps that close the clients of some keys, under the write lock.
LEMMA CloseStep ==
  ASSUME IInv, NEW K \in SUBSET Key, CloseKeys(K), Exclusive,
         \A q \in Proc : /\ frame'[q].own = frame[q].own
                         /\ At(q, "install")' <=> At(q, "install")
                         /\ At(q, "sweep")' => At(q, "sweep")
  PROVE  Rest'
<1>. USE DEF IInv
<1>1. \A k \in Key : cache'[k] = IF k \in K THEN None ELSE cache[k]
  BY DEF CloseKeys
<1>2. \A k \in Key \ K : cache[k] # None => cache[k] \notin {cache[l] : l \in K}
  BY DEF Ownership, OneKey
<1>3. CachedOpen'
  BY <1>1, <1>2 DEF CloseKeys, CachedOpen, Ownership
<1>4. OneKey'
  BY <1>1 DEF OneKey, Ownership
<1>5. OwnedOpen'
  BY <1>1, NoneAssumption DEF OwnedOpen, Ownership, Cached, CloseKeys, TypeOK
<1>6. OneOwner'
  BY DEF OneOwner, Ownership
<1>7. NoLeak'
  BY <1>1, NoneAssumption DEF NoLeak, Ownership, Cached, CloseKeys, TypeOK
<1>8. OwnAtInstall'
  BY DEF OwnAtInstall
<1>9. SweepUnderLock'
  BY DEF SweepUnderLock, Exclusive, Readers
<1>. QED
  BY <1>3, <1>4, <1>5, <1>6, <1>7, <1>8, <1>9 DEF Rest, Ownership

LEMMA InitStep ==
  ASSUME IInv, NEW p \in Proc, NEW i \in Client, AddInit(p, i)
  PROVE  Rest'
<1>. USE DEF IInv
<1>1. /\ frame'[p].own = i /\ frame'[p].at = "install"
      /\ \A q \in Proc \ {p} : frame'[q] = frame[q]
  BY DEF AddInit, Become, TypeOK, Frame
<1>2. i \notin open /\ open' = open \cup {i} /\ cache' = cache /\ i # None
  BY NoneAssumption DEF AddInit
<1>3. ~Cached(i) /\ \A q \in Proc : frame[q].own # i
  BY <1>2 DEF Ownership, CachedOpen, OwnedOpen, Cached
<1>4. frame[p].own = None
  BY DEF AddInit, OwnAtInstall, At
<1>5. Ownership'
  <2>1. CachedOpen' /\ OneKey'
    BY <1>2 DEF Ownership, CachedOpen, OneKey
  <2>2. OwnedOpen'
    BY <1>1, <1>2, <1>3 DEF Ownership, OwnedOpen, Cached
  <2>3. OneOwner'
    BY <1>1, <1>2, <1>3 DEF Ownership, OneOwner
  <2>4. NoLeak'
    BY <1>1, <1>2, <1>4, NoneAssumption DEF Ownership, NoLeak, Cached, TypeOK
  <2>. QED
    BY <2>1, <2>2, <2>3, <2>4 DEF Ownership
<1>6. OwnAtInstall'
  BY <1>1, <1>2 DEF OwnAtInstall, At
<1>7. SweepUnderLock'
  <2>1. \A c : CachedOf(c)' = CachedOf(c)
    BY <1>2 DEF CachedOf
  <2>. QED
    BY <1>1, <2>1 DEF SweepUnderLock, At
<1>. QED
  BY <1>5, <1>6, <1>7 DEF Rest

LEMMA InstallStep ==
  ASSUME IInv, NEW p \in Proc, AddInstall(p)
  PROVE  Rest'
<1>. USE DEF IInv
<1>. DEFINE i == frame[p].own
            k == frame[p].key
<1>1. /\ frame'[p] = Idle
      /\ \A q \in Proc \ {p} : frame'[q] = frame[q]
  BY DEF AddInstall, Return, Become, TypeOK
<1>2. i # None /\ i \in Client /\ k \in Key
  BY DEF AddInstall, OwnAtInstall, TypeOK, Frame
<1>3. /\ cache[k] = None /\ cache'[k] = i
      /\ \A l \in Key \ {k} : cache'[l] = cache[l]
      /\ open' = open
  BY <1>2 DEF AddInstall, TypeOK
<1>4. i \in open /\ ~Cached(i) /\ \A q \in Proc \ {p} : frame[q].own # i
  BY <1>2 DEF Ownership, OwnedOpen, OneOwner
<1>5. \A j : (\E l \in Key : cache[l] = j) => j = None \/ \E l \in Key : cache'[l] = j
  BY <1>3
<1>6. \E l \in Key : cache'[l] = i
  BY <1>2, <1>3
<1>7. CachedOpen'
  BY <1>3, <1>4 DEF CachedOpen, Ownership
<1>8. OneKey'
  BY <1>3, <1>4 DEF OneKey, Ownership, Cached
<1>9. OwnedOpen'
  BY <1>1, <1>3, <1>4, IdleType DEF OwnedOpen, Ownership, Cached
<1>10. OneOwner'
  BY <1>1, IdleType DEF OneOwner, Ownership
<1>11. NoLeak'
  <2>. SUFFICES ASSUME NEW j \in open
                PROVE  (\E l \in Key : cache'[l] = j) \/ \E q \in Proc : frame'[q].own = j
    BY <1>3 DEF NoLeak, Cached
  <2>1. CASE \E l \in Key : cache[l] = j
    BY <2>1, <1>5, NoneAssumption DEF TypeOK
  <2>2. ASSUME NEW q \in Proc, frame[q].own = j
        PROVE  (\E l \in Key : cache'[l] = j) \/ \E r \in Proc : frame'[r].own = j
    BY <2>2, <1>1, <1>6
  <2>. QED
    BY <2>1, <2>2 DEF NoLeak, Ownership, Cached
<1>12. OwnAtInstall'
  BY <1>1, IdleType DEF OwnAtInstall, At
<1>13. SweepUnderLock'
  BY <1>1, IdleType DEF SweepUnderLock, At, AddInstall, Exclusive, Readers
<1>. QED
  BY <1>7, <1>8, <1>9, <1>10, <1>11, <1>12, <1>13 DEF Rest, Ownership

LEMMA YieldStep ==
  ASSUME IInv, NEW p \in Proc, AddYield(p)
  PROVE  Rest'
<1>. USE DEF IInv
<1>1. /\ frame'[p] = Idle
      /\ \A q \in Proc \ {p} : frame'[q] = frame[q]
  BY DEF AddYield, Return, Become, TypeOK
<1>2. /\ open' = open \ {frame[p].own} /\ cache' = cache
      /\ frame[p].own # None
  BY DEF AddYield, OwnAtInstall
<1>3. ~Cached(frame[p].own) /\ \A q \in Proc \ {p} : frame[q].own # frame[p].own
  BY <1>2 DEF Ownership, OwnedOpen, OneOwner
<1>4. Ownership'
  BY <1>1, <1>2, <1>3, IdleType
  DEF Ownership, CachedOpen, OneKey, OwnedOpen, OneOwner, NoLeak, Cached
<1>5. OwnAtInstall'
  BY <1>1, IdleType DEF OwnAtInstall, At
<1>6. SweepUnderLock'
  <2>1. \A c : CachedOf(c)' = CachedOf(c)
    BY <1>2 DEF CachedOf
  <2>. QED
    BY <1>1, <2>1, IdleType DEF SweepUnderLock, At
<1>. QED
  BY <1>4, <1>5, <1>6 DEF Rest

LEMMA RestStep == IInv /\ [Next]_vars => Rest'
<1>. SUFFICES ASSUME IInv, [Next]_vars PROVE Rest'
  OBVIOUS
<1>0. \A p \in Proc : frame[p] \in Frame /\ (~At(p, "install") => frame[p].own = None)
  BY DEF IInv, TypeOK, OwnAtInstall
<1>1. ASSUME NEW p \in Proc, NEW k \in Key, ConnectFindOne(p, k) PROVE Rest'
  BY <1>0, <1>1, LocalStep DEF ConnectFindOne, At, Frame
<1>2. ASSUME NEW p \in Proc, ConnectFindProfile(p) PROVE Rest'
  BY <1>0, <1>2, LocalStep DEF ConnectFindProfile, At, Frame
<1>3. ASSUME NEW p \in Proc, ConnectUpdate(p) PROVE Rest'
  BY <1>0, <1>3, LocalStep DEF ConnectUpdate, At, Frame
<1>4. ASSUME NEW p \in Proc, AddLookup(p) PROVE Rest'
  BY <1>0, <1>4, LocalStep, IdleType DEF AddLookup, Goto, Return, At, Frame
<1>5. ASSUME NEW p \in Proc, AddRemove(p) PROVE Rest'
  <2>1. \A q \in Proc : /\ frame'[q].own = frame[q].own
                        /\ At(q, "install")' <=> At(q, "install")
                        /\ At(q, "sweep")' => At(q, "sweep")
    BY <1>5, <1>0 DEF AddRemove, Goto, Become, At, IInv, TypeOK, Frame
  <2>2. {frame[p].key} \in SUBSET Key
    BY <1>0 DEF Frame
  <2>. QED
    BY <1>5, <2>1, <2>2, CloseStep DEF AddRemove
<1>6. ASSUME NEW p \in Proc, NEW i \in Client, AddInit(p, i) PROVE Rest'
  BY <1>6, InitStep
<1>7. ASSUME NEW p \in Proc, AddInitFails(p) PROVE Rest'
  BY <1>0, <1>7, LocalStep, IdleType DEF AddInitFails, Return, At
<1>8. ASSUME NEW p \in Proc, AddInstall(p) PROVE Rest'
  BY <1>8, InstallStep
<1>9. ASSUME NEW p \in Proc, AddYield(p) PROVE Rest'
  BY <1>9, YieldStep
<1>10. ASSUME NEW p \in Proc, NEW k \in Key, Disconnect(p, k) PROVE Rest'
  BY <1>10, CloseStep DEF Disconnect, At
<1>11. ASSUME CloseAll PROVE Rest'
  BY <1>11, CloseStep DEF CloseAll, At
<1>12. ASSUME NEW p \in Proc, NEW k \in Key, NEW ro \in BOOLEAN, SetReadOnlyFindOne(p, k, ro)
       PROVE Rest'
  BY <1>0, <1>12, LocalStep DEF SetReadOnlyFindOne, At, Frame
<1>13. ASSUME NEW p \in Proc, WriteRow(p) PROVE Rest'
  BY <1>0, <1>13, LocalStep DEF WriteRow, At, Frame
<1>14. ASSUME NEW p \in Proc, SweepBegin(p) PROVE Rest'
  BY <1>0, <1>14, LocalStep DEF SweepBegin, At, Frame
<1>15. ASSUME NEW p \in Proc, NEW i \in Client, SweepStore(p, i) PROVE Rest'
  BY <1>0, <1>15, LocalStep DEF SweepStore, At, Frame, IInv, SweepUnderLock
<1>16. ASSUME NEW p \in Proc, SweepEnd(p) PROVE Rest'
  BY <1>0, <1>16, LocalStep, IdleType DEF SweepEnd, Return, At
<1>17. ASSUME NEW p \in Proc, NEW k \in Key, NEW ro \in BOOLEAN, UpsertFindOne(p, k, ro)
       PROVE Rest'
  BY <1>0, <1>17, LocalStep DEF UpsertFindOne, At, Frame
<1>18. ASSUME NEW p \in Proc, UpsertInsert(p) PROVE Rest'
  BY <1>0, <1>18, LocalStep, IdleType DEF UpsertInsert, Return, At
<1>19. ASSUME NEW p \in Proc, StatementFails(p) PROVE Rest'
  BY <1>0, <1>19, LocalStep, IdleType DEF StatementFails, Return, At
<1>20. ASSUME UNCHANGED <<cache, open, frame>> PROVE Rest'
  BY <1>20 DEF IInv, Rest, Ownership, CachedOpen, OneKey, OwnedOpen, OneOwner, NoLeak,
     OwnAtInstall, SweepUnderLock, At, Cached, CachedOf
<1>21. ASSUME NEW p \in Proc, NEW c \in Conn, Delete(p, c) PROVE Rest'
  BY <1>21, <1>20 DEF Delete
<1>22. ASSUME NEW p \in Proc, ProfileUpsert(p) PROVE Rest'
  BY <1>22, <1>20 DEF ProfileUpsert
<1>23. CASE UNCHANGED vars
  BY <1>23, <1>20 DEF vars
<1>. QED
  BY <1>1, <1>2, <1>3, <1>4, <1>5, <1>6, <1>7, <1>8, <1>9, <1>10, <1>11, <1>12, <1>13,
     <1>14, <1>15, <1>16, <1>17, <1>18, <1>19, <1>21, <1>22, <1>23
  DEF Next, Begin, Continue

\* The inductive invariant holds in every reachable state.
THEOREM Inductive == Spec => []IInv
<1>1. Init => IInv
  BY InitTypeOK, InitRest DEF IInv, Rest
<1>2. IInv /\ [Next]_vars => IInv'
  BY TypeStep, RestStep DEF IInv, Rest
<1>. QED
  BY <1>1, <1>2, PTL DEF Spec

\* No client is leaked, closed while it is cached, cached twice or handed to
\* two owners, whatever requests overlap (client-manager.go 66-88, 340-363).
THEOREM OwnershipHolds == Spec => []Ownership
<1>1. IInv => Ownership
  BY DEF IInv
<1>. QED
  BY <1>1, Inductive, PTL

\* The read-only sweep never meets a table that changes under it
\* (client-manager.go 328-338).
THEOREM SweepHolds == Spec => []SweepUnderLock
<1>1. IInv => SweepUnderLock
  BY DEF IInv
<1>. QED
  BY <1>1, Inductive, PTL

-----------------------------------------------------------------------------
(* The manager implements ClientRegistry *)

\* A step in which no handler takes or drops a client leaves Spare alone.
LEMMA SpareSame ==
  ASSUME NEW p \in Proc, NEW f, Become(p, f), IInv, frame[p].own = f.own
  PROVE  Spare' = Spare
<1>1. \A q \in Proc : frame'[q].own = frame[q].own
  BY DEF Become, IInv, TypeOK
<1>. QED
  BY <1>1 DEF Spare

LEMMA RetireStep ==
  ASSUME NEW K \in SUBSET Key, CloseKeys(K), Spare' = Spare
  PROVE  Registry!RNext
<1>1. Registry!Retire(K)
  BY DEF CloseKeys, Registry!Retire
<1>. QED
  BY <1>1 DEF Registry!RNext

LEMMA RegistryStep == IInv /\ [Next]_vars => [Registry!RNext]_(Registry!rvars)
<1>. SUFFICES ASSUME IInv, [Next]_vars PROVE [Registry!RNext]_(Registry!rvars)
  OBVIOUS
<1>0. \A p \in Proc : frame[p] \in Frame /\ (~At(p, "install") => frame[p].own = None)
  BY DEF IInv, TypeOK, OwnAtInstall
<1>. DEFINE Stutter == UNCHANGED <<cache, open>> /\ Spare' = Spare
<1>1. Stutter => [Registry!RNext]_(Registry!rvars)
  BY DEF Registry!rvars
<1>2. ASSUME NEW p \in Proc, NEW f, Become(p, f), UNCHANGED <<cache, open>>,
             ~At(p, "install"), f.own = None
      PROVE  Stutter
  BY <1>0, <1>2, SpareSame
<1>3. ASSUME NEW p \in Proc, NEW k \in Key, ConnectFindOne(p, k) PROVE Stutter
  BY <1>0, <1>2, <1>3 DEF ConnectFindOne, At, Frame
<1>4. ASSUME NEW p \in Proc, ConnectFindProfile(p) PROVE Stutter
  BY <1>0, <1>2, <1>4 DEF ConnectFindProfile, At, Frame
<1>5. ASSUME NEW p \in Proc, ConnectUpdate(p) PROVE Stutter
  BY <1>0, <1>2, <1>5 DEF ConnectUpdate, At, Frame
<1>6. ASSUME NEW p \in Proc, AddLookup(p) PROVE Stutter
  BY <1>0, <1>2, <1>6, IdleType DEF AddLookup, Goto, Return, At, Frame
<1>7. ASSUME NEW p \in Proc, AddRemove(p) PROVE Registry!RNext
  <2>1. Spare' = Spare
    BY <1>0, <1>7, SpareSame DEF AddRemove, Goto, Frame
  <2>2. {frame[p].key} \in SUBSET Key
    BY <1>0 DEF Frame
  <2>. QED
    BY <1>7, <2>1, <2>2, RetireStep DEF AddRemove
<1>8. ASSUME NEW p \in Proc, NEW i \in Client, AddInit(p, i) PROVE Registry!RNext
  <2>1. /\ frame'[p].own = i /\ \A q \in Proc \ {p} : frame'[q] = frame[q]
        /\ frame[p].own = None /\ i # None
    BY <1>0, <1>8, NoneAssumption DEF AddInit, Become, At, Frame, IInv, TypeOK
  <2>2. Spare' = Spare \cup {i}
    BY <2>1 DEF Spare
  <2>3. Registry!Open(i)
    BY <1>8, <2>2 DEF AddInit, Registry!Open
  <2>. QED
    BY <2>3 DEF Registry!RNext
<1>9. ASSUME NEW p \in Proc, AddInitFails(p) PROVE Stutter
  BY <1>0, <1>2, <1>9, IdleType DEF AddInitFails, Return, At
<1>10. ASSUME NEW p \in Proc, Return(p), At(p, "install")
       PROVE  /\ frame[p].own \in Client /\ frame[p].own \in Spare
              /\ Spare' = Spare \ {frame[p].own}
  <2>1. frame'[p] = Idle /\ \A q \in Proc \ {p} : frame'[q] = frame[q]
    BY <1>10 DEF Return, Become, IInv, TypeOK
  <2>2. frame[p].own \in Client /\ frame[p].own # None
    BY <1>0, <1>10 DEF IInv, OwnAtInstall, Frame
  <2>3. \A q \in Proc \ {p} : frame[q].own # frame[p].own
    BY <2>2 DEF IInv, Ownership, OneOwner
  <2>. QED
    BY <2>1, <2>2, <2>3, IdleType DEF Spare
<1>11. ASSUME NEW p \in Proc, AddInstall(p) PROVE Registry!RNext
  <2>1. Registry!Publish(frame[p].key, frame[p].own)
    BY <1>10, <1>11 DEF AddInstall, Registry!Publish
  <2>2. frame[p].key \in Key /\ frame[p].own \in Client
    BY <1>0, <1>10, <1>11 DEF AddInstall, Frame
  <2>. QED
    BY <2>1, <2>2 DEF Registry!RNext
<1>12. ASSUME NEW p \in Proc, AddYield(p) PROVE Registry!RNext
  <2>1. Registry!Discard(frame[p].own) /\ frame[p].own \in Client
    BY <1>10, <1>12 DEF AddYield, Registry!Discard
  <2>. QED
    BY <2>1 DEF Registry!RNext
<1>13. ASSUME NEW p \in Proc, NEW k \in Key, Disconnect(p, k) PROVE Registry!RNext
  BY <1>13, RetireStep DEF Disconnect, Spare
<1>14. ASSUME CloseAll PROVE Registry!RNext
  BY <1>14, RetireStep DEF CloseAll, Spare
<1>15. ASSUME NEW p \in Proc, NEW k \in Key, NEW ro \in BOOLEAN, SetReadOnlyFindOne(p, k, ro)
       PROVE Stutter
  BY <1>0, <1>2, <1>15 DEF SetReadOnlyFindOne, At, Frame
<1>16. ASSUME NEW p \in Proc, WriteRow(p) PROVE Stutter
  BY <1>0, <1>2, <1>16 DEF WriteRow, At, Frame
<1>17. ASSUME NEW p \in Proc, SweepBegin(p) PROVE Stutter
  BY <1>0, <1>2, <1>17 DEF SweepBegin, At, Frame
<1>18. ASSUME NEW p \in Proc, NEW i \in Client, SweepStore(p, i) PROVE Stutter
  BY <1>0, <1>2, <1>18 DEF SweepStore, At, Frame
<1>19. ASSUME NEW p \in Proc, SweepEnd(p) PROVE Stutter
  BY <1>0, <1>2, <1>19, IdleType DEF SweepEnd, Return, At
<1>20. ASSUME NEW p \in Proc, NEW k \in Key, NEW ro \in BOOLEAN, UpsertFindOne(p, k, ro)
       PROVE Stutter
  BY <1>0, <1>2, <1>20 DEF UpsertFindOne, At, Frame
<1>21. ASSUME NEW p \in Proc, UpsertInsert(p) PROVE Stutter
  BY <1>0, <1>2, <1>21, IdleType DEF UpsertInsert, Return, At
<1>22. ASSUME NEW p \in Proc, StatementFails(p) PROVE Stutter
  BY <1>0, <1>2, <1>22, IdleType DEF StatementFails, Return, At
<1>23. ASSUME NEW p \in Proc, NEW c \in Conn, Delete(p, c) PROVE Stutter
  BY <1>23 DEF Delete, Spare
<1>24. ASSUME NEW p \in Proc, ProfileUpsert(p) PROVE Stutter
  BY <1>24 DEF ProfileUpsert, Spare
<1>25. UNCHANGED vars => Stutter
  BY DEF vars, Spare
<1>. QED
  BY <1>1, <1>3, <1>4, <1>5, <1>6, <1>7, <1>8, <1>9, <1>11, <1>12, <1>13, <1>14, <1>15, <1>16,
     <1>17, <1>18, <1>19, <1>20, <1>21, <1>22, <1>23, <1>24, <1>25
  DEF Next, Begin, Continue

\* Every behaviour of the handlers and the manager is a behaviour of the
\* registry (client-manager.go 31-89, 340-363).
THEOREM ImplementsRegistry == Spec => RegistrySpec
<1>1. Init => Registry!RInit
  <2>1. Init => Spare = {}
    BY IdleType DEF Init, Spare
  <2>. QED
    BY <2>1 DEF Init, Registry!RInit
<1>. QED
  BY <1>1, RegistryStep, Inductive, PTL DEF Spec, RegistrySpec, Registry!RSpec

-----------------------------------------------------------------------------
(* Requests on one connection one after another *)

\* What the steps of others must leave alone for a handler to stay in step.
LEMMA StaysInStep ==
  ASSUME NEW q \in Proc, InStep(frame[q]), frame'[q] = frame[q],
         frame[q].at \notin {"idle", "insert"} =>
           /\ row'[frame[q].key[1]].st # "absent"
           /\ row'[frame[q].key[1]].readOnly = row[frame[q].key[1]].readOnly
         , cache[frame[q].key] = None => cache'[frame[q].key] = None,
         frame[q].at = "sweep" =>
           \A i \in Client : i \in CachedOf(frame[q].key[1])' =>
             i \in CachedOf(frame[q].key[1]) /\ client'[i].readOnly = client[i].readOnly,
         frame[q].at = "install" => client'[frame[q].own] = client[frame[q].own]
  PROVE  InStep(frame[q])'
BY DEF InStep

\* Agreement survives whatever drops clients, keeps the fields of the others
\* and keeps the rows that have clients.
LEMMA StaysAgreed ==
  ASSUME Agree,
         \A c \in Conn, i \in Client : i \in CachedOf(c)' =>
           /\ i \in CachedOf(c)
           /\ client'[i].prof = client[i].prof
           /\ client'[i].readOnly = client[i].readOnly
           /\ row'[c].st # "absent"
           /\ row'[c].readOnly = row[c].readOnly
           /\ Switching(c) => Switching(c)' \/ client[i].readOnly = row[c].readOnly
  PROVE  Agree'
<1>. SUFFICES ASSUME NEW c \in Conn, NEW i \in Client, i \in CachedOf(c)'
              PROVE  /\ row'[c].st # "absent"
                     /\ c \notin Profiled => client'[i].prof = NoVer
                     /\ Switching(c)' \/ client'[i].readOnly = row'[c].readOnly
  BY DEF Agree
<1>. QED
  BY DEF Agree

LEMMA IdleInStep == InStep(Idle) /\ InStep(Idle)'
  BY IdleType DEF InStep

LEMMA CachedOfKey ==
  ASSUME TypeOK, NEW k \in Key, cache[k] # None
  PROVE  cache[k] \in Client /\ cache[k] \in CachedOf(k[1])
<1>1. cache[k] \in Client /\ k = <<k[1], k[2]>> /\ k[2] \in Db
  BY KeyParts DEF TypeOK
<1>. QED
  BY <1>1 DEF CachedOf

\* A client is cached under one connection only.
LEMMA OneConnection ==
  ASSUME Ownership, NEW c \in Conn, NEW d \in Conn, NEW i \in Client,
         i \in CachedOf(c), i \in CachedOf(d)
  PROVE  c = d
<1>1. PICK a \in Db, b \in Db : cache[<<c, a>>] = i /\ cache[<<d, b>>] = i
  BY DEF CachedOf
<1>2. <<c, a>> \in Key /\ <<d, b>> \in Key
  BY DEF Key
<1>. QED
  BY <1>1, <1>2, NoneAssumption DEF Ownership, OneKey

\* A client that somebody owns, or that is closed, is cached nowhere.
LEMMA NotCached ==
  ASSUME Ownership, NEW i \in Client,
         i \notin open \/ \E p \in Proc : frame[p].own = i
  PROVE  \A c \in Conn : i \notin CachedOf(c)
<1>1. ~Cached(i)
  BY NoneAssumption DEF Ownership, CachedOpen, OwnedOpen, Cached
<1>. QED
  BY <1>1 DEF Cached, CachedOf, Key

\* Steps that change nothing but a handler's own frame.
LEMMA LocalSerial ==
  ASSUME IInv, SerialInv, NEW p \in Proc, NEW f, Become(p, f),
         UNCHANGED <<row, cache, client>>, InStep(f),
         frame[p].at \in {"rlock", "sweep"} =>
           \/ f.at \in {"rlock", "sweep"} /\ f.key = frame[p].key
           \/ \A i \in Client : i \in CachedOf(frame[p].key[1]) =>
                client[i].readOnly = row[frame[p].key[1]].readOnly
  PROVE  SerialInv'
<1>1. frame'[p] = f /\ \A q \in Proc \ {p} : frame'[q] = frame[q]
  BY DEF Become, IInv, TypeOK
<1>2. \A c : CachedOf(c)' = CachedOf(c)
  BY DEF CachedOf
<1>3. Agree'
  <2>1. ASSUME NEW c \in Conn, NEW i \in Client, i \in CachedOf(c), Switching(c)
        PROVE  Switching(c)' \/ client[i].readOnly = row[c].readOnly
    <3>1. PICK q \in Proc : frame[q].at \in {"rlock", "sweep"} /\ frame[q].key[1] = c
      BY <2>1 DEF Switching
    <3>2. CASE q # p
      BY <1>1, <3>1, <3>2 DEF Switching
    <3>3. CASE q = p
      BY <1>1, <2>1, <3>1, <3>3 DEF Switching
    <3>. QED
      BY <3>2, <3>3
  <2>. QED
    BY <1>2, <2>1 DEF Agree, SerialInv
<1>4. \A q \in Proc : InStep(frame[q])'
  <2>1. InStep(frame[p])'
    BY <1>1, <1>2 DEF InStep
  <2>2. ASSUME NEW q \in Proc \ {p} PROVE InStep(frame[q])'
    BY <1>1, <1>2 DEF InStep, SerialInv
  <2>. QED
    BY <2>1, <2>2
<1>. QED
  BY <1>3, <1>4 DEF SerialInv

\* Steps that close the clients of some keys.
LEMMA CloseSerial ==
  ASSUME IInv, SerialInv, NEW K \in SUBSET Key, CloseKeys(K), UNCHANGED row,
         \A q \in Proc : \/ frame'[q] = frame[q]
                         \/ frame[q].at \notin {"rlock", "sweep"} /\ InStep(frame[q])'
  PROVE  SerialInv'
<1>1. \A k \in Key : cache'[k] = IF k \in K THEN None ELSE cache[k]
  BY DEF CloseKeys
<1>2. \A i \in Client : i \notin {cache[k] : k \in K} => client'[i] = client[i]
  BY DEF CloseKeys
<1>3. ASSUME NEW c \in Conn, NEW i \in Client, i \in CachedOf(c)'
      PROVE  i \in CachedOf(c) /\ client'[i] = client[i]
  <2>1. PICK d \in Db : cache'[<<c, d>>] = i
    BY <1>3 DEF CachedOf
  <2>2. <<c, d>> \in Key
    BY DEF Key
  <2>3. <<c, d>> \notin K /\ cache[<<c, d>>] = i
    BY <1>1, <2>1, <2>2, NoneAssumption
  <2>4. i \notin {cache[k] : k \in K}
    BY <2>2, <2>3, NoneAssumption DEF IInv, Ownership, OneKey
  <2>. QED
    BY <1>2, <2>2, <2>3, <2>4 DEF CachedOf
<1>4. Agree'
  <2>1. \A c \in Conn : Switching(c) => Switching(c)'
    BY DEF Switching
  <2>. QED
    BY <1>3, <2>1, StaysAgreed DEF Agree, SerialInv
<1>5. ASSUME NEW q \in Proc, frame'[q] = frame[q] PROVE InStep(frame[q])'
  <2>1. /\ frame[q].key \in Key /\ frame[q].key[1] \in Conn
        /\ frame[q].own \in Client \cup {None}
    BY FrameParts DEF IInv, Frame
  <2>2. cache[frame[q].key] = None => cache'[frame[q].key] = None
    BY <1>1, <2>1
  <2>3. frame[q].at = "install" => client'[frame[q].own] = client[frame[q].own]
    <3>. SUFFICES ASSUME frame[q].at = "install"
                  PROVE  client'[frame[q].own] = client[frame[q].own]
      OBVIOUS
    <3>1. frame[q].own \in Client
      BY <2>1 DEF IInv, OwnAtInstall, At
    <3>2. frame[q].own \notin {cache[k] : k \in K}
      BY <3>1, NoneAssumption DEF IInv, Ownership, OwnedOpen, Cached
    <3>. QED
      BY <1>2, <3>1, <3>2
  <2>4. frame[q].at \notin {"idle", "insert"} => row[frame[q].key[1]].st # "absent"
    BY DEF SerialInv, InStep
  <2>5. InStep(frame[q])
    BY DEF SerialInv
  <2>. QED
    BY <1>3, <1>5, <2>1, <2>2, <2>3, <2>4, <2>5, StaysInStep
<1>. QED
  BY <1>4, <1>5 DEF SerialInv

\* A handler rewrites the row of the connection it works on.
LEMMA RowSerial ==
  ASSUME IInv, SerialInv, OnePerConnection, NEW p \in Proc, NEW f, NEW r \in Row,
         frame[p].at \notin {"idle", "rlock", "sweep"},
         Become(p, f), UNCHANGED <<cache, client>>,
         row' = [row EXCEPT ![frame[p].key[1]] = r], r.st = "live",
         \/ r.readOnly = row[frame[p].key[1]].readOnly
         \/ f.at = "rlock" /\ f.key = frame[p].key
         \/ row[frame[p].key[1]].st = "absent",
         InStep(frame[p])'
  PROVE  SerialInv'
<1>. DEFINE c0 == frame[p].key[1]
<1>1. frame'[p] = f /\ \A q \in Proc \ {p} : frame'[q] = frame[q]
  BY DEF Become, IInv, TypeOK
<1>2. \A c : CachedOf(c)' = CachedOf(c)
  BY DEF CachedOf
<1>3. c0 \in Conn /\ row'[c0] = r /\ \A c \in Conn \ {c0} : row'[c] = row[c]
  BY FrameParts DEF IInv, TypeOK
<1>4. \A q \in Proc \ {p} : frame[q].at # "idle" => frame[q].key[1] \in Conn \ {c0}
  BY FrameParts DEF OnePerConnection, At, IInv
<1>5. Agree'
  <2>. SUFFICES ASSUME NEW c \in Conn, NEW i \in Client, i \in CachedOf(c)
                PROVE  /\ row'[c].st # "absent"
                       /\ c \notin Profiled => client[i].prof = NoVer
                       /\ Switching(c)' \/ client[i].readOnly = row'[c].readOnly
    BY <1>2 DEF Agree
  <2>1. /\ row[c].st # "absent"
        /\ c \notin Profiled => client[i].prof = NoVer
        /\ Switching(c) \/ client[i].readOnly = row[c].readOnly
    BY DEF SerialInv, Agree
  <2>2. CASE c # c0
    <3>1. Switching(c) => Switching(c)'
      BY <1>1, <2>2 DEF Switching
    <3>. QED
      BY <1>3, <2>1, <2>2, <3>1
  <2>3. CASE c = c0
    <3>1. ~Switching(c)
      BY <1>4, <2>3 DEF Switching
    <3>2. f.at = "rlock" /\ f.key = frame[p].key => Switching(c)'
      BY <1>1, <2>3 DEF Switching
    <3>. QED
      BY <1>3, <2>1, <2>3, <3>1, <3>2
  <2>. QED
    BY <2>2, <2>3
<1>6. ASSUME NEW q \in Proc \ {p} PROVE InStep(frame[q])'
  <2>1. frame[q].at # "idle" => row'[frame[q].key[1]] = row[frame[q].key[1]]
    BY <1>3, <1>4
  <2>2. InStep(frame[q])
    BY DEF SerialInv
  <2>. QED
    BY <1>1, <1>2, <2>1, <2>2 DEF InStep
<1>. QED
  BY <1>5, <1>6 DEF SerialInv

LEMMA DialSerial ==
  ASSUME IInv, SerialInv, NEW p \in Proc, NEW j \in Client, AddInit(p, j)
  PROVE  SerialInv'
<1>1. /\ frame'[p] = [frame[p] EXCEPT !.at = "install", !.own = j]
      /\ \A q \in Proc \ {p} : frame'[q] = frame[q]
  BY DEF AddInit, Become, IInv, TypeOK
<1>2. /\ client'[j] = [ver |-> frame[p].cfg.updatedAt, prof |-> frame[p].prof,
                       readOnly |-> frame[p].cfg.readOnly]
      /\ \A i \in Client \ {j} : client'[i] = client[i]
  BY DEF AddInit, IInv, TypeOK
<1>3. /\ \A c \in Conn : j \notin CachedOf(c)
      /\ \A q \in Proc : frame[q].own # j
  BY NotCached, NoneAssumption DEF AddInit, IInv, Ownership, OwnedOpen
<1>4. \A c : CachedOf(c)' = CachedOf(c)
  BY DEF AddInit, CachedOf
<1>5. frame[p].at = "dial" /\ frame[p] \in Frame /\ frame[p].key[1] \in Conn
  BY FrameParts DEF AddInit, At, IInv
<1>6. Agree'
  <2>1. \A c \in Conn : Switching(c) => Switching(c)'
    BY <1>1, <1>5 DEF Switching
  <2>. QED
    BY <1>2, <1>3, <1>4, <2>1, StaysAgreed DEF SerialInv, AddInit, Agree
<1>7. InStep(frame[p])'
  <2>1. /\ frame'[p].key = frame[p].key /\ frame'[p].cfg = frame[p].cfg
        /\ frame'[p].prof = frame[p].prof /\ frame'[p].at = "install" /\ frame'[p].own = j
    BY <1>1, <1>5 DEF Frame
  <2>2. InStep(frame[p])
    BY DEF SerialInv
  <2>. QED
    BY <1>2, <1>5, <2>1, <2>2 DEF InStep, AddInit
<1>8. ASSUME NEW q \in Proc \ {p} PROVE InStep(frame[q])'
  <2>1. frame[q].at = "install" => client'[frame[q].own] = client[frame[q].own]
    BY <1>2, <1>3, FrameParts DEF IInv, OwnAtInstall, At, Frame
  <2>2. InStep(frame[q]) /\ frame[q].key[1] \in Conn
    BY FrameParts DEF SerialInv, IInv
  <2>3. \A i \in Client : i \in CachedOf(frame[q].key[1]) => client'[i] = client[i]
    BY <1>2, <1>3, <2>2
  <2>. QED
    BY <1>1, <1>4, <2>1, <2>2, <2>3, StaysInStep DEF AddInit, InStep
<1>. QED
  BY <1>6, <1>7, <1>8 DEF SerialInv

LEMMA InstallSerial ==
  ASSUME IInv, SerialInv, OnePerConnection, NEW p \in Proc, AddInstall(p)
  PROVE  SerialInv'
<1>. DEFINE f == frame[p]
<1>1. frame'[p] = Idle /\ \A q \in Proc \ {p} : frame'[q] = frame[q]
  BY DEF AddInstall, Return, Become, IInv, TypeOK
<1>2. f.at = "install" /\ f.own \in Client /\ f.key \in Key /\ f.key[1] \in Conn
  BY FrameParts DEF AddInstall, At, IInv, OwnAtInstall, Frame
<1>3. /\ cache'[f.key] = f.own /\ row' = row /\ client' = client
      /\ \A k \in Key \ {f.key} : cache'[k] = cache[k]
  BY <1>2 DEF AddInstall, IInv, TypeOK
<1>4. \A q \in Proc \ {p} : frame[q].at # "idle" => frame[q].key[1] # f.key[1]
  BY <1>2 DEF OnePerConnection, At
<1>5. ASSUME NEW c \in Conn, NEW i \in Client, i \in CachedOf(c)'
      PROVE  i \in CachedOf(c) \/ (i = f.own /\ c = f.key[1])
  <2>1. PICK d \in Db : cache'[<<c, d>>] = i
    BY <1>5 DEF CachedOf
  <2>2. <<c, d>> \in Key
    BY DEF Key
  <2>. QED
    BY <1>3, <2>1, <2>2 DEF CachedOf
<1>6. InStep(f) /\ Agree
  BY DEF SerialInv
<1>7. Agree'
  <2>. SUFFICES ASSUME NEW c \in Conn, NEW i \in Client, i \in CachedOf(c)'
                PROVE  /\ row[c].st # "absent"
                       /\ c \notin Profiled => client[i].prof = NoVer
                       /\ Switching(c)' \/ client[i].readOnly = row[c].readOnly
    BY <1>3 DEF Agree
  <2>1. CASE i \in CachedOf(c)
    <3>1. Switching(c) => Switching(c)'
      BY <1>1, <1>2 DEF Switching
    <3>. QED
      BY <1>6, <2>1, <3>1 DEF Agree
  <2>2. CASE i = f.own /\ c = f.key[1]
    BY <1>2, <1>6, <2>2 DEF InStep
  <2>. QED
    BY <1>5, <2>1, <2>2
<1>8. InStep(frame[p])'
  BY <1>1, IdleInStep, IdleType DEF InStep
<1>9. ASSUME NEW q \in Proc \ {p} PROVE InStep(frame[q])'
  <2>1. InStep(frame[q]) /\ frame[q].key \in Key /\ frame[q].key[1] \in Conn
    BY FrameParts DEF SerialInv, IInv
  <2>2. CASE frame[q].at = "idle"
    BY <1>1, <2>2 DEF InStep
  <2>3. CASE frame[q].at # "idle"
    <3>1. frame[q].key # f.key /\ frame[q].key[1] # f.key[1]
      BY <1>4, <2>3
    <3>2. \A i \in Client : i \in CachedOf(frame[q].key[1])' => i \in CachedOf(frame[q].key[1])
      BY <1>1, <1>5, <2>1, <3>1
    <3>. QED
      BY <1>1, <1>3, <2>1, <3>1, <3>2, StaysInStep DEF InStep
  <2>. QED
    BY <2>2, <2>3
<1>. QED
  BY <1>7, <1>8, <1>9 DEF SerialInv

LEMMA StoreSerial ==
  ASSUME IInv, SerialInv, OnePerConnection, NEW p \in Proc, NEW j \in Client, SweepStore(p, j)
  PROVE  SerialInv'
<1>. DEFINE f == frame[p]
<1>1. /\ frame'[p] = [f EXCEPT !.todo = f.todo \ {j}]
      /\ \A q \in Proc \ {p} : frame'[q] = frame[q]
  BY DEF SweepStore, Become, IInv, TypeOK
<1>2. /\ f \in Frame /\ f.at = "sweep" /\ f.key[1] \in Conn /\ j \in f.todo
      /\ j \in CachedOf(f.key[1])
  BY FrameParts DEF SweepStore, At, IInv, SweepUnderLock
<1>3. /\ frame'[p].at = "sweep" /\ frame'[p].key = f.key /\ frame'[p].want = f.want
      /\ frame'[p].todo = f.todo \ {j}
  BY <1>1, <1>2 DEF Frame
<1>4. /\ client'[j].readOnly = f.want /\ client'[j].prof = client[j].prof
      /\ \A i \in Client \ {j} : client'[i] = client[i]
      /\ row' = row /\ cache' = cache
  BY DEF SweepStore, IInv, TypeOK, Fields
<1>5. \A c : CachedOf(c)' = CachedOf(c)
  BY <1>4 DEF CachedOf
<1>6. \A c \in Conn \ {f.key[1]} : j \notin CachedOf(c)
  BY <1>2, OneConnection DEF IInv
<1>7. \A q \in Proc \ {p} : frame[q].at # "idle" => frame[q].key[1] # f.key[1]
  BY <1>2 DEF OnePerConnection, At
<1>8. InStep(f) /\ Agree
  BY DEF SerialInv
<1>9. Agree'
  <2>1. \A c \in Conn : Switching(c) => Switching(c)'
    BY <1>1, <1>2, <1>3 DEF Switching
  <2>2. \A c \in Conn : c = f.key[1] => Switching(c)'
    BY <1>2, <1>3 DEF Switching
  <2>. SUFFICES ASSUME NEW c \in Conn, NEW i \in Client, i \in CachedOf(c)
                PROVE  /\ row[c].st # "absent"
                       /\ c \notin Profiled => client'[i].prof = NoVer
                       /\ Switching(c)' \/ client'[i].readOnly = row[c].readOnly
    BY <1>4, <1>5 DEF Agree
  <2>3. /\ row[c].st # "absent"
        /\ c \notin Profiled => client[i].prof = NoVer
        /\ Switching(c) \/ client[i].readOnly = row[c].readOnly
    BY <1>8 DEF Agree
  <2>. QED
    BY <1>4, <1>6, <2>1, <2>2, <2>3
<1>10. InStep(frame[p])'
  BY <1>2, <1>3, <1>4, <1>5, <1>8 DEF InStep
<1>11. ASSUME NEW q \in Proc \ {p} PROVE InStep(frame[q])'
  <2>1. InStep(frame[q]) /\ frame[q].key[1] \in Conn
    BY FrameParts DEF SerialInv, IInv
  <2>2. CASE frame[q].at = "idle"
    BY <1>1, <2>2 DEF InStep
  <2>3. CASE frame[q].at # "idle"
    <3>1. frame[q].own # j
      BY <1>2, NotCached DEF IInv
    <3>2. frame[q].at = "install" => client'[frame[q].own] = client[frame[q].own]
      BY <1>4, <3>1, FrameParts DEF IInv, OwnAtInstall, At, Frame
    <3>3. \A i \in Client : i \in CachedOf(frame[q].key[1]) => client'[i] = client[i]
      BY <1>4, <1>6, <1>7, <2>1, <2>3
    <3>. QED
      BY <1>1, <1>4, <1>5, <2>1, <2>3, <3>2, <3>3, StaysInStep DEF InStep
  <2>. QED
    BY <2>2, <2>3
<1>. QED
  BY <1>9, <1>10, <1>11 DEF SerialInv

LEMMA SerialStep == IInv /\ SerialInv /\ OnePerConnection /\ [Next]_vars => SerialInv'
<1>. SUFFICES ASSUME IInv, SerialInv, OnePerConnection, [Next]_vars PROVE SerialInv'
  OBVIOUS
<1>0. \A p \in Proc : /\ frame[p] \in Frame /\ frame[p].cfg \in Row
                      /\ frame[p].key \in Key /\ frame[p].key[1] \in Conn
                      /\ InStep(frame[p])
  BY FrameParts DEF IInv, SerialInv
<1>1. ASSUME NEW p \in Proc, NEW k \in Key, ConnectFindOne(p, k) PROVE SerialInv'
  <2>. DEFINE f == [frame[p] EXCEPT !.at = "profile", !.key = k, !.cfg = row[k[1]]]
  <2>1. f.at = "profile" /\ f.key = k /\ f.cfg = row[k[1]]
    BY <1>0 DEF Frame
  <2>2. InStep(f)
    BY <1>1, <2>1 DEF InStep, ConnectFindOne
  <2>. QED
    BY <1>1, <2>2, LocalSerial DEF ConnectFindOne, At
<1>2. ASSUME NEW p \in Proc, ConnectFindProfile(p) PROVE SerialInv'
  <2>. DEFINE f == [frame[p] EXCEPT
                      !.at = IF frame[p].cfg.lastDb # frame[p].key[2] THEN "persist" ELSE "lookup",
                      !.prof = IF frame[p].key[1] \in Profiled THEN profile ELSE NoVer]
  <2>1. /\ f.at \in {"persist", "lookup"} /\ f.key = frame[p].key /\ f.cfg = frame[p].cfg
        /\ f.prof = IF frame[p].key[1] \in Profiled THEN profile ELSE NoVer
        /\ frame[p].at = "profile"
    BY <1>0, <1>2 DEF Frame, ConnectFindProfile, At
  <2>2. InStep(f)
    BY <1>0, <2>1 DEF InStep
  <2>. QED
    BY <1>2, <2>1, <2>2, LocalSerial DEF ConnectFindProfile
<1>3. ASSUME NEW p \in Proc, ConnectUpdate(p) PROVE SerialInv'
  <2>1. PICK v \in Ver : LET f == frame[p]
                           new == [f.cfg EXCEPT !.lastDb = f.key[2], !.updatedAt = v] IN
             /\ row' = [row EXCEPT ![f.key[1]] = new]
             /\ Become(p, [frame[p] EXCEPT !.at = "lookup", !.cfg = new])
    BY <1>3 DEF ConnectUpdate, FreshVer
  <2>. DEFINE new == [frame[p].cfg EXCEPT !.lastDb = frame[p].key[2], !.updatedAt = v]
              f == [frame[p] EXCEPT !.at = "lookup", !.cfg = new]
  <2>2. frame[p].at = "persist"
    BY <1>3 DEF ConnectUpdate, At
  <2>3. /\ new \in Row /\ new.st = "live"
        /\ new.readOnly = row[frame[p].key[1]].readOnly
    BY <1>0, <2>2, FrameParts DEF IInv, Row, VerOrNone, InStep
  <2>4. /\ frame'[p].at = "lookup" /\ frame'[p].cfg = new /\ frame'[p].key = frame[p].key
        /\ frame'[p].prof = frame[p].prof
    BY <1>0, <2>1 DEF Become, Frame, IInv, TypeOK
  <2>5. row'[frame[p].key[1]] = new
    BY <1>0, <2>1 DEF IInv, TypeOK
  <2>6. frame[p].key[1] \notin Profiled => frame[p].prof = NoVer
    BY <1>0, <2>2 DEF InStep
  <2>7. InStep(frame[p])'
    BY <2>3, <2>4, <2>5, <2>6 DEF InStep
  <2>8. Become(p, f) /\ row' = [row EXCEPT ![frame[p].key[1]] = new]
    BY <2>1
  <2>. HIDE DEF new, f
  <2>. QED
    BY <1>3, <2>2, <2>3, <2>7, <2>8, RowSerial DEF ConnectUpdate
<1>4. ASSUME NEW p \in Proc, AddLookup(p) PROVE SerialInv'
  <2>1. frame[p].at = "lookup"
    BY <1>4 DEF AddLookup, At
  <2>2. CASE Return(p)
    BY <1>4, <2>1, <2>2, IdleInStep, LocalSerial DEF AddLookup, Return
  <2>3. ASSUME NEW s \in {"dial", "remove"}, Goto(p, s), s = "dial" => cache[frame[p].key] = None
        PROVE  SerialInv'
    <3>. DEFINE f == [frame[p] EXCEPT !.at = s]
    <3>1. f.at = s /\ f.key = frame[p].key /\ f.cfg = frame[p].cfg /\ f.prof = frame[p].prof
      BY <1>0 DEF Frame
    <3>2. InStep(f)
      BY <1>0, <2>1, <2>3, <3>1 DEF InStep
    <3>. QED
      BY <1>4, <2>1, <2>3, <3>2, LocalSerial DEF AddLookup, Goto
  <2>. QED
    BY <1>4, <2>2, <2>3 DEF AddLookup
<1>5. ASSUME NEW p \in Proc, AddRemove(p) PROVE SerialInv'
  <2>1. /\ frame[p].at = "remove" /\ {frame[p].key} \in SUBSET Key
        /\ CloseKeys({frame[p].key}) /\ row' = row
    BY <1>0, <1>5 DEF AddRemove, At
  <2>2. /\ frame'[p].at = "dial" /\ frame'[p].key = frame[p].key
        /\ frame'[p].cfg = frame[p].cfg /\ frame'[p].prof = frame[p].prof
        /\ \A q \in Proc \ {p} : frame'[q] = frame[q]
    BY <1>0, <1>5 DEF AddRemove, Goto, Become, Frame, IInv, TypeOK
  <2>3. cache'[frame[p].key] = None
    BY <1>0, <2>1 DEF CloseKeys
  <2>4. InStep(frame[p])'
    BY <1>0, <2>1, <2>2, <2>3 DEF InStep
  <2>. QED
    BY <2>1, <2>2, <2>4, CloseSerial
<1>6. ASSUME NEW p \in Proc, NEW i \in Client, AddInit(p, i) PROVE SerialInv'
  BY <1>6, DialSerial
<1>7. ASSUME NEW p \in Proc, AddInitFails(p) PROVE SerialInv'
  BY <1>7, IdleInStep, LocalSerial DEF AddInitFails, Return, At
<1>8. ASSUME NEW p \in Proc, AddInstall(p) PROVE SerialInv'
  BY <1>8, InstallSerial
<1>9. ASSUME NEW p \in Proc, AddYield(p) PROVE FALSE
  BY <1>0, <1>9 DEF AddYield, InStep, At
<1>10. ASSUME NEW p \in Proc, NEW k \in Key, Disconnect(p, k) PROVE SerialInv'
  BY <1>10, CloseSerial DEF Disconnect
<1>11. ASSUME CloseAll PROVE SerialInv'
  BY <1>11, CloseSerial DEF CloseAll
<1>12. ASSUME NEW p \in Proc, NEW k \in Key, NEW ro \in BOOLEAN, SetReadOnlyFindOne(p, k, ro)
       PROVE SerialInv'
  <2>. DEFINE r == row[k[1]]
              f == [frame[p] EXCEPT
                      !.at = IF r.readOnly # ro THEN "write" ELSE "rlock",
                      !.key = k, !.want = ro,
                      !.cfg = [r EXCEPT !.readOnly = ro, !.updatedAt = NoVer]]
  <2>1. r \in Row /\ r.st = "live"
    BY <1>12, KeyParts DEF SetReadOnlyFindOne, IInv, TypeOK
  <2>2. /\ f.at = IF r.readOnly # ro THEN "write" ELSE "rlock"
        /\ f.key = k /\ f.want = ro /\ f.cfg.st = "live" /\ f.cfg.readOnly = ro
    BY <1>0, <2>1 DEF Frame, Row
  <2>3. InStep(f)
    BY <2>1, <2>2 DEF InStep
  <2>. QED
    BY <1>12, <2>3, LocalSerial DEF SetReadOnlyFindOne, At
<1>13. ASSUME NEW p \in Proc, WriteRow(p) PROVE SerialInv'
  <2>1. PICK v \in Ver :
          /\ row' = [row EXCEPT ![frame[p].key[1]] = [frame[p].cfg EXCEPT !.updatedAt = v]]
          /\ Become(p, [frame[p] EXCEPT !.at = "rlock", !.cfg = NoRow])
    BY <1>13 DEF WriteRow, FreshVer
  <2>. DEFINE new == [frame[p].cfg EXCEPT !.updatedAt = v]
              f == [frame[p] EXCEPT !.at = "rlock", !.cfg = NoRow]
  <2>2. frame[p].at = "write"
    BY <1>13 DEF WriteRow, At
  <2>3. new \in Row /\ new.st = "live" /\ new.readOnly = frame[p].want
    BY <1>0, <2>2, StampType DEF Row, InStep
  <2>4. /\ frame'[p] = f /\ f.at = "rlock" /\ f.key = frame[p].key /\ f.want = frame[p].want
    BY <1>0, <2>1 DEF Become, Frame, IInv, TypeOK
  <2>5. row'[frame[p].key[1]] = new
    BY <1>0, <2>1 DEF IInv, TypeOK
  <2>6. Become(p, f) /\ row' = [row EXCEPT ![frame[p].key[1]] = new]
    BY <2>1
  <2>. HIDE DEF new, f
  <2>7. InStep(frame[p])'
    BY <2>3, <2>4, <2>5 DEF InStep
  <2>. QED
    BY <1>13, <2>2, <2>3, <2>4, <2>6, <2>7, RowSerial DEF WriteRow
<1>14. ASSUME NEW p \in Proc, SweepBegin(p) PROVE SerialInv'
  <2>. DEFINE f == [frame[p] EXCEPT !.at = "sweep", !.cfg = NoRow,
                                    !.todo = CachedOf(frame[p].key[1])]
  <2>1. /\ f.at = "sweep" /\ f.key = frame[p].key /\ f.want = frame[p].want
        /\ f.todo = CachedOf(frame[p].key[1]) /\ frame[p].at = "rlock"
    BY <1>0, <1>14 DEF Frame, SweepBegin, At
  <2>2. InStep(f)
    BY <1>0, <2>1 DEF InStep
  <2>. QED
    BY <1>14, <2>1, <2>2, LocalSerial DEF SweepBegin
<1>15. ASSUME NEW p \in Proc, NEW i \in Client, SweepStore(p, i) PROVE SerialInv'
  BY <1>15, StoreSerial
<1>16. ASSUME NEW p \in Proc, SweepEnd(p) PROVE SerialInv'
  <2>1. frame[p].at = "sweep" /\ frame[p].todo = {}
    BY <1>16 DEF SweepEnd, At
  <2>2. \A i \in Client : i \in CachedOf(frame[p].key[1]) =>
          client[i].readOnly = row[frame[p].key[1]].readOnly
    BY <1>0, <2>1 DEF InStep
  <2>. QED
    BY <1>16, <2>2, IdleInStep, LocalSerial DEF SweepEnd, Return
<1>17. ASSUME NEW p \in Proc, NEW k \in Key, NEW ro \in BOOLEAN, UpsertFindOne(p, k, ro)
       PROVE SerialInv'
  <2>. DEFINE form == [st |-> "live", readOnly |-> ro, lastDb |-> k[2], updatedAt |-> NoVer]
              f == [frame[p] EXCEPT !.at = IF row[k[1]].st = "live" THEN "write" ELSE "insert",
                                    !.key = k, !.want = ro, !.cfg = form]
  <2>1. /\ f.at = IF row[k[1]].st = "live" THEN "write" ELSE "insert"
        /\ f.key = k /\ f.want = ro /\ f.cfg = form
    BY <1>0 DEF Frame
  <2>2. InStep(f)
    BY <2>1 DEF InStep
  <2>. QED
    BY <1>17, <2>2, LocalSerial DEF UpsertFindOne, At
<1>18. ASSUME NEW p \in Proc, UpsertInsert(p) PROVE SerialInv'
  <2>1. frame[p].at = "insert"
    BY <1>18 DEF UpsertInsert, At
  <2>2. CASE UNCHANGED row
    BY <1>18, <2>1, <2>2, IdleInStep, LocalSerial DEF UpsertInsert, Return
  <2>3. ASSUME NEW v \in FreshVer, row[frame[p].key[1]].st = "absent",
               row' = [row EXCEPT ![frame[p].key[1]] = [frame[p].cfg EXCEPT !.updatedAt = v]]
        PROVE  SerialInv'
    <3>. DEFINE new == [frame[p].cfg EXCEPT !.updatedAt = v]
    <3>1. new \in Row /\ new.st = "live"
      BY <1>0, <2>1, StampType DEF Row, InStep, FreshVer
    <3>2. frame'[p] = Idle /\ Become(p, Idle)
      BY <1>18 DEF UpsertInsert, Return, Become, IInv, TypeOK
    <3>3. InStep(frame[p])'
      BY <3>2, IdleType DEF InStep
    <3>. HIDE DEF new
    <3>. QED
      BY <1>18, <2>1, <2>3, <3>1, <3>2, <3>3, RowSerial DEF UpsertInsert, new
  <2>. QED
    BY <1>18, <2>2, <2>3 DEF UpsertInsert
<1>19. ASSUME NEW p \in Proc, StatementFails(p) PROVE SerialInv'
  BY <1>19, IdleInStep, LocalSerial DEF StatementFails, Return
<1>20. ASSUME NEW p \in Proc, NEW c \in Conn, Delete(p, c) PROVE SerialInv'
  <2>1. /\ UNCHANGED <<cache, client, frame>>
        /\ \A d \in Conn : row'[d].readOnly = row[d].readOnly
        /\ \A d \in Conn : row[d].st # "absent" => row'[d].st # "absent"
    BY <1>20 DEF Delete, IInv, TypeOK, Row
  <2>2. \A d \in Conn : CachedOf(d)' = CachedOf(d) /\ Switching(d)' = Switching(d)
    BY <2>1 DEF CachedOf, Switching
  <2>3. Agree'
    BY <2>1, <2>2 DEF Agree, SerialInv
  <2>4. ASSUME NEW q \in Proc PROVE InStep(frame[q])'
    BY <1>0, <2>1, <2>2 DEF InStep
  <2>. QED
    BY <2>3, <2>4 DEF SerialInv
<1>21. ASSUME UNCHANGED <<row, cache, client, frame>> PROVE SerialInv'
  BY <1>21 DEF SerialInv, Agree, InStep, CachedOf, Switching
<1>22. ASSUME NEW p \in Proc, ProfileUpsert(p) PROVE SerialInv'
  BY <1>22, <1>21 DEF ProfileUpsert
<1>23. CASE UNCHANGED vars
  BY <1>23, <1>21 DEF vars
<1>. QED
  BY <1>1, <1>2, <1>3, <1>4, <1>5, <1>6, <1>7, <1>8, <1>9, <1>10, <1>11, <1>12, <1>13,
     <1>14, <1>15, <1>16, <1>17, <1>18, <1>19, <1>20, <1>22, <1>23
  DEF Next, Begin, Continue

\* While no two handlers work on one connection, handlers and clients stay in
\* step with the rows.
LEMMA SerialInductive == Spec /\ []OnePerConnection => []SerialInv
<1>1. Init => SerialInv
  <2>. SUFFICES ASSUME Init PROVE SerialInv
    OBVIOUS
  <2>1. \A p \in Proc : InStep(frame[p])
    BY IdleInStep DEF Init
  <2>2. \A c \in Conn : CachedOf(c) = {}
    BY NoneAssumption DEF Init, CachedOf, Key
  <2>. QED
    BY <2>1, <2>2 DEF SerialInv, Agree
<1>. QED
  BY <1>1, SerialStep, Inductive, PTL DEF Spec

\* Requests on one connection that do not overlap leave its live clients
\* enforcing what its row says, whatever is asked of other connections, edited,
\* deleted or disconnected meanwhile (set_read_only_logic.go 18-40,
\* client-manager.go 36-88, 328-338).
THEOREM ReadOnlyHolds == Spec /\ []OnePerConnection => []ReadOnlyEnforced
<1>1. SerialInv => ReadOnlyEnforced
  BY DEF SerialInv, Agree, ReadOnlyEnforced, Quiet, Switching, At
<1>. QED
  BY <1>1, SerialInductive, PTL

\* Under the same condition a Connect that succeeds returns a client built from
\* the rows it read, new or cached (client-manager.go 36-54, 58-88).
THEOREM ConnectHolds == Spec /\ []OnePerConnection => ConnectIsFresh
<1>. DEFINE Fresh(p) ==
       LET f == frame[p] IN
       /\ cache'[f.key] # None
       /\ client'[cache'[f.key]].ver = f.cfg.updatedAt
       /\ client'[cache'[f.key]].prof = f.prof
<1>1. IInv /\ SerialInv /\ [Next]_vars => [\A p \in Proc : Succeeds(p) => Fresh(p)]_vars
  <2>. SUFFICES ASSUME IInv, SerialInv, [Next]_vars, NEW p \in Proc, Succeeds(p)
                PROVE  Fresh(p)
    OBVIOUS
  <2>0. /\ frame[p].key \in Key /\ frame[p].key[1] \in Conn
        /\ InStep(frame[p]) /\ Agree
    BY FrameParts DEF IInv, SerialInv
  <2>1. CASE AddLookup(p)
    <3>. DEFINE i == cache[frame[p].key]
    <3>1. /\ i # None /\ ~Stale(i, frame[p].key[1], frame[p].cfg, frame[p].prof)
          /\ UNCHANGED <<cache, client>> /\ frame[p].at = "lookup"
      BY <2>1 DEF AddLookup, At, Succeeds, Goto, Become, IInv, TypeOK, Frame
    <3>2. i \in Client /\ i \in CachedOf(frame[p].key[1])
      BY <2>0, <3>1, CachedOfKey DEF IInv
    <3>3. frame[p].key[1] \notin Profiled => client[i].prof = frame[p].prof
      BY <2>0, <3>1, <3>2 DEF Agree, InStep
    <3>. QED
      BY <3>1, <3>3 DEF Stale
  <2>2. CASE AddInstall(p)
    <3>1. /\ frame[p].at = "install" /\ frame[p].own # None
          /\ cache'[frame[p].key] = frame[p].own /\ client' = client
      BY <2>0, <2>2 DEF AddInstall, At, IInv, OwnAtInstall, TypeOK
    <3>. QED
      BY <2>0, <3>1 DEF InStep
  <2>3. AddYield(p) => FALSE
    BY <2>0 DEF AddYield, InStep, At
  <2>4. \A q \in Proc \ {p} : \A f : Become(q, f) => frame'[p] = frame[p]
    BY DEF Become
  <2>5. frame'[p] # frame[p]
    BY DEF Succeeds, At
  <2>6. \/ AddLookup(p) \/ AddInstall(p) \/ AddYield(p)
    <3>1. \A q \in Proc \ {p} : ~Continue(q)
      BY <2>4, <2>5 DEF Continue, ConnectFindProfile, ConnectUpdate, AddLookup, AddRemove,
         AddInitFails, AddInstall, AddYield, AddInit, SweepStore, WriteRow, SweepBegin,
         SweepEnd, UpsertInsert, StatementFails, Goto, Return
    <3>2. \A q \in Proc \ {p} : ~Begin(q)
      BY <2>4, <2>5 DEF Begin, ConnectFindOne, Disconnect, SetReadOnlyFindOne, UpsertFindOne,
         Delete, ProfileUpsert
    <3>3. ~Begin(p)
      BY <2>5 DEF Begin, ConnectFindOne, Disconnect, SetReadOnlyFindOne, UpsertFindOne,
         Delete, ProfileUpsert, Succeeds, At
    <3>4. Continue(p) => AddLookup(p) \/ AddInstall(p) \/ AddYield(p)
      <4>1. frame[p].at \in {"lookup", "install"}
        BY DEF Succeeds, At
      <4>. QED
        BY <4>1 DEF Continue, ConnectFindProfile, ConnectUpdate, AddRemove,
           AddInitFails, AddInit, SweepStore, WriteRow, SweepBegin,
           SweepEnd, UpsertInsert, StatementFails, At
    <3>5. ~CloseAll /\ ~UNCHANGED vars
      BY <2>5 DEF CloseAll, vars
    <3>. QED
      BY <3>1, <3>2, <3>3, <3>4, <3>5 DEF Next
  <2>. QED
    BY <2>1, <2>2, <2>3, <2>6
<1>. QED
  BY <1>1, SerialInductive, Inductive, PTL DEF Spec, ConnectIsFresh
=============================================================================
