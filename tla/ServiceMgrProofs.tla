-------------------------- MODULE ServiceMgrProofs --------------------------
(***************************************************************************)
(* Theorems about ServiceMgr, for all sets of uris, services and messages, *)
(* and any contents of the messages.                                       *)
(***************************************************************************)
EXTENDS ServiceMgr, WellFoundedInduction, TLAPS

LEMMA WithIsTyped ==
  ASSUME NEW map, DOMAIN map \subseteq Uris, \A u \in DOMAIN map : map[u] \in Services \cup {NoService},
         NEW u \in Uris, NEW s \in Services \cup {NoService}
  PROVE  /\ DOMAIN With(map, u, s) \subseteq Uris
         /\ \A x \in DOMAIN With(map, u, s) : With(map, u, s)[x] \in Services \cup {NoService}
BY DEF With

LEMMA WithoutIsTyped ==
  ASSUME NEW map, DOMAIN map \subseteq Uris, \A u \in DOMAIN map : map[u] \in Services \cup {NoService},
         NEW U
  PROVE  /\ DOMAIN Without(map, U) \subseteq Uris
         /\ \A x \in DOMAIN Without(map, U) : Without(map, U)[x] \in Services \cup {NoService}
BY DEF Without

-----------------------------------------------------------------------------
(* Type correctness.  It needs no more than itself.                        *)

LEMMA TypeInit == Init => TypeOK
<1>. SUFFICES ASSUME Init PROVE TypeOK
  OBVIOUS
<1>1. Keys = {}
  BY DEF Init, Keys
<1>2. \A m \in Messages : mpc[m] \in {"found", "queued"} <=> target[m] # NoService
  BY DEF Init
<1>3. /\ mpc \in [Messages -> {"new", "found", "queued", "rejected"}]
      /\ target \in [Messages -> Services \cup {NoService}]
      /\ last \in [Uris -> Services \cup {NoService}]
      /\ stopped \subseteq Services
      /\ raced \in BOOLEAN
  BY DEF Init
<1>4. /\ _uri \in [Services -> Uris]
      /\ opc \in [Services -> {"idle", "inserting", "assigning", "erasing"}]
      /\ key \in [Services -> Uris]
      /\ seen \in [Services -> SUBSET Uris]
  BY UrisAssumption DEF Init
<1>. QED
  BY <1>1, <1>2, <1>3, <1>4 DEF TypeOK

LEMMA TypeStep == TypeOK /\ [Next]_vars => TypeOK'
<1>. SUFFICES ASSUME TypeOK, [Next]_vars PROVE TypeOK'
  OBVIOUS
<1>. USE DEF TypeOK, Keys
<1>1. CASE UNCHANGED vars
  BY <1>1 DEF vars
<1>2. ASSUME NEW s \in Services, NEW u \in Uris, SetUri(s, u) PROVE TypeOK'
  BY <1>2 DEF SetUri
<1>3. ASSUME NEW s \in Services, StartSearch(s) PROVE TypeOK'
  <2>1. raced' \in BOOLEAN
    BY <1>3 DEF StartSearch, Races
  <2>2. seen' \in [Services -> SUBSET Uris]
    BY <1>3 DEF StartSearch
  <2>. QED
    BY <1>3, <2>1, <2>2 DEF StartSearch
<1>4. ASSUME NEW s \in Services, StartInsert(s) PROVE TypeOK'
  <2>1. raced' \in BOOLEAN
    BY <1>4 DEF StartInsert, Races
  <2>2. PICK lost : _services' = With(Without(_services, lost), key[s], NoService)
    BY <1>4 DEF StartInsert
  <2>3. DOMAIN _services' \subseteq Uris /\ \A u \in DOMAIN _services' : _services'[u] \in Services \cup {NoService}
    BY <2>2, WithIsTyped, WithoutIsTyped
  <2>. QED
    BY <1>4, <2>1, <2>3 DEF StartInsert
<1>5. ASSUME NEW s \in Services, StartAssign(s) PROVE TypeOK'
  <2>1. raced' \in BOOLEAN
    BY <1>5 DEF StartAssign, Races
  <2>3. DOMAIN _services' \subseteq Uris /\ \A u \in DOMAIN _services' : _services'[u] \in Services \cup {NoService}
    BY <1>5, WithIsTyped DEF StartAssign, Assigned
  <2>. QED
    BY <1>5, <2>1, <2>3, UrisAssumption DEF StartAssign
<1>6. ASSUME NEW s \in Services, StopSearch(s) PROVE TypeOK'
  <2>1. raced' \in BOOLEAN
    BY <1>6 DEF StopSearch, Races
  <2>. QED
    BY <1>6, <2>1 DEF StopSearch
<1>7. ASSUME NEW s \in Services, StopErase(s) PROVE TypeOK'
  <2>1. raced' \in BOOLEAN
    BY <1>7 DEF StopErase, Races
  <2>3. DOMAIN _services' \subseteq Uris /\ \A u \in DOMAIN _services' : _services'[u] \in Services \cup {NoService}
    BY <1>7, WithoutIsTyped DEF StopErase
  <2>. QED
    BY <1>7, <2>1, <2>3, UrisAssumption DEF StopErase
<1>8. ASSUME NEW m \in Messages, Lookup(m) PROVE TypeOK'
  <2>1. PICK s : /\ s \in {Found(UriOfMessage(m))} \cup (IF Inserting THEN {NoService} ELSE {})
                 /\ target' = [target EXCEPT ![m] = s]
                 /\ mpc' = [mpc EXCEPT ![m] = AfterLookup(s)]
    BY <1>8 DEF Lookup
  <2>2. s \in Services \cup {NoService}
    BY <2>1 DEF Found
  <2>. QED
    BY <1>8, <2>1, <2>2 DEF Lookup, AfterLookup
<1>9. ASSUME NEW m \in Messages, Commit(m) PROVE TypeOK'
  BY <1>9 DEF Commit
<1>. QED
  BY <1>1, <1>2, <1>3, <1>4, <1>5, <1>6, <1>7, <1>8, <1>9 DEF Next

\* The map, the owners, the commits and the histories keep their types.
THEOREM RegistryTypes == Spec => []TypeOK
  BY TypeInit, TypeStep, PTL DEF Spec

-----------------------------------------------------------------------------
(* The map and the calls.  As long as nobody has raced, at most one owner  *)
(* is writing, and what it found when it searched the tree is still true.  *)

OneWriter == \A s, t \in Writers : s = t

SearchHolds ==
  \A s \in Services :
    /\ opc[s] = "inserting" => key[s] \notin Keys /\ seen[s] = Keys
    /\ opc[s] = "assigning" => key[s] \in Keys
    /\ opc[s] = "erasing"   => key[s] \notin Keys

RegisteredFound == \A u \in Uris : last[u] # NoService => Found(u) = last[u]

RegistryInv == ~raced => OneWriter /\ SearchHolds /\ RegisteredFound

LEMMA RegistryInit == Init => RegistryInv
  BY DEF Init, RegistryInv, OneWriter, SearchHolds, RegisteredFound, Writers, Found, Keys

\* A step of an owner that leaves raced down is taken by the only writer.
LEMMA AloneWhenNotRaced ==
  ASSUME NEW s \in Services, ~Races(s)
  PROVE  ~raced /\ \A t \in Services \ {s} : opc[t] \notin {"inserting", "assigning", "erasing"}
BY DEF Races, Writers

\* Steps that touch neither the map nor an owner.
LEMMA RegistryKept ==
  ASSUME RegistryInv, UNCHANGED <<_services, opc, key, seen, last, raced>>
  PROVE  RegistryInv'
BY DEF RegistryInv, OneWriter, SearchHolds, RegisteredFound, Writers, Found, Keys

LEMMA RegistryStep == TypeOK /\ RegistryInv /\ [Next]_vars => RegistryInv'
<1>. SUFFICES ASSUME TypeOK, RegistryInv, [Next]_vars PROVE RegistryInv'
  OBVIOUS
<1>. USE DEF RegistryInv, OneWriter, SearchHolds, RegisteredFound, Writers, Found, Keys
<1>1. CASE UNCHANGED vars
  BY <1>1, RegistryKept DEF vars
<1>2. ASSUME NEW s \in Services, NEW u \in Uris, SetUri(s, u) PROVE RegistryInv'
  BY <1>2, RegistryKept DEF SetUri
<1>3. ASSUME NEW s \in Services, StartSearch(s) PROVE RegistryInv'
  <2>. SUFFICES ASSUME ~Races(s) PROVE OneWriter' /\ SearchHolds' /\ RegisteredFound'
    BY <1>3 DEF StartSearch
  <2>. QED
    BY <1>3, AloneWhenNotRaced DEF StartSearch, TypeOK
<1>4. ASSUME NEW s \in Services, StartInsert(s) PROVE RegistryInv'
  <2>. SUFFICES ASSUME ~Races(s) PROVE OneWriter' /\ SearchHolds' /\ RegisteredFound'
    BY <1>4 DEF StartInsert
  <2>1. PICK lost \in SUBSET ((Keys \ seen[s]) \ {key[s]}) :
          _services' = With(Without(_services, lost), key[s], NoService)
    BY <1>4 DEF StartInsert
  <2>2. lost = {} /\ key[s] \notin Keys /\ key[s] \in Uris
    BY <1>4, <2>1, AloneWhenNotRaced DEF StartInsert, TypeOK
  <2>3. /\ Keys' = Keys \cup {key[s]}
        /\ \A u \in Keys : _services'[u] = _services[u]
        /\ _services'[key[s]] = NoService
    BY <2>1, <2>2 DEF With, Without
  <2>. QED
    BY <1>4, <2>2, <2>3, AloneWhenNotRaced DEF StartInsert, TypeOK
<1>5. ASSUME NEW s \in Services, StartAssign(s) PROVE RegistryInv'
  <2>. SUFFICES ASSUME ~Races(s) PROVE OneWriter' /\ SearchHolds' /\ RegisteredFound'
    BY <1>5 DEF StartAssign
  <2>1. key[s] \in Keys
    BY <1>5, AloneWhenNotRaced DEF StartAssign
  <2>2. /\ Keys' = Keys
        /\ \A u \in Keys : _services'[u] = IF u = key[s] THEN s ELSE _services[u]
    BY <1>5, <2>1 DEF StartAssign, Assigned, With
  <2>. QED
    BY <1>5, <2>1, <2>2, AloneWhenNotRaced DEF StartAssign, TypeOK
<1>6. ASSUME NEW s \in Services, StopSearch(s) PROVE RegistryInv'
  <2>. SUFFICES ASSUME ~Races(s) PROVE OneWriter' /\ SearchHolds' /\ RegisteredFound'
    BY <1>6 DEF StopSearch
  <2>1. /\ ~raced /\ UNCHANGED <<_services, seen>>
        /\ \A t \in Services \ {s} : opc[t] \notin {"inserting", "assigning", "erasing"}
        /\ \A t \in Services \ {s} : opc'[t] = opc[t]
    BY <1>6, AloneWhenNotRaced DEF StopSearch, TypeOK
  <2>2. OneWriter'
    BY <1>6, <2>1 DEF StopSearch, TypeOK
  <2>3. SearchHolds'
    BY <1>6, <2>1 DEF StopSearch, Erases, TypeOK
  <2>4. \A u \in Uris : last'[u] # NoService => last'[u] = last[u]
    BY <1>6 DEF StopSearch, TypeOK
  <2>5. RegisteredFound'
    BY <2>1, <2>4
  <2>. QED
    BY <2>2, <2>3, <2>5
<1>7. ASSUME NEW s \in Services, StopErase(s) PROVE RegistryInv'
  <2>. SUFFICES ASSUME ~Races(s) PROVE OneWriter' /\ SearchHolds' /\ RegisteredFound'
    BY <1>7 DEF StopErase
  <2>1. key[s] \notin Keys
    BY <1>7, AloneWhenNotRaced DEF StopErase
  <2>2. Keys' = Keys /\ \A u \in Keys : _services'[u] = _services[u]
    BY <1>7, <2>1 DEF StopErase, Without
  <2>3. /\ ~raced /\ last' = last
        /\ \A t \in Services : opc'[t] \notin {"inserting", "assigning", "erasing"}
    BY <1>7, AloneWhenNotRaced DEF StopErase, TypeOK
  <2>4. OneWriter' /\ SearchHolds'
    BY <2>3
  <2>5. \A u \in Uris : Found(u)' = Found(u)
    BY <2>2
  <2>. QED
    BY <2>3, <2>4, <2>5
<1>8. ASSUME NEW m \in Messages, Lookup(m) PROVE RegistryInv'
  BY <1>8, RegistryKept DEF Lookup
<1>9. ASSUME NEW m \in Messages, Commit(m) PROVE RegistryInv'
  BY <1>9, RegistryKept DEF Commit
<1>. QED
  BY <1>1, <1>2, <1>3, <1>4, <1>5, <1>6, <1>7, <1>8, <1>9 DEF Next

\* Without a race between owners the map holds, at every step, each service that
\* is registered (regist and unregist, service_mgr.cpp:18-32).
THEOREM RegistryIsLatest == Spec => []RegistryMatchesCalls
<1>1. RegistryInv => RegistryMatchesCalls
  BY DEF RegistryInv, RegisteredFound, RegistryMatchesCalls
<1>. QED
  BY <1>1, TypeInit, TypeStep, RegistryInit, RegistryStep, PTL DEF Spec

-----------------------------------------------------------------------------
(* What a commit finds.                                                    *)

\* A non-empty set of natural numbers has a least element.
LEMMA LeastExists ==
  ASSUME NEW S \in SUBSET Nat, S # {}
  PROVE  \E n \in S : \A k \in S : n <= k
<1>. DEFINE R == {ss \in Nat \X Nat : ss[1] < ss[2]}
<1>1. IsWellFoundedOn(R, Nat)
  BY NatLessThanWellFounded DEF OpToRel
<1>2. PICK n \in S : \A k \in S : ~(<<k, n>> \in R)
  <2>. HIDE DEF R
  <2>. QED
    BY <1>1, WFMin
<1>3. ASSUME NEW k \in S PROVE n <= k
  <2>1. <<k, n>> \in Nat \X Nat /\ <<k, n>>[1] = k /\ <<k, n>>[2] = n
    OBVIOUS
  <2>2. ~(k < n)
    BY <1>2, <2>1
  <2>. QED
    BY <2>2
<1>. QED
  BY <1>3

LEMMA UriIsKnown ==
  ASSUME NEW m \in Messages
  PROVE  UriOfMessage(m) \in Uris
<1>. DEFINE options == Content[m].options
            jsons == {i \in DOMAIN options : IsJson(options[i])}
            first == CHOOSE i \in jsons : \A j \in jsons : i <= j
<1>1. \A text \in JsonText : UriOf(text) \in Uris
  BY UrisAssumption DEF UriOf, JsonText
<1>2. Content[m].exh \in Seq(JsonText) /\ options \in Seq(OptionData)
  BY ContentAssumption
<1>3. CASE Content[m].exh # <<>>
  <2>1. Head(Content[m].exh) \in JsonText
    BY <1>2, <1>3
  <2>. QED
    BY <1>1, <1>3, <2>1 DEF UriOfMessage, GetUri
<1>4. CASE Content[m].exh = <<>> /\ jsons # {}
  <2>1. jsons \in SUBSET Nat
    BY <1>2
  <2>2. first \in jsons
    <3>. HIDE DEF jsons
    <3>1. \E i \in jsons : \A j \in jsons : i <= j
      BY <1>4, <2>1, LeastExists
    <3>. QED
      BY <3>1
  <2>3. options[first].json \in JsonText
    <3>. HIDE DEF first
    <3>1. options[first] \in OptionData
      BY <1>2, <2>2
    <3>. QED
      BY <3>1 DEF OptionData
  <2>4. UriOfMessage(m) = UriOf(options[first].json)
    BY <1>4 DEF UriOfMessage, GetUri, UriOfOptions
  <2>. QED
    BY <1>1, <2>3, <2>4
<1>5. CASE Content[m].exh = <<>> /\ jsons = {}
  BY <1>5, UrisAssumption DEF UriOfMessage, GetUri, UriOfOptions
<1>. QED
  BY <1>3, <1>4, <1>5

\* As long as no two owners have raced, a commit to a uri under which a service is
\* registered is bound to that service, or falls into the insertion of a node and
\* is rejected (commit and get_service, service_mgr.cpp:18-55).
THEOREM CommitsFindTheLatest == Spec => LookupAnswersLatest
<1>. DEFINE registered(m) == last[UriOfMessage(m)]
            Answers(m) == mpc[m] = "new" /\ mpc'[m] # "new" /\ ~raced /\ registered(m) # NoService
                            => \/ mpc'[m] = "found" /\ target'[m] = registered(m)
                               \/ mpc'[m] = "rejected" /\ Inserting
<1>1. ASSUME TypeOK, RegistryInv, [Next]_vars, NEW m \in Messages
      PROVE  Answers(m)
  <2>. SUFFICES ASSUME mpc[m] = "new", mpc'[m] # "new", ~raced, registered(m) # NoService
                PROVE  \/ mpc'[m] = "found" /\ target'[m] = registered(m)
                       \/ mpc'[m] = "rejected" /\ Inserting
    OBVIOUS
  <2>1. Lookup(m)
    <3>1. mpc' # mpc
      OBVIOUS
    <3>2. \E n \in Messages : Lookup(n) \/ Commit(n)
      BY <1>1, <3>1 DEF Next, vars, StartSearch, StartInsert, StartAssign, StopSearch, StopErase, SetUri
    <3>3. PICK n \in Messages : Lookup(n) \/ Commit(n)
      BY <3>2
    <3>4. n = m
      BY <1>1, <3>3 DEF Lookup, Commit, TypeOK
    <3>. QED
      BY <3>3, <3>4 DEF Commit
  <2>2. PICK s \in {Found(UriOfMessage(m))} \cup (IF Inserting THEN {NoService} ELSE {}) :
          /\ target' = [target EXCEPT ![m] = s]
          /\ mpc' = [mpc EXCEPT ![m] = AfterLookup(s)]
    BY <2>1 DEF Lookup
  <2>3. target'[m] = s /\ mpc'[m] = AfterLookup(s)
    BY <1>1, <2>2 DEF TypeOK
  <2>4. Found(UriOfMessage(m)) = registered(m)
    BY <1>1, UriIsKnown DEF RegistryInv, RegisteredFound
  <2>5. CASE s = registered(m)
    BY <2>3, <2>5 DEF AfterLookup
  <2>6. CASE s = NoService /\ Inserting
    BY <2>3, <2>6 DEF AfterLookup
  <2>. QED
    BY <2>2, <2>4, <2>5, <2>6
<1>2. TypeOK /\ RegistryInv /\ [Next]_vars => \A m \in Messages : Answers(m)
  BY <1>1
<1>. QED
  BY <1>2, TypeInit, TypeStep, RegistryInit, RegistryStep, PTL DEF Spec, LookupAnswersLatest
=============================================================================
