----------------------------- MODULE ServiceMgr -----------------------------
(***************************************************************************)
(* DCS::service_mgr, service_base and service_router                       *)
(* (src/websocket_demo/service).                                           *)
(*                                                                         *)
(* get_service reads _services under _mutex; regist and unregist write it  *)
(* without.  A call of regist is therefore cut where a lookup or another   *)
(* writer can fall: the search for the key, the insertion of a node that   *)
(* still holds nullptr, the assignment of the service.  Writers that       *)
(* insert at the same time may lose a node, and a lookup made while a node *)
(* is being inserted may miss any key; the other outcomes of that data     *)
(* race (a broken tree, a crash) are not modelled.                         *)
(*                                                                         *)
(* A commit ends when it has handed doService to the thread pool; what     *)
(* becomes of the call is the matter of ThreadPool.                        *)
(***************************************************************************)
EXTENDS Naturals, Sequences, FiniteSets

CONSTANTS
  Uris,          \* values of service_base::_uri and of the service_uri in messages
  DefaultUri,    \* what a service is constructed with
  EmptyUri,      \* what get_uri returns for a message that names no service
  Services,      \* service_base objects; each is called by one owner at a time
  Messages,      \* the calls of commit
  Content,       \* what each message holds, as get_uri reads it
  NoService      \* nullptr

ASSUME UrisAssumption == DefaultUri \in Uris /\ EmptyUri \in Uris
ASSUME NoServiceAssumption == NoService \notin Services

\* What the JSON parser makes of a text, and an option, whose text is looked at
\* only in the format fmt_json.
JsonText == [parses : BOOLEAN, uri : Uris]
OptionData == [format : STRING, json : JsonText]

ASSUME ContentAssumption ==
  \A m \in Messages : Content[m].exh \in Seq(JsonText) /\ Content[m].options \in Seq(OptionData)

VARIABLES
  _services,     \* the map: uri to service, nullptr for a node not yet assigned
  _uri,          \* each service's uri
  opc,           \* where the owner of each service is in start() or stop()
  key,           \* the uri that a started start() or stop() works on
  seen,          \* the keys that were there when start() searched the tree
  mpc,           \* where the commit of each message is
  target,        \* the service_base pointer that commit found, bound into the task
  last,          \* history: the service registered last under each uri, nullptr
                 \* once stop() has been called for it
  raced,         \* history: an owner has run while another was writing
  stopped        \* history: services whose stop() has returned 0 since their start()

vars == <<_services, _uri, opc, key, seen, mpc, target, last, raced, stopped>>

Keys == DOMAIN _services
Writers == {s \in Services : opc[s] \in {"inserting", "assigning", "erasing"}}
Inserting == \E s \in Services : opc[s] = "inserting"

TypeOK ==
  /\ Keys \subseteq Uris /\ \A u \in Keys : _services[u] \in Services \cup {NoService}
  /\ _uri \in [Services -> Uris]
  /\ opc \in [Services -> {"idle", "inserting", "assigning", "erasing"}]
  /\ key \in [Services -> Uris]
  /\ seen \in [Services -> SUBSET Uris]
  /\ mpc \in [Messages -> {"new", "found", "queued", "rejected"}]
  /\ target \in [Messages -> Services \cup {NoService}]
  /\ \A m \in Messages : mpc[m] \in {"found", "queued"} <=> target[m] # NoService
  /\ last \in [Uris -> Services \cup {NoService}]
  /\ raced \in BOOLEAN
  /\ stopped \subseteq Services

Init ==
  /\ _services = [u \in {} |-> NoService]
  /\ _uri = [s \in Services |-> DefaultUri]
  /\ opc = [s \in Services |-> "idle"]
  /\ key = [s \in Services |-> DefaultUri]
  /\ seen = [s \in Services |-> {}]
  /\ mpc = [m \in Messages |-> "new"]
  /\ target = [m \in Messages |-> NoService]
  /\ last = [u \in Uris |-> NoService]
  /\ raced = FALSE
  /\ stopped = {}

-----------------------------------------------------------------------------
(* get_uri: the first extended header if there is one, else the first      *)
(* option in JSON; no uri if that one does not parse or names none.        *)

UriOf(json) == IF json.parses /\ json.uri # EmptyUri THEN json.uri ELSE EmptyUri

IsJson(option) == option.format = "fmt_json"

UriOfOptions(options) ==
  LET jsons == {i \in DOMAIN options : IsJson(options[i])}
      first == CHOOSE i \in jsons : \A j \in jsons : i <= j
  IN  IF jsons = {} THEN EmptyUri ELSE UriOf(options[first].json)

GetUri(msg) == IF msg.exh # <<>> THEN UriOf(Head(msg.exh)) ELSE UriOfOptions(msg.options)

UriOfMessage(m) == GetUri(Content[m])

-----------------------------------------------------------------------------
(* The owner of a service.                                                 *)

\* A step of an owner while another one writes is a race.
Races(s) == raced \/ Writers \ {s} # {}

With(map, u, s) == [x \in DOMAIN map \cup {u} |-> IF x = u THEN s ELSE map[x]]
Without(map, U) == [x \in DOMAIN map \ U |-> map[x]]

SetUri(s, u) ==
  /\ opc[s] = "idle" /\ _uri[s] # u
  /\ _uri' = [_uri EXCEPT ![s] = u]
  /\ UNCHANGED <<_services, opc, key, seen, mpc, target, last, raced, stopped>>

\* start(): _services[s->uri()] searches the tree for the key.
StartSearch(s) ==
  /\ opc[s] = "idle"
  /\ key' = [key EXCEPT ![s] = _uri[s]]
  /\ seen' = [seen EXCEPT ![s] = IF _uri[s] \in Keys THEN {} ELSE Keys]
  /\ opc' = [opc EXCEPT ![s] = IF _uri[s] \in Keys THEN "assigning" ELSE "inserting"]
  /\ stopped' = stopped \ {s}
  /\ raced' = Races(s)
  /\ UNCHANGED <<_services, _uri, mpc, target, last>>

\* The new node is linked in; a node linked in since the search may be lost.
StartInsert(s) ==
  /\ opc[s] = "inserting"
  /\ \E lost \in SUBSET ((Keys \ seen[s]) \ {key[s]}) :
       _services' = With(Without(_services, lost), key[s], NoService)
  /\ opc' = [opc EXCEPT ![s] = "assigning"]
  /\ seen' = [seen EXCEPT ![s] = {}]
  /\ raced' = Races(s)
  /\ UNCHANGED <<_uri, key, mpc, target, last, stopped>>

\* Faulty variant: insert(), which keeps the service that is already there.
AssignedOnce(s) ==
  IF key[s] \in Keys /\ _services[key[s]] # NoService THEN _services ELSE With(_services, key[s], s)

\* The assignment goes to the node found or inserted; if that has been lost or
\* erased in the meantime it is lost too.
Assigned(s) == IF key[s] \in Keys THEN With(_services, key[s], s) ELSE _services

StartAssign(s) ==
  /\ opc[s] = "assigning"
  /\ _services' = Assigned(s)
  /\ last' = [last EXCEPT ![key[s]] = s]
  /\ opc' = [opc EXCEPT ![s] = "idle"]
  /\ key' = [key EXCEPT ![s] = DefaultUri]
  /\ raced' = Races(s)
  /\ UNCHANGED <<_uri, seen, mpc, target, stopped>>

\* unregist goes on to erase the key only if the search did NOT find it.
Erases(u) == u \notin Keys

StopSearch(s) ==
  /\ opc[s] = "idle"
  /\ IF Erases(_uri[s])
     THEN /\ opc' = [opc EXCEPT ![s] = "erasing"]
          /\ key' = [key EXCEPT ![s] = _uri[s]]
          /\ UNCHANGED stopped
     ELSE /\ stopped' = stopped \cup {s}
          /\ UNCHANGED <<opc, key>>
  /\ last' = [last EXCEPT ![_uri[s]] = NoService]
  /\ raced' = Races(s)
  /\ UNCHANGED <<_services, _uri, seen, mpc, target>>

StopErase(s) ==
  /\ opc[s] = "erasing"
  /\ _services' = Without(_services, {key[s]})
  /\ opc' = [opc EXCEPT ![s] = "idle"]
  /\ key' = [key EXCEPT ![s] = DefaultUri]
  /\ stopped' = stopped \cup {s}
  /\ raced' = Races(s)
  /\ UNCHANGED <<_uri, seen, mpc, target, last>>

-----------------------------------------------------------------------------
(* commit, on the thread that received the message, and the pool.          *)

Found(u) == IF u \in Keys THEN _services[u] ELSE NoService

\* Faulty variant: the nullptr is not checked.
AfterLookupUnchecked(s) == "found"

AfterLookup(s) == IF s = NoService THEN "rejected" ELSE "found"

\* get_service, under _mutex.
Lookup(m) ==
  /\ mpc[m] = "new"
  /\ \E s \in {Found(UriOfMessage(m))} \cup (IF Inserting THEN {NoService} ELSE {}) :
       /\ target' = [target EXCEPT ![m] = s]
       /\ mpc' = [mpc EXCEPT ![m] = AfterLookup(s)]
  /\ UNCHANGED <<_services, _uri, opc, key, seen, last, raced, stopped>>

\* add_task: the pool's queue holds the raw pointer.
Commit(m) ==
  /\ mpc[m] = "found"
  /\ mpc' = [mpc EXCEPT ![m] = "queued"]
  /\ UNCHANGED <<_services, _uri, opc, key, seen, target, last, raced, stopped>>

-----------------------------------------------------------------------------
Next ==
  \/ \E s \in Services : \/ StartSearch(s) \/ StartInsert(s) \/ StartAssign(s)
                         \/ StopSearch(s) \/ StopErase(s)
                         \/ \E u \in Uris : SetUri(s, u)
  \/ \E m \in Messages : Lookup(m) \/ Commit(m)

Spec == Init /\ [][Next]_vars

-----------------------------------------------------------------------------
(* Safety.                                                                 *)

\* As long as no two owners were inside start() or stop() at the same time, a
\* service that has been registered and whose uri has been neither registered
\* again nor stopped is what the map holds, at every step of another start() too
\* (regist and unregist, src/websocket_demo/service/service_mgr.cpp:18-32).
RegistryMatchesCalls ==
  ~raced => \A u \in Uris : last[u] # NoService => Found(u) = last[u]

\* A commit to a uri under which a service is registered binds the message to
\* that service, whatever the owners of other services are doing; if it falls into
\* the insertion of another node it may be rejected, but is not bound to anything
\* else (commit and get_service against regist, service_mgr.cpp:18-55).
LookupAnswersLatest ==
  [][\A m \in Messages :
       LET registered == last[UriOfMessage(m)]
       IN  mpc[m] = "new" /\ mpc'[m] # "new" /\ ~raced /\ registered # NoService
             => \/ mpc'[m] = "found" /\ target'[m] = registered
                \/ mpc'[m] = "rejected" /\ Inserting]_vars

-----------------------------------------------------------------------------
(* What comments of the source say and the code does not do.               *)

\* src/websocket_demo/service/service_base.h:38-39: stop() takes the service's
\* registration back, and returns 0 if it could.  So no message is bound to a
\* service whose stop() has returned 0.
StopUnregisters ==
  [][\A m \in Messages : mpc[m] = "new" /\ mpc'[m] = "found" => target'[m] \notin stopped]_vars
=============================================================================
