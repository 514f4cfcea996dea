-------------------------- MODULE RequestContext --------------------------
(***************************************************************************)
(* The context of one HTTP stream (src/src/kuadrant/context.rs): the       *)
(* attribute cache between the shim and the host, the header maps the shim *)
(* edits through it, the values it exports, and the request identifier.    *)
(*                                                                         *)
(* The host owns the data.  It hands out a header map only while the       *)
(* callback for it runs or is paused; before and after that window it has  *)
(* none, and other filters may change what it holds.                       *)
(***************************************************************************)
EXTENDS Naturals, Sequences

CONSTANTS
    Names,          \* header names
    Vals,           \* header and property values
    RequestIdName,  \* the name "x-request-id"
    Attributes,     \* paths of plain bytes
    AuthPaths,      \* the ones under "auth", which the shim itself exports
    Exports,        \* paths that store actions export to
    Addresses,      \* client addresses with port, split at every ':'
    Operations,     \* header operations that actions make
    MaxHeaders,     \* bound: entries of a header map
    MaxIds          \* bound: identifiers generated

ASSUME NameAssumption == RequestIdName \in Names
ASSUME ValueAssumption == Vals \cap Nat = {}

Maps == {"request.headers", "response.headers"}

RemoteAddress == "source.remote_address"

ASSUME PathAssumption ==
    /\ Attributes \cap Maps = {}
    /\ AuthPaths \subseteq Attributes \ {RemoteAddress}
    /\ Exports \subseteq Maps \cup Attributes

Paths == Maps \cup Attributes

VARIABLES
    phase,      \* how far the stream is
    hostMap,    \* [Maps -> header map], held by the host
    hostProp,   \* [slots -> value], held by the host
    address,    \* source.address, held by the host; empty when it has none
    cache,      \* AttributeCache
    id,         \* Tracker::id: empty, or the identifier
    generated,  \* number of identifiers generated
    answer,     \* the last answer of the context, and what it was asked for
    \* history
    seen,       \* [Paths -> what was first read, or last written]
    sent        \* identifiers sent along with gRPC calls

vars == <<phase, hostMap, hostProp, address, cache, id, generated, answer, seen, sent>>

-----------------------------------------------------------------------------
(* Headers: an ordered list of pairs, in which a name may be repeated.     *)

Header == Names \X Vals
Keep(h, k) == SelectSeq(h, LAMBDA e : e[1] # k)
GetAll(h, k) == LET es == SelectSeq(h, LAMBDA e : e[1] = k)
                IN  [i \in DOMAIN es |-> es[i][2]]

\* Mutant: retain is forgotten.
SetAppends(h, k, v) == Append(h, <<k, v>>)

Set(h, k, v) == Append(Keep(h, k), <<k, v>>)
Extend(h, new) == h \o new

SetEach(h, new) ==
    LET set[n \in 0..Len(new)] == IF n = 0 THEN h ELSE Set(set[n - 1], new[n][1], new[n][2])
    IN  set[Len(new)]

\* HeaderOperation and what it makes of the existing headers.
Operation == [op : {"append", "set"}, headers : Seq(Header)] \cup [op : {"remove"}, keys : SUBSET Names]

ASSUME OperationAssumption == Operations \subseteq Operation

Edit(h, o) ==
    CASE o.op = "append" -> Extend(h, o.headers)
      [] o.op = "set"    -> SetEach(h, o.headers)
      [] o.op = "remove" -> SelectSeq(h, LAMBDA e : e[1] \notin o.keys)

-----------------------------------------------------------------------------
(* CachedValue, and the answers of the host and of the context.            *)

NoValue == [kind |-> "bytes", some |-> FALSE]
Bytes(v) == [kind |-> "bytes", some |-> TRUE, value |-> v]
Headers(h) == [kind |-> "headers", map |-> h]
Miss == [kind |-> "miss"]

Ok(v) == [tag |-> "Ok", value |-> v]
Err(e) == [tag |-> "Err", error |-> e]
NotAvailable == Err("NotAvailable")
Available(p, v) == [tag |-> "Available", path |-> p, value |-> v]
Pending(p) == [tag |-> "Pending", path |-> p]
Error(p) == [tag |-> "Error", path |-> p]

\* The host hands out a map in its window only, a closed map reads as empty.
Window(m) == IF m = "request.headers" THEN "request" ELSE "response"
IsOpen(m) == phase = Window(m)

\* ProxyWasmHost::get_attribute_map: an empty map is one that is not there yet.
GetMap(m) == IF IsOpen(m) /\ hostMap[m] # <<>> THEN Ok(Headers(hostMap[m])) ELSE NotAvailable

\* What the host answers for a value: "early" is a property of a later phase.
Property(v) == CASE v = "early"  -> NotAvailable
                 [] v = "absent" -> Ok(NoValue)
                 [] OTHER -> Ok(Bytes(v))

\* The host keeps what filters export apart from its own properties: wasm_prop
\* and store_attribute_bytes name the exported slot.  The paths the shim derives
\* otherwise (a header map, the client's address) have no slot that it reads.
Properties == Attributes \ {RemoteAddress}
Slots == Properties \X {"own", "exported"}
ReadSlot(p) == <<p, IF p \in AuthPaths THEN "exported" ELSE "own">>
WriteSlot(p) == <<p, "exported">>

\* remote_address: what is before the first ':'.
HostPart(a) == <<a[1]>>

\* fetch_attribute; any call may also fail.
Fetch(p) ==
    {Err("Retrieval"),
     CASE p = "request.headers"  -> IF GetMap(p) = NotAvailable THEN Err("Retrieval") ELSE GetMap(p)
       [] p = "response.headers" -> GetMap(p)
       [] p = RemoteAddress -> IF address = <<>> THEN Ok(NoValue) ELSE Ok(Bytes(HostPart(address)))
       [] OTHER -> Property(hostProp[ReadSlot(p)])}

\* AttributeValue::from_cached, asked for a value of kind T.
FromCached(p, v, T) == IF v.kind = T THEN Available(p, v) ELSE Error(p)

\* Mutant: a cached entry is fetched again.
GetOrInsertRefetched(p, T, fetched) ==
    CASE fetched.tag = "Ok" -> <<fetched.value, FromCached(p, fetched.value, T)>>
      [] fetched = NotAvailable /\ cache[p] = Miss -> <<Miss, Pending(p)>>
      [] fetched.tag = "Err" /\ cache[p] # Miss -> <<cache[p], FromCached(p, cache[p], T)>>
      [] OTHER -> <<Miss, Error(p)>>

\* AttributeCache::get_or_insert_with: the entry it leaves, and its answer.
GetOrInsertWith(p, T, fetched) ==
    IF cache[p] # Miss THEN <<cache[p], FromCached(p, cache[p], T)>>
    ELSE CASE fetched.tag = "Ok" -> <<fetched.value, FromCached(p, fetched.value, T)>>
           [] fetched = NotAvailable -> <<Miss, Pending(p)>>
           [] OTHER -> <<Miss, Error(p)>>

\* The history variable after an answer: the first value read counts.
See(s, a) == IF a.tag = "Available" /\ s[a.path] = Miss THEN [s EXCEPT ![a.path] = a.value] ELSE s

-----------------------------------------------------------------------------
(* The operations of the context.                                          *)

Init ==
    /\ phase = "request"
    /\ \E e \in Header : hostMap = [m \in Maps |-> IF m = "request.headers" THEN <<e>> ELSE <<>>]
    /\ hostProp \in [Slots -> Vals \cup {"early", "absent"}]
    /\ address \in Addresses \cup {<<>>}
    /\ cache = [p \in Paths |-> Miss]
    /\ id = <<>>
    /\ generated = 0
    /\ answer = Pending("response.headers")
    /\ seen = [p \in Paths |-> Miss]
    /\ sent = {}

GetAttribute(p, T) ==
    /\ \E fetched \in Fetch(p) :
         LET got == GetOrInsertWith(p, T, fetched)
         IN  /\ cache' = [cache EXCEPT ![p] = got[1]]
             /\ answer' = got[2]
             /\ seen' = See(seen, got[2])
    /\ UNCHANGED <<phase, hostMap, hostProp, address, id, generated, sent>>

\* ensure_attributes, for one path that is not cached.
EnsureAttribute(p) ==
    /\ cache[p] = Miss
    /\ \E fetched \in Fetch(p) :
          cache' = [cache EXCEPT ![p] = IF fetched.tag = "Ok" THEN fetched.value ELSE Miss]
    /\ UNCHANGED <<phase, hostMap, hostProp, address, id, generated, answer, seen, sent>>

\* Mutant: the cache is written whatever the host says.
StoreHeadersCacheFirst(m, old, h, accepted) ==
    /\ cache' = [cache EXCEPT ![m] = Headers(h)]
    /\ IF IsOpen(m) /\ accepted
       THEN /\ hostMap' = [hostMap EXCEPT ![m] = h]
            /\ seen' = [seen EXCEPT ![m] = Headers(h)]
            /\ answer' = Available(m, Headers(h))
       ELSE /\ answer' = IF m = "response.headers" /\ ~IsOpen(m) THEN Pending(m) ELSE Error(m)
            /\ seen' = See(seen, Available(m, old))
            /\ UNCHANGED hostMap

\* set_attribute_map, where the cache holds old: the host first, then the cache.
\* Outside its window a response map is Pending, a request map is an error.
StoreAttributeHeaders(m, old, h, accepted) ==
    IF IsOpen(m) /\ accepted
    THEN /\ hostMap' = [hostMap EXCEPT ![m] = h]
         /\ cache' = [cache EXCEPT ![m] = Headers(h)]
         /\ seen' = [seen EXCEPT ![m] = Headers(h)]
         /\ answer' = Available(m, Headers(h))
    ELSE /\ answer' = IF m = "response.headers" /\ ~IsOpen(m) THEN Pending(m) ELSE Error(m)
         /\ cache' = [cache EXCEPT ![m] = old]
         /\ seen' = See(seen, Available(m, old))
         /\ UNCHANGED hostMap

\* ModifyHeadersTask::apply once its predicate holds: Available is Done or
\* Terminate, Pending is Requeued, Error is Failed.
ModifyHeaders(m, o) ==
    /\ \E fetched \in Fetch(m), accepted \in BOOLEAN :
         LET got == GetOrInsertWith(m, "headers", fetched)
         IN  IF got[2].tag = "Available"
             THEN /\ Len(Edit(got[1].map, o)) <= MaxHeaders
                  /\ StoreAttributeHeaders(m, got[1], Edit(got[1].map, o), accepted)
             ELSE /\ cache' = [cache EXCEPT ![m] = got[1]]
                  /\ answer' = got[2]
                  /\ UNCHANGED <<hostMap, seen>>
    /\ UNCHANGED <<phase, hostProp, address, id, generated, sent>>

\* set_attribute, by a StoreTask that exports to the host.  Any path will do: a
\* header map is shadowed in the cache by the bytes, and not changed by them.
SetAttribute(p, v) ==
    /\ hostProp' = IF p \in Properties THEN [hostProp EXCEPT ![WriteSlot(p)] = v] ELSE hostProp
    /\ cache' = [cache EXCEPT ![p] = Bytes(v)]
    /\ seen' = [seen EXCEPT ![p] = Bytes(v)]
    /\ answer' = Available(p, Bytes(v))
    /\ UNCHANGED <<phase, hostMap, address, id, generated, sent>>

\* set_attribute that the host refuses.
SetAttributeRefused(p) ==
    /\ answer' = Error(p)
    /\ UNCHANGED <<phase, hostMap, hostProp, address, cache, id, generated, seen, sent>>

\* Tracker::get_id when it has none: the first x-request-id, or a fresh one.
NewId(v) ==
    IF v.tag = "Available" /\ GetAll(v.value.map, RequestIdName) # <<>>
    THEN GetAll(v.value.map, RequestIdName)[1]
    ELSE generated + 1

\* Mutant: the identifier is looked up for every use.
RequestIdEachTime ==
    /\ \E fetched \in Fetch("request.headers") :
         LET got == GetOrInsertWith("request.headers", "headers", fetched)
         IN  /\ cache' = [cache EXCEPT !["request.headers"] = got[1]]
             /\ seen' = See(seen, got[2])
             /\ id' = <<NewId(got[2])>>
             /\ generated' = IF id'[1] = generated + 1 THEN generated + 1 ELSE generated
             /\ generated' <= MaxIds
             /\ sent' = sent \cup {id'[1]}
    /\ UNCHANGED <<phase, hostMap, hostProp, address, answer>>

\* request_id, for a gRPC call, a reply, a header or a span.
RequestId ==
    /\ IF id # <<>>
       THEN /\ sent' = sent \cup {id[1]}
            /\ UNCHANGED <<cache, seen, id, generated>>
       ELSE \E fetched \in Fetch("request.headers") :
              LET got == GetOrInsertWith("request.headers", "headers", fetched)
              IN  /\ cache' = [cache EXCEPT !["request.headers"] = got[1]]
                  /\ seen' = See(seen, got[2])
                  /\ id' = <<NewId(got[2])>>
                  /\ generated' = IF id'[1] = generated + 1 THEN generated + 1 ELSE generated
                  /\ generated' <= MaxIds
                  /\ sent' = sent \cup {id'[1]}
    /\ UNCHANGED <<phase, hostMap, hostProp, address, answer>>

-----------------------------------------------------------------------------
(* The host.                                                               *)

\* The stream moves on; the response headers come with their phase.
Advance ==
    /\ \/ phase = "request" /\ phase' = "upstream" /\ UNCHANGED hostMap
       \/ /\ phase = "upstream" /\ phase' = "response"
          /\ \E e \in Header : hostMap' = [hostMap EXCEPT !["response.headers"] = <<e>>]
       \/ phase = "response" /\ phase' = "streaming" /\ UNCHANGED hostMap
    /\ UNCHANGED <<hostProp, address, cache, id, generated, answer, seen, sent>>

\* Other filters change a map that is closed to the shim.
ChangeMap(m) ==
    /\ ~IsOpen(m) /\ hostMap[m] # <<>>
    /\ \E e \in Header : hostMap' = [hostMap EXCEPT ![m] = <<e>>]
    /\ UNCHANGED <<phase, hostProp, address, cache, id, generated, answer, seen, sent>>

\* A property the shim reads gets another value, or its first one.
ChangeProperty(p) ==
    /\ \E v \in Vals \cup {"absent"} : hostProp' = [hostProp EXCEPT ![ReadSlot(p)] = v]
    /\ UNCHANGED <<phase, hostMap, address, cache, id, generated, answer, seen, sent>>

Next ==
    \/ \E p \in Paths, T \in {"bytes", "headers"} : GetAttribute(p, T)
    \/ \E p \in Paths : EnsureAttribute(p)
    \/ \E m \in Maps, o \in Operations : ModifyHeaders(m, o)
    \/ \E p \in Exports, v \in Vals : SetAttribute(p, v)
    \/ \E p \in Exports : SetAttributeRefused(p)
    \/ RequestId
    \/ Advance
    \/ \E m \in Maps : ChangeMap(m)
    \/ \E p \in Properties : ChangeProperty(p)

Spec == Init /\ [][Next]_vars

-----------------------------------------------------------------------------
(* Properties.                                                             *)

\* A stream reads its own past: once an attribute was answered, get_attribute
\* answers the same until the shim itself writes it, and then what it wrote,
\* whatever the host and the other filters do meanwhile and after any error.
ReadsAreRepeatable == answer.tag = "Available" => answer.value = seen[answer.path]

\* While a header map is open to the shim, the headers the cache has of it are
\* those the host holds: an edit reaches both or neither (store_attribute_headers).
\* The cache has none where a store action exported bytes to the path of the map.
CacheIsWriteThrough ==
    \A m \in Maps : IsOpen(m) /\ cache[m].kind = "headers" => cache[m] = Headers(hostMap[m])

\* All gRPC calls, replies and spans of a stream carry one request identifier,
\* even where the request headers are edited or closed between two uses.
OneRequestId == \A x, y \in sent : x = y

\* What a stream is told of itself and of the host is coherent: the three above.
ContextCoherent == ReadsAreRepeatable /\ CacheIsWriteThrough /\ OneRequestId

\* What an operation makes of the values of one header.
Edited(h, o, k) ==
    CASE o.op = "append" -> GetAll(h, k) \o GetAll(o.headers, k)
      [] o.op = "remove" -> IF k \in o.keys THEN <<>> ELSE GetAll(h, k)
      [] o.op = "set" -> LET new == GetAll(o.headers, k)
                         IN  IF new = <<>> THEN GetAll(h, k) ELSE <<new[Len(new)]>>

\* A header task that is done changed the map of the host, from what it held,
\* by its operation and nothing else; any other outcome changed nothing, so
\* that a task put back in the queue is not applied twice.
EditsOnce ==
    [][\A m \in Maps, o \in Operations :
         \/ IF answer'.tag = "Available"
            THEN \A k \in Names : GetAll(hostMap'[m], k) = Edited(hostMap[m], o, k)
            ELSE hostMap' = hostMap
         \/ ~ModifyHeaders(m, o)]_vars
=============================================================================
