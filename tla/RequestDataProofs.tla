------------------------- MODULE RequestDataProofs -------------------------
(***************************************************************************)
(* Proofs about what a request reads: the attributes in its context, for   *)
(* any headers, attributes, header operations and any behaviour of the     *)
(* host; and the response body, which the token usage task reads, for      *)
(* bodies of every length, cut in every way, with any number of answers    *)
(* between the pieces and a host that may fail at any call.                *)
(***************************************************************************)
EXTENDS RequestContext, BodyReader, TLAPS

-----------------------------------------------------------------------------
(* The attributes.                                                         *)

\* What was seen is still cached, and an answer given was seen.
SeenIsCached == \A p \in Paths : seen[p] # Miss => cache[p] = seen[p]
AnswerIsSeen == answer.tag = "Available" =>
    answer.path \in Paths /\ seen[answer.path] # Miss /\ answer.value = seen[answer.path]

\* The headers of the response are cached from its window on.
ResponseIsLater == cache["response.headers"].kind = "headers" => phase \in {"response", "streaming"}

\* The identifier sent is the one that is kept.
SentIsKept == \A x \in sent : id = <<x>>

IdShape == id = <<>> \/ id = <<id[1]>>

Shape == DOMAIN cache = Paths /\ DOMAIN seen = Paths /\ DOMAIN hostMap = Maps /\ generated \in Nat

IInv == /\ Shape
        /\ SeenIsCached
        /\ AnswerIsSeen
        /\ CacheIsWriteThrough
        /\ ResponseIsLater
        /\ SentIsKept
        /\ IdShape

-----------------------------------------------------------------------------
\* A map that is fetched is open, and what the host holds.
LEMMA FetchMap ==
    ASSUME NEW m \in Maps, NEW fetched \in Fetch(m), fetched.tag = "Ok"
    PROVE  IsOpen(m) /\ fetched.value = Headers(hostMap[m])
<1>1. fetched \in {Err("Retrieval"), GetMap(m)}
  <2>1. CASE m = "request.headers"
    BY <2>1, Zenon DEF Fetch, RemoteAddress
  <2>2. CASE m = "response.headers"
    BY <2>2, Zenon DEF Fetch, RemoteAddress
  <2> QED
    BY <2>1, <2>2, Zenon DEF Maps
<1>2. Err("Retrieval").tag # "Ok" /\ NotAvailable.tag # "Ok"
  BY Zenon DEF Err, NotAvailable
<1>3. IsOpen(m) /\ fetched = Ok(Headers(hostMap[m]))
  BY <1>1, <1>2, Zenon DEF GetMap
<1> QED
  BY <1>3, Zenon DEF Ok

\* What is not cached, and what a store action exports, are no headers.
LEMMA MissHasNoHeaders == Miss.kind # "headers"
  BY DEF Miss

LEMMA BytesAreNoHeaders ==
    ASSUME NEW v PROVE Bytes(v).kind # "headers"
  BY DEF Bytes

\* get_or_insert_with never replaces an entry, answers with the entry it
\* leaves, and leaves for a map what the host holds in its window.
LEMMA GetFacts ==
    ASSUME IInv, NEW p \in Paths, NEW T, NEW fetched \in Fetch(p)
    PROVE  LET got == GetOrInsertWith(p, T, fetched)
           IN  /\ cache[p] # Miss => got[1] = cache[p]
               /\ got[2].tag = "Available" => got[1] # Miss /\ got[2] = Available(p, got[1])
               /\ p \in Maps /\ IsOpen(p) /\ got[1].kind = "headers" => got[1] = Headers(hostMap[p])
               /\ p = "response.headers" /\ got[1].kind = "headers" => phase \in {"response", "streaming"}
<1> DEFINE got == GetOrInsertWith(p, T, fetched)
<1>1. CASE cache[p] # Miss
  <2>1. got = <<cache[p], FromCached(p, cache[p], T)>>
    BY <1>1, Zenon DEF GetOrInsertWith
  <2>2. got[1] = cache[p] /\ got[2] = FromCached(p, cache[p], T)
    BY <2>1
  <2>3. got[2].tag = "Available" => got[2] = Available(p, got[1])
    BY <2>2 DEF FromCached, Available, Error
  <2> QED
    BY <1>1, <2>2, <2>3 DEF IInv, CacheIsWriteThrough, ResponseIsLater
<1>2. CASE cache[p] = Miss /\ fetched.tag = "Ok"
  <2>1. got = <<fetched.value, FromCached(p, fetched.value, T)>>
    BY <1>2 DEF GetOrInsertWith, NotAvailable, Err
  <2>2. got[1] = fetched.value /\ got[2] = FromCached(p, fetched.value, T)
    BY <2>1
  <2>3. fetched.value # Miss
    BY <1>2 DEF Fetch, GetMap, Property, Ok, Err, NotAvailable, NoValue, Bytes, Headers, Miss
  <2>4. p \in Maps => IsOpen(p) /\ fetched.value = Headers(hostMap[p])
    BY <1>2, FetchMap, Zenon
  <2>5. got[2].tag = "Available" => got[2] = Available(p, got[1])
    BY <2>2 DEF FromCached, Available, Error
  <2>6. p = "response.headers" => phase = "response"
    BY <2>4, Zenon DEF IsOpen, Window, Maps
  <2> QED
    BY <1>2, <2>2, <2>3, <2>4, <2>5, <2>6
<1>3. CASE cache[p] = Miss /\ fetched.tag # "Ok"
  <2>1. got[1] = Miss /\ got[2].tag # "Available"
    BY <1>3, Zenon DEF GetOrInsertWith, Pending, Error
  <2> QED
    BY <1>3, <2>1, MissHasNoHeaders
<1> QED
  BY <1>1, <1>2, <1>3, Zenon

\* A step that reads p into the cache, and what it keeps.
ReadInto(p, got) ==
    /\ cache' = [cache EXCEPT ![p] = got[1]]
    /\ seen' = See(seen, got[2])
    /\ UNCHANGED <<phase, hostMap>>

ReadKept(p, got) ==
    /\ DOMAIN cache' = Paths /\ DOMAIN seen' = Paths /\ DOMAIN hostMap' = Maps
    /\ SeenIsCached' /\ CacheIsWriteThrough' /\ ResponseIsLater'
    /\ \A q \in Paths : seen[q] # Miss => seen'[q] = seen[q]
    /\ got[2].tag = "Available" => got[2].path = p /\ seen'[p] # Miss /\ got[2].value = seen'[p]

\* A read keeps the invariant: the entry got for p is cached, and an answer is
\* seen for the first time or again.
LEMMA ReadKeeps ==
    ASSUME IInv, NEW p \in Paths, NEW T, NEW fetched \in Fetch(p),
           ReadInto(p, GetOrInsertWith(p, T, fetched))
    PROVE  ReadKept(p, GetOrInsertWith(p, T, fetched))
<1> DEFINE got == GetOrInsertWith(p, T, fetched)
<1> HIDE DEF got
<1>1. /\ cache[p] # Miss => got[1] = cache[p]
      /\ got[2].tag = "Available" => got[1] # Miss /\ got[2] = Available(p, got[1])
      /\ p \in Maps /\ IsOpen(p) /\ got[1].kind = "headers" => got[1] = Headers(hostMap[p])
      /\ p = "response.headers" /\ got[1].kind = "headers" => phase \in {"response", "streaming"}
  BY GetFacts, Zenon DEF got
<1>2. cache' = [cache EXCEPT ![p] = got[1]] /\ seen' = See(seen, got[2])
  BY Zenon DEF got, ReadInto
<1>a. UNCHANGED <<phase, hostMap>>
  BY Zenon DEF ReadInto
<1>3. \A q \in Paths : cache'[q] = IF q = p THEN got[1] ELSE cache[q]
  BY <1>2, Zenon DEF IInv, Shape
<1>4. got[2].tag = "Available" => got[2].path = p /\ got[2].value = got[1]
  BY <1>1 DEF Available
<1>5. \A q \in Paths : seen'[q] = IF q = p /\ got[2].tag = "Available" /\ seen[p] = Miss
                                  THEN got[1] ELSE seen[q]
  BY <1>2, <1>4, Zenon DEF See, IInv, Shape
<1>6. DOMAIN cache' = Paths /\ DOMAIN seen' = Paths /\ DOMAIN hostMap' = Maps
  BY <1>2, <1>a, Zenon DEF See, IInv, Shape
<1>7. SeenIsCached'
  BY <1>1, <1>3, <1>5, Zenon DEF SeenIsCached, IInv
<1>8. CacheIsWriteThrough'
  BY <1>1, <1>3, <1>a DEF CacheIsWriteThrough, IInv, Paths, IsOpen, Window, Headers
<1>9. ResponseIsLater'
  BY <1>1, <1>3, <1>a, Zenon DEF ResponseIsLater, IInv, Paths, Maps
<1>10. got[2].tag = "Available" => got[2].path = p /\ seen'[p] # Miss /\ got[2].value = seen'[p]
  BY <1>1, <1>4, <1>5, Zenon DEF IInv, SeenIsCached
<1> QED
  BY <1>5, <1>6, <1>7, <1>8, <1>9, <1>10 DEF got, ReadKept

LEMMA InitIInv == Init => IInv
<1> SUFFICES ASSUME Init PROVE IInv
  BY Zenon
<1>1. Shape
  BY Zenon DEF Init, Shape
<1>2. \A p \in Paths : cache[p] = Miss /\ seen[p] = Miss
  BY Zenon DEF Init
<1>3. "response.headers" \in Paths /\ Maps \subseteq Paths
  BY Zenon DEF Paths, Maps
<1> QED
  BY <1>1, <1>2, <1>3, MissHasNoHeaders, Zenon DEF Init, IInv, SeenIsCached, AnswerIsSeen, CacheIsWriteThrough, ResponseIsLater,
     SentIsKept, IdShape, Pending

LEMMA GetAttributeKeeps ==
    ASSUME IInv, NEW p \in Paths, NEW T, GetAttribute(p, T) PROVE IInv'
<1>1. PICK fetched \in Fetch(p) :
          /\ ReadInto(p, GetOrInsertWith(p, T, fetched))
          /\ answer' = GetOrInsertWith(p, T, fetched)[2]
  BY Zenon DEF GetAttribute, ReadInto
<1>2. UNCHANGED <<phase, hostMap, id, generated, sent>>
  BY Zenon DEF GetAttribute
<1>3. ReadKept(p, GetOrInsertWith(p, T, fetched))
  BY <1>1, ReadKeeps, Zenon
<1>4. AnswerIsSeen'
  BY <1>1, <1>3, Zenon DEF AnswerIsSeen, ReadKept
<1> QED
  BY <1>2, <1>3, <1>4, Zenon DEF IInv, Shape, SentIsKept, IdShape, ReadKept

LEMMA EnsureAttributeKeeps ==
    ASSUME IInv, NEW p \in Paths, EnsureAttribute(p) PROVE IInv'
<1>1. PICK fetched \in Fetch(p) :
          cache' = [cache EXCEPT ![p] = IF fetched.tag = "Ok" THEN fetched.value ELSE Miss]
  BY Zenon DEF EnsureAttribute
<1>2. cache[p] = Miss /\ UNCHANGED <<phase, hostMap, id, generated, answer, seen, sent>>
  BY Zenon DEF EnsureAttribute
<1>3. \A q \in Paths : q # p => cache'[q] = cache[q]
  BY <1>1, Zenon DEF IInv, Shape
<1>4. cache'[p] = IF fetched.tag = "Ok" THEN fetched.value ELSE Miss
  BY <1>1, Zenon DEF IInv, Shape
<1>5. p \in Maps /\ fetched.tag = "Ok" => IsOpen(p) /\ fetched.value = Headers(hostMap[p])
  BY FetchMap, Zenon
<1>6. seen[p] = Miss
  BY <1>2, Zenon DEF IInv, SeenIsCached
<1>7. SeenIsCached'
  BY <1>2, <1>3, <1>6, Zenon DEF IInv, SeenIsCached
<1>8. CacheIsWriteThrough'
  BY <1>2, <1>3, <1>4, <1>5, MissHasNoHeaders DEF IInv, CacheIsWriteThrough, Paths, IsOpen, Window, Headers
<1>9. ResponseIsLater'
  BY <1>2, <1>3, <1>4, <1>5, MissHasNoHeaders DEF IInv, ResponseIsLater, Paths, Maps, IsOpen, Window
<1>10. DOMAIN cache' = Paths
  BY <1>1, Zenon DEF IInv, Shape
<1> QED
  BY <1>2, <1>7, <1>8, <1>9, <1>10 DEF IInv, Shape, AnswerIsSeen, SentIsKept, IdShape

\* An edit reaches the host, the cache and the history alike, or none of them.
LEMMA ModifyHeadersKeeps ==
    ASSUME IInv, NEW m \in Maps, NEW o, ModifyHeaders(m, o) PROVE IInv'
<1> m \in Paths
  BY Zenon DEF Paths
<1>1. PICK fetched \in Fetch(m), accepted \in BOOLEAN :
          LET got == GetOrInsertWith(m, "headers", fetched)
          IN  IF got[2].tag = "Available"
              THEN StoreAttributeHeaders(m, got[1], Edit(got[1].map, o), accepted)
              ELSE /\ cache' = [cache EXCEPT ![m] = got[1]]
                   /\ answer' = got[2]
                   /\ UNCHANGED <<hostMap, seen>>
  BY Zenon DEF ModifyHeaders
<1>2. UNCHANGED <<phase, hostProp, address, id, generated, sent>>
  BY Zenon DEF ModifyHeaders
<1> DEFINE got == GetOrInsertWith(m, "headers", fetched)
           h == Edit(got[1].map, o)
<1>3. got[2].tag = "Available" => got[1] # Miss /\ got[2] = Available(m, got[1])
  BY GetFacts
<1>4. CASE got[2].tag = "Available" /\ IsOpen(m) /\ accepted
  <2> HIDE DEF h
  <2>1. /\ hostMap' = [hostMap EXCEPT ![m] = h]
        /\ cache' = [cache EXCEPT ![m] = Headers(h)]
        /\ seen' = [seen EXCEPT ![m] = Headers(h)]
        /\ answer' = Available(m, Headers(h))
    BY <1>1, <1>4, Zenon DEF StoreAttributeHeaders, h
  <2>2. DOMAIN cache' = Paths /\ DOMAIN seen' = Paths /\ DOMAIN hostMap' = Maps
    BY <2>1, Zenon DEF IInv, Shape
  <2>3. cache'[m] = Headers(h) /\ seen'[m] = Headers(h) /\ hostMap'[m] = h
    BY <2>1, Zenon DEF IInv, Shape
  <2>4. \A q \in Paths \ {m} : cache'[q] = cache[q] /\ seen'[q] = seen[q]
    BY <2>1, Zenon DEF IInv, Shape
  <2>5. \A n \in Maps \ {m} : hostMap'[n] = hostMap[n]
    BY <2>1, Zenon DEF IInv, Shape
  <2>6. SeenIsCached'
    BY <2>3, <2>4, Zenon DEF IInv, SeenIsCached
  <2>7. CacheIsWriteThrough'
    BY <1>2, <2>3, <2>4, <2>5 DEF IInv, CacheIsWriteThrough, Paths, IsOpen, Window
  <2>8. ResponseIsLater'
    BY <1>2, <1>4, <2>4 DEF IInv, ResponseIsLater, IsOpen, Window, Paths, Maps
  <2>9. AnswerIsSeen'
    BY <2>1, <2>3 DEF AnswerIsSeen, Available, Headers, Miss
  <2> QED
    BY <1>2, <2>2, <2>6, <2>7, <2>8, <2>9, Zenon DEF IInv, Shape, SentIsKept, IdShape
<1>5. CASE got[2].tag = "Available" /\ ~(IsOpen(m) /\ accepted)
  <2>1. StoreAttributeHeaders(m, got[1], h, accepted)
    BY <1>1, <1>5, Zenon
  <2>2. /\ answer' \in {Pending(m), Error(m)}
        /\ cache' = [cache EXCEPT ![m] = got[1]]
        /\ seen' = See(seen, got[2])
        /\ UNCHANGED hostMap
    BY <2>1, <1>3, <1>5 DEF StoreAttributeHeaders
  <2>3. ReadInto(m, got)
    BY <1>2, <2>2, Zenon DEF ReadInto
  <2>4. ReadKept(m, got)
    BY <2>3, ReadKeeps, Zenon
  <2>5. AnswerIsSeen'
    BY <2>2 DEF AnswerIsSeen, Pending, Error
  <2> QED
    BY <1>2, <2>4, <2>5 DEF IInv, Shape, SentIsKept, IdShape, ReadKept
<1>6. CASE got[2].tag # "Available"
  <2>1. cache' = [cache EXCEPT ![m] = got[1]] /\ answer' = got[2] /\ UNCHANGED <<hostMap, seen>>
    BY <1>1, <1>6, Zenon
  <2>2. ReadInto(m, got)
    BY <1>2, <1>6, <2>1 DEF ReadInto, See
  <2>3. ReadKept(m, got)
    BY <2>2, ReadKeeps, Zenon
  <2>4. AnswerIsSeen'
    BY <1>6, <2>1, Zenon DEF AnswerIsSeen
  <2> QED
    BY <1>2, <2>3, <2>4, Zenon DEF IInv, Shape, SentIsKept, IdShape, ReadKept
<1> QED
  BY <1>4, <1>5, <1>6

LEMMA SetAttributeKeeps ==
    ASSUME IInv, NEW p \in Exports, NEW v, SetAttribute(p, v) PROVE IInv'
<1>0. p \in Paths
  BY PathAssumption, Zenon DEF Paths
<1>1. cache'[p] = Bytes(v) /\ seen'[p] = Bytes(v)
  BY <1>0, Zenon DEF SetAttribute, IInv, Shape
<1>2. \A q \in Paths \ {p} : cache'[q] = cache[q] /\ seen'[q] = seen[q]
  BY Zenon DEF SetAttribute, IInv, Shape
<1>3. DOMAIN cache' = Paths /\ DOMAIN seen' = Paths
  BY Zenon DEF SetAttribute, IInv, Shape
<1>4. answer' = Available(p, Bytes(v)) /\ UNCHANGED <<phase, hostMap, id, generated, sent>>
  BY Zenon DEF SetAttribute
<1>5. SeenIsCached'
  BY <1>1, <1>2, Zenon DEF IInv, SeenIsCached
<1>6. CacheIsWriteThrough'
  BY <1>1, <1>2, <1>4, BytesAreNoHeaders, Zenon DEF IInv, CacheIsWriteThrough, Paths, IsOpen, Window
<1>7. ResponseIsLater'
  BY <1>1, <1>2, <1>4, BytesAreNoHeaders, Zenon DEF IInv, ResponseIsLater, Paths, Maps
<1>8. AnswerIsSeen'
  BY <1>0, <1>1, <1>4 DEF AnswerIsSeen, Available, Bytes, Miss
<1> QED
  BY <1>3, <1>4, <1>5, <1>6, <1>7, <1>8 DEF IInv, Shape, SentIsKept, IdShape

\* An identifier is chosen once, and only chosen ones are sent.
LEMMA RequestIdKeeps ==
    ASSUME IInv, RequestId PROVE IInv'
<1> DEFINE p == "request.headers"
<1> p \in Paths
  BY Zenon DEF Paths, Maps
<1>1. UNCHANGED <<phase, hostMap, hostProp, address, answer>>
  BY Zenon DEF RequestId
<1>2. CASE id # <<>>
  <2>1. sent' = sent \cup {id[1]} /\ UNCHANGED <<cache, seen, id, generated>>
    BY <1>2, Zenon DEF RequestId
  <2>2. SentIsKept'
    BY <1>2, <2>1 DEF IInv, SentIsKept, IdShape
  <2> QED
    BY <1>1, <2>1, <2>2, Zenon DEF IInv, Shape, SeenIsCached, AnswerIsSeen, CacheIsWriteThrough, ResponseIsLater,
       IdShape, IsOpen, Window
<1>3. CASE id = <<>>
  <2>1. PICK fetched \in Fetch(p) :
            /\ cache' = [cache EXCEPT ![p] = GetOrInsertWith(p, "headers", fetched)[1]]
            /\ seen' = See(seen, GetOrInsertWith(p, "headers", fetched)[2])
            /\ id' = <<NewId(GetOrInsertWith(p, "headers", fetched)[2])>>
            /\ generated' = IF id'[1] = generated + 1 THEN generated + 1 ELSE generated
            /\ generated' <= MaxIds
            /\ sent' = sent \cup {id'[1]}
    BY <1>3, Zenon DEF RequestId
  <2>2. ReadInto(p, GetOrInsertWith(p, "headers", fetched))
    BY <1>1, <2>1, Zenon DEF ReadInto
  <2>3. ReadKept(p, GetOrInsertWith(p, "headers", fetched))
    BY <2>2, ReadKeeps, Zenon
  <2>4. AnswerIsSeen'
    BY <1>1, <2>3, Zenon DEF IInv, AnswerIsSeen, ReadKept
  <2>5. generated' \in Nat
    BY <2>1 DEF IInv, Shape
  <2>6. sent = {}
    BY <1>3, Zenon DEF IInv, SentIsKept
  <2>7. SentIsKept' /\ IdShape'
    BY <2>1, <2>6, Zenon DEF SentIsKept, IdShape
  <2> QED
    BY <2>3, <2>4, <2>5, <2>7 DEF IInv, Shape, ReadKept
<1> QED
  BY <1>2, <1>3, Zenon

LEMMA HostKeeps ==
    ASSUME IInv, Advance \/ (\E m \in Maps : ChangeMap(m)) \/ (\E p \in Properties : ChangeProperty(p))
    PROVE  IInv'
<1>1. UNCHANGED <<cache, id, generated, answer, seen, sent>>
  BY Zenon DEF Advance, ChangeMap, ChangeProperty
<1>2. DOMAIN hostMap' = Maps
  BY Zenon DEF Advance, ChangeMap, ChangeProperty, IInv, Shape
<1>3. ResponseIsLater'
  BY <1>1, Zenon DEF Advance, ChangeMap, ChangeProperty, IInv, ResponseIsLater
<1>4. CacheIsWriteThrough'
  <2>1. CASE Advance
    <3>1. phase' \in {"upstream", "response", "streaming"}
      BY <2>1, Zenon DEF Advance
    <3>2. phase' = "response" => cache["response.headers"].kind # "headers"
      BY <2>1, Zenon DEF Advance, IInv, ResponseIsLater
    <3> QED
      BY <1>1, <3>1, <3>2 DEF CacheIsWriteThrough, IsOpen, Window, Maps
  <2>2. ASSUME NEW m \in Maps, ChangeMap(m) PROVE CacheIsWriteThrough'
    <3>1. phase' = phase /\ phase # Window(m) /\ \A n \in Maps \ {m} : hostMap'[n] = hostMap[n]
      BY <2>2, Zenon DEF ChangeMap, IsOpen, IInv, Shape
    <3> QED
      BY <1>1, <3>1 DEF IInv, CacheIsWriteThrough, IsOpen, Window
  <2>3. ASSUME NEW p \in Properties, ChangeProperty(p) PROVE CacheIsWriteThrough'
    BY <1>1, <2>3 DEF ChangeProperty, IInv, CacheIsWriteThrough, IsOpen, Window
  <2> QED
    BY <2>1, <2>2, <2>3
<1> QED
  BY <1>1, <1>2, <1>3, <1>4 DEF IInv, Shape, SeenIsCached, AnswerIsSeen, SentIsKept, IdShape

LEMMA NextKeeps == IInv /\ [Next]_vars => IInv'
<1> SUFFICES ASSUME IInv, [Next]_vars PROVE IInv'
  BY Zenon
<1>1. ASSUME NEW p \in Exports, SetAttributeRefused(p) PROVE IInv'
  BY <1>1, Zenon DEF SetAttributeRefused, IInv, Shape, SeenIsCached, AnswerIsSeen, CacheIsWriteThrough,
     ResponseIsLater, SentIsKept, IdShape, IsOpen, Window, Error
<1>2. CASE UNCHANGED vars
  BY <1>2, Zenon DEF vars, IInv, Shape, SeenIsCached, AnswerIsSeen, CacheIsWriteThrough,
     ResponseIsLater, SentIsKept, IdShape, IsOpen, Window
<1>3. CASE Next
  BY <1>1, <1>3, GetAttributeKeeps, EnsureAttributeKeeps, ModifyHeadersKeeps, SetAttributeKeeps,
     RequestIdKeeps, HostKeeps DEF Next
<1> QED
  BY <1>2, <1>3, Zenon

\* For any attributes, header operations and behaviour of the host a stream
\* reads its own past, sees an open header map as the host holds it, and uses
\* one request identifier.
THEOREM CoherenceTheorem == Spec => []ContextCoherent
<1>1. IInv => ReadsAreRepeatable
  BY Zenon DEF IInv, AnswerIsSeen, ReadsAreRepeatable
<1>2. IInv => CacheIsWriteThrough
  BY Zenon DEF IInv
<1>3. IInv => OneRequestId
  BY DEF IInv, SentIsKept, OneRequestId
<1>4. IInv => ContextCoherent
  BY <1>1, <1>2, <1>3 DEF ContextCoherent
<1> QED
  BY <1>4, InitIInv, NextKeeps, PTL DEF Spec

-----------------------------------------------------------------------------
(* The response body.                                                      *)

\* Every variable holds a value of its type.  The host only holds, and the
\* task only has, bytes that were delivered.
ReaderTypes ==
    /\ sse \in BOOLEAN /\ reread \in BOOLEAN /\ cut \in BOOLEAN
    /\ task \in {"queued", "done", "failed"}
    /\ strategy \in {"none", SelectStrategy}
    /\ stage \in {"request", "body", "ended", "trailers"}
    /\ delivered \in 0..Length
    /\ response_body_size \in Nat
    /\ response_end_of_stream = (stage = "ended")
    /\ held \in Seq(1..delivered) /\ buffer \in Seq(1..delivered)
    /\ stage = "request" => delivered = 0

\* What the task has read so far, whatever its strategy.
ReadSoFar ==
    /\ strategy = "none" <=> stage = "request"
    /\ stage # "ended"
    /\ values = {}
    /\ ~sse => Range(buffer) = 1..delivered
    /\ ~reread /\ (sse => ~cut) => buffer = SubSeq(Body, 1, delivered)

\* The inductive invariant.
BInv ==
    /\ ReaderTypes
    /\ task = "queued" => ReadSoFar
    /\ EndSettles
    /\ FieldsAreSet

-----------------------------------------------------------------------------
(* Pieces of the body.                                                     *)

\* The piece of n bytes after the first a.
LEMMA Piece ==
    ASSUME NEW a \in Nat, NEW n \in Nat, a + n <= Length
    PROVE  LET p == SubSeq(Body, a + 1, a + n) IN
           /\ p \in Seq(1..(a + n)) /\ Len(p) = n
           /\ \A i \in 1..n : p[i] = a + i
<1>1. Body \in Seq(1..Length) /\ Len(Body) = Length /\ \A i \in 1..Length : Body[i] = i
  BY LengthAssumption DEF Body
<1> DEFINE p == SubSeq(Body, a + 1, a + n)
<1>2. Len(p) = n /\ \A i \in 1..n : p[i] = Body[a + 1 + i - 1]
  BY <1>1, LengthAssumption
<1>3. \A i \in 1..n : p[i] = a + i
  BY <1>1, <1>2, LengthAssumption
<1>4. p \in Seq(1..Length)
  BY <1>1, LengthAssumption
<1> HIDE DEF p
<1>5. \A i \in 1..Len(p) : p[i] \in 1..(a + n)
  BY <1>2, <1>3
<1>6. p \in Seq(1..(a + n))
  BY <1>4, <1>5
<1> QED
  BY <1>2, <1>3, <1>6 DEF p

\* The first n bytes.
LEMMA FirstPiece ==
    ASSUME NEW n \in Nat, n <= Length
    PROVE  LET p == SubSeq(Body, 1, n) IN
           p \in Seq(1..n) /\ Len(p) = n /\ \A i \in 1..n : p[i] = i
<1> DEFINE p == SubSeq(Body, 0 + 1, 0 + n)
<1>1. p \in Seq(1..(0 + n)) /\ Len(p) = n /\ \A i \in 1..n : p[i] = 0 + i
  <2>1. 0 \in Nat /\ 0 + n <= Length
    OBVIOUS
  <2> QED
    BY <2>1, Piece, Zenon
<1>2. 0 + n = n /\ 0 + 1 = 1
  OBVIOUS
<1>3. p = SubSeq(Body, 1, n)
  BY <1>2, Zenon
<1> HIDE DEF p
<1>4. p \in Seq(1..n) /\ \A i \in 1..n : p[i] = i
  BY <1>1
<1> QED
  BY <1>1, <1>3, <1>4, Zenon

\* A piece that follows what is there.
LEMMA PieceFollows ==
    ASSUME NEW a \in Nat, NEW n \in Nat, a + n <= Length
    PROVE  SubSeq(Body, 1, a) \o SubSeq(Body, a + 1, a + n) = SubSeq(Body, 1, a + n)
<1> DEFINE s == SubSeq(Body, 1, a)
           p == SubSeq(Body, a + 1, a + n)
           t == SubSeq(Body, 1, a + n)
<1>1. a <= Length /\ a + n \in Nat
  BY LengthAssumption
<1>2. s \in Seq(Nat) /\ Len(s) = a /\ \A i \in 1..a : s[i] = i
  <2>1. s \in Seq(1..a) /\ Len(s) = a /\ \A i \in 1..a : s[i] = i
    BY <1>1, FirstPiece, Zenon
  <2> HIDE DEF s
  <2> QED
    BY <2>1
<1>3. p \in Seq(Nat) /\ Len(p) = n /\ \A i \in 1..n : p[i] = a + i
  <2>1. p \in Seq(1..(a + n)) /\ Len(p) = n /\ \A i \in 1..n : p[i] = a + i
    BY Piece, Zenon
  <2> HIDE DEF p
  <2> QED
    BY <2>1
<1>4. t \in Seq(Nat) /\ Len(t) = a + n /\ \A i \in 1..(a + n) : t[i] = i
  <2>1. t \in Seq(1..(a + n)) /\ Len(t) = a + n /\ \A i \in 1..(a + n) : t[i] = i
    BY <1>1, FirstPiece, Zenon
  <2> HIDE DEF t
  <2> QED
    BY <2>1
<1> HIDE DEF s, p, t
<1>5. s \o p \in Seq(Nat) /\ Len(s \o p) = a + n
  BY <1>2, <1>3
<1>6. \A i \in 1..(a + n) : (s \o p)[i] = i
  BY <1>2, <1>3
<1> QED
  BY <1>4, <1>5, <1>6 DEF s, p, t

\* What sequences contain.
LEMMA RangeFacts ==
    ASSUME NEW T, NEW s \in Seq(T), NEW t \in Seq(T)
    PROVE  /\ Range(s) \subseteq T
           /\ Range(s \o t) = Range(s) \cup Range(t)
           /\ Range(s) = {} => s = <<>>
<1>1. Range(s) = {s[i] : i \in 1..Len(s)} /\ Range(t) = {t[i] : i \in 1..Len(t)}
  BY DEF Range
<1>2. Range(s \o t) = {(s \o t)[i] : i \in 1..(Len(s) + Len(t))}
  BY DEF Range
<1>3. /\ \A i \in 1..Len(s) : (s \o t)[i] = s[i]
      /\ \A i \in 1..Len(t) : (s \o t)[Len(s) + i] = t[i]
  OBVIOUS
<1>4. Range(s \o t) \subseteq Range(s) \cup Range(t)
  <2> SUFFICES ASSUME NEW i \in 1..(Len(s) + Len(t)) PROVE (s \o t)[i] \in Range(s) \cup Range(t)
    BY <1>2, Zenon
  <2>1. CASE i \in 1..Len(s)
    BY <1>1, <1>3, <2>1, Zenon
  <2>2. CASE i \notin 1..Len(s)
    <3>1. i - Len(s) \in 1..Len(t) /\ i = Len(s) + (i - Len(s))
      BY <2>2
    <3>2. (s \o t)[i] = t[i - Len(s)]
      BY <1>3, <3>1, Zenon
    <3> QED
      BY <1>1, <3>1, <3>2, Zenon
  <2> QED
    BY <2>1, <2>2, Zenon
<1>5. Range(s) \cup Range(t) \subseteq Range(s \o t)
  <2>1. \A i \in 1..Len(s) : i \in 1..(Len(s) + Len(t))
    OBVIOUS
  <2>2. \A i \in 1..Len(t) : Len(s) + i \in 1..(Len(s) + Len(t))
    OBVIOUS
  <2> QED
    BY <1>1, <1>2, <1>3, <2>1, <2>2, Zenon
<1>6. Range(s) = {} => s = <<>>
  <2> SUFFICES ASSUME s # <<>> PROVE s[1] \in Range(s)
    BY Zenon
  <2>1. 1 \in 1..Len(s)
    OBVIOUS
  <2> QED
    BY <1>1, <2>1, Zenon
<1>7. Range(s) \subseteq T
  BY <1>1
<1> QED
  BY <1>4, <1>5, <1>6, <1>7

\* Bytes that were delivered have been delivered later too.
LEMMA Wider ==
    ASSUME NEW a \in Nat, NEW b \in Nat, a <= b, NEW s \in Seq(1..a)
    PROVE  s \in Seq(1..b)
<1>1. \A i \in 1..Len(s) : s[i] \in 1..b
  OBVIOUS
<1> QED
  BY <1>1

\* What an eval reads of the bytes the host shows: all of them, if it goes by
\* their number, and none, if there are none.
LEMMA ReadFacts ==
    ASSUME NEW T, NEW w \in Seq(T), response_body_size' \in Nat
    PROVE  /\ Read(w) \in Seq(T)
           /\ response_body_size' = Len(w) => Read(w) = w
           /\ w = <<>> => Read(w) = <<>>
<1> DEFINE size == response_body_size'
           m == Min({size, Len(w)})
<1>1. Len(w) \in Nat /\ size \in Nat
  OBVIOUS
<1> HIDE DEF size
<1>2. \E x \in {size, Len(w)} : \A y \in {size, Len(w)} : x <= y
  BY <1>1
<1>3. m \in {size, Len(w)} /\ m <= size /\ m <= Len(w)
  BY <1>2, Zenon DEF Min
<1> HIDE DEF m
<1>4. m \in 0..Len(w)
  BY <1>1, <1>3
<1>5. SubSeq(w, 1, m) \in Seq(T) /\ Len(SubSeq(w, 1, m)) = m /\ \A i \in 1..m : SubSeq(w, 1, m)[i] = w[i]
  BY <1>1, <1>4
<1>6. size = Len(w) => SubSeq(w, 1, m) = w
  BY <1>1, <1>3, <1>5
<1>7. w = <<>> => SubSeq(w, 1, m) = <<>>
  BY <1>1, <1>4, <1>5
<1>8. Read(w) = SubSeq(w, 1, m)
  BY Zenon DEF Read, m, size
<1> QED
  BY <1>5, <1>6, <1>7, <1>8, Zenon DEF size

-----------------------------------------------------------------------------
(* TokenUsageTask::apply.                                                  *)

\* What the host and the context are after a callback: only bytes that were
\* delivered are held, and the end of stream is known when it comes.
HostGoesOn ==
    /\ sse' = sse
    /\ delivered' \in 0..Length /\ delivered <= delivered'
    /\ response_body_size' \in Nat
    /\ stage' \in {"request", "body", "ended", "trailers"}
    /\ response_end_of_stream' = (stage' = "ended")
    /\ held' \in Seq(1..delivered')
    /\ stage' = "request" => stage = "request" /\ delivered' = 0
    /\ stage = "ended" => stage' = "ended"

\* Nothing arrives: a callback without a body, or an answer.
NothingNew == delivered' = delivered /\ (stage' = "ended" => stage = "ended")

\* A piece arrives, and the host shows it behind what it holds.
PieceArrives(window) ==
    /\ stage = "body" /\ stage' # "request"
    /\ window = held \o SubSeq(Body, delivered + 1, delivered')
    /\ response_body_size' = Len(window)
    /\ stage' = "ended" => delivered' = Length

\* A task that has been settled is not applied again.
LEMMA SettledKeeps ==
    ASSUME BInv, NEW window, HostGoesOn, Apply(window), task # "queued"
    PROVE  BInv'
<1>1. UNCHANGED <<task, strategy, buffer, values, reread, cut>>
  BY Zenon DEF Apply, reader
<1>2. buffer' \in Seq(1..delivered')
  <2>1. delivered \in Nat /\ delivered' \in Nat /\ buffer \in Seq(1..delivered)
    BY LengthAssumption DEF BInv, ReaderTypes, HostGoesOn
  <2> QED
    BY <1>1, <2>1, Wider DEF HostGoesOn
<1>3. ReaderTypes'
  BY <1>1, <1>2, Zenon DEF BInv, ReaderTypes, HostGoesOn, SelectStrategy
<1> QED
  BY <1>1, <1>3 DEF BInv, HostGoesOn, EndSettles, FieldsAreSet, Supported, Present

\* The bytes the strategy has after an eval that reads.
LEMMA FeedFacts ==
    ASSUME BInv, task = "queued", HostGoesOn, NEW window \in Seq(1..delivered'),
           NothingNew \/ PieceArrives(window),
           strategy' = SelectStrategy, ApplyReads(window)
    PROVE  /\ buffer' \in Seq(1..delivered')
           /\ ~sse => Range(buffer') = 1..delivered'
           /\ ~reread' /\ (sse => ~cut') => buffer' = SubSeq(Body, 1, delivered')
<1> DEFINE d == delivered
           e == delivered'
           S == 1..e
           bytes == Read(window)
<1>1. /\ d \in Nat /\ e \in Nat /\ Length \in Nat /\ d <= e /\ e <= Length
      /\ sse \in BOOLEAN
      /\ buffer \in Seq(1..d) /\ held \in Seq(1..d)
      /\ reread \in BOOLEAN /\ cut \in BOOLEAN
  BY LengthAssumption DEF BInv, ReaderTypes, HostGoesOn
<1>2. buffer \in Seq(S) /\ held \in Seq(S)
  BY <1>1, Wider, Zenon
<1>3. /\ ~sse => Range(buffer) = 1..d
      /\ ~reread /\ (sse => ~cut) => buffer = SubSeq(Body, 1, d)
  BY Zenon DEF BInv, ReadSoFar
<1>4. /\ bytes \in Seq(S)
      /\ response_body_size' = Len(window) => bytes = window
      /\ window = <<>> => bytes = <<>>
  BY ReadFacts, Zenon DEF HostGoesOn
<1>5. /\ buffer' = IF sse /\ IsCut(bytes) THEN buffer ELSE buffer \o bytes
      /\ ~reread' => ~reread /\ \A x \in Range(bytes) : ~(x <= d)
      /\ ~cut' => ~cut /\ ~IsCut(bytes)
  BY <1>1, Zenon DEF ApplyReads, Feed, SelectStrategy
<1> HIDE DEF d, e, S, bytes
<1>6. buffer' \in Seq(S)
  BY <1>2, <1>4, <1>5
<1>7. Range(buffer \o bytes) = Range(buffer) \cup Range(bytes) /\ Range(bytes) \subseteq 1..e
  <2>1. Range(buffer \o bytes) = Range(buffer) \cup Range(bytes) /\ Range(bytes) \subseteq S
    BY <1>2, <1>4, RangeFacts
  <2> QED
    BY <2>1, Zenon DEF S
<1>8. CASE NothingNew
  <2>1. e = d
    BY <1>8, Zenon DEF NothingNew, d, e
  <2>2. ~sse => Range(buffer') = 1..e
    BY <1>3, <1>5, <1>7, <2>1, ZenonT(30)
  <2>3. ASSUME ~reread', sse => ~cut' PROVE buffer' = SubSeq(Body, 1, e)
    <3>1. Range(bytes) = {}
      BY <1>1, <1>5, <1>7, <2>1, <2>3
    <3>2. bytes = <<>>
      BY <1>4, <3>1, RangeFacts
    <3>3. buffer \o bytes = buffer
      BY <1>2, <3>2
    <3> QED
      BY <1>3, <1>5, <2>1, <2>3, <3>3, Zenon
  <2> QED
    BY <1>6, <2>2, <2>3, Zenon DEF S, e
<1>9. CASE PieceArrives(window)
  <2> DEFINE piece == SubSeq(Body, d + 1, e)
  <2>1. bytes = held \o piece
    BY <1>4, <1>9 DEF PieceArrives, d, e
  <2>2. /\ piece \in Seq(S)
        /\ Len(piece) = e - d
        /\ \A i \in 1..(e - d) : piece[i] = d + i
        /\ SubSeq(Body, 1, d) \o piece = SubSeq(Body, 1, e)
    <3>1. e - d \in Nat /\ d + (e - d) = e /\ d + (e - d) <= Length
      BY <1>1
    <3>2. /\ SubSeq(Body, d + 1, d + (e - d)) \in Seq(1..(d + (e - d)))
          /\ Len(SubSeq(Body, d + 1, d + (e - d))) = e - d
          /\ \A i \in 1..(e - d) : SubSeq(Body, d + 1, d + (e - d))[i] = d + i
      BY <1>1, <3>1, Piece, Zenon
    <3>3. SubSeq(Body, 1, d) \o SubSeq(Body, d + 1, d + (e - d)) = SubSeq(Body, 1, d + (e - d))
      BY <1>1, <3>1, PieceFollows, ZenonT(30)
    <3> QED
      BY <3>1, <3>2, <3>3, Zenon DEF S
  <2> HIDE DEF piece
  <2>3. Range(piece) = (d + 1)..e
    <3>1. Range(piece) = {piece[i] : i \in 1..(e - d)}
      BY <2>2 DEF Range
    <3>2. \A x \in (d + 1)..e : x - d \in 1..(e - d) /\ piece[x - d] = x
      BY <1>1, <2>2
    <3>3. \A i \in 1..(e - d) : piece[i] \in (d + 1)..e
      BY <1>1, <2>2
    <3> QED
      BY <3>1, <3>2, <3>3
  <2>4. Range(held) \subseteq 1..d
    BY <1>1, RangeFacts
  <2>5. Range(bytes) = Range(held) \cup Range(piece)
    BY <1>2, <2>1, <2>2, RangeFacts
  <2>6. ASSUME ~sse PROVE Range(buffer') = 1..e
    <3>1. Range(buffer') = (1..d) \cup (Range(held) \cup ((d + 1)..e))
      BY <1>3, <1>5, <1>7, <2>3, <2>5, <2>6
    <3> QED
      BY <1>1, <2>4, <3>1
  <2>7. ASSUME ~reread', sse => ~cut' PROVE buffer' = SubSeq(Body, 1, e)
    <3>1. Range(held) = {}
      BY <1>1, <1>5, <2>4, <2>5, <2>7
    <3>2. held = <<>>
      BY <1>1, <3>1, RangeFacts
    <3>3. bytes = piece
      BY <2>1, <2>2, <3>2
    <3>4. buffer = SubSeq(Body, 1, d) /\ buffer' = buffer \o bytes
      BY <1>1, <1>3, <1>5, <2>7
    <3> QED
      BY <2>2, <3>3, <3>4, Zenon
  <2> QED
    BY <1>6, <2>6, <2>7 DEF S, e
<1> QED
  BY <1>8, <1>9, Zenon

\* An eval that reads, at the end of the body or before it.
LEMMA ReadsKeep ==
    ASSUME BInv, task = "queued", HostGoesOn, NEW window \in Seq(1..delivered'),
           NothingNew \/ PieceArrives(window),
           strategy' = SelectStrategy, stage' # "request", ApplyReads(window)
    PROVE  BInv'
<1>1. /\ buffer' \in Seq(1..delivered')
      /\ ~sse => Range(buffer') = 1..delivered'
      /\ ~reread' /\ (sse => ~cut') => buffer' = SubSeq(Body, 1, delivered')
  BY FeedFacts
<1>2. sse \in BOOLEAN /\ stage # "ended" /\ values = {} /\ reread \in BOOLEAN /\ cut \in BOOLEAN
  BY DEF BInv, ReaderTypes, ReadSoFar
<1>3. reread' \in BOOLEAN /\ cut' \in BOOLEAN
  BY <1>2 DEF ApplyReads
<1>4. strategy' = SelectStrategy' /\ strategy' # "none"
  BY <1>2 DEF HostGoesOn, SelectStrategy
<1>5. CASE stage' = "ended"
  <2>1. task' = "done" /\ values' = Extract(SelectStrategy, buffer')
    BY <1>5, Zenon DEF ApplyReads, Finish, HostGoesOn
  <2>2. delivered' = Length
    BY <1>2, <1>5 DEF NothingNew, PieceArrives
  <2>3. ASSUME ~reread', sse => ~cut' PROVE Supported \subseteq values'
    <3>1. Body = SubSeq(Body, 1, Length)
      <4>1. Length \in Nat /\ Length <= Length
        BY LengthAssumption
      <4>2. /\ SubSeq(Body, 1, Length) \in Seq(1..Length) /\ Len(SubSeq(Body, 1, Length)) = Length
            /\ \A i \in 1..Length : SubSeq(Body, 1, Length)[i] = i
        BY <4>1, FirstPiece
      <4>3. Body \in Seq(1..Length) /\ Len(Body) = Length /\ \A i \in 1..Length : Body[i] = i
        BY <4>1 DEF Body
      <4> DEFINE s == SubSeq(Body, 1, Length)
                 S == 1..Length
      <4> HIDE DEF s, S
      <4>4. s \in Seq(S) /\ Body \in Seq(S) /\ Len(s) = Len(Body) /\ \A i \in 1..Len(s) : s[i] = Body[i]
        BY <4>2, <4>3, Zenon DEF s, S
      <4>5. s = Body
        BY <4>4
      <4> QED
        BY <4>5 DEF s
    <3>2. buffer' = Body
      BY <1>1, <2>2, <2>3, <3>1, Zenon
    <3>3. Text(SelectStrategy, buffer') = Document
      BY <3>2 DEF Document
    <3> QED
      BY <2>1, <3>3 DEF Extract
  <2>4. ReaderTypes'
    BY <1>1, <1>3, <1>4, <2>1, <1>2 DEF ReaderTypes, HostGoesOn
  <2>5. EndSettles'
    BY <1>5, <2>1 DEF EndSettles
  <2>6. FieldsAreSet'
    <3>1. values' \subseteq Present
      BY <2>1 DEF Extract, Supported
    <3> QED
      BY <2>3, <3>1 DEF FieldsAreSet, HostGoesOn, Supported, Present
  <2> QED
    BY <2>1, <2>4, <2>5, <2>6 DEF BInv
<1>6. CASE stage' # "ended"
  <2>1. task' = "queued" /\ values' = {}
    BY <1>2, <1>6, Zenon DEF ApplyReads, Finish, HostGoesOn
  <2>2. ReadSoFar'
    BY <1>1, <1>4, <1>6, <2>1, Zenon DEF ReadSoFar, HostGoesOn, Body
  <2>3. ReaderTypes'
    BY <1>1, <1>2, <1>3, <1>4, <2>1 DEF ReaderTypes, HostGoesOn
  <2> QED
    BY <1>6, <2>1, <2>2, <2>3 DEF BInv, EndSettles, FieldsAreSet
<1> QED
  BY <1>5, <1>6

\* An eval that reads nothing: the task is requeued as it is, or it fails.
LEMMA KeepsKeep ==
    ASSUME BInv, task = "queued", HostGoesOn,
           UNCHANGED <<buffer, values, reread, cut>>,
           strategy' \in {"none", SelectStrategy},
           \/ task' = "failed"
           \/ task' = "queued" /\ NothingNew /\ (strategy' = "none" <=> stage' = "request")
    PROVE  BInv'
<1>1. stage # "ended" /\ values' = {} /\ ReadSoFar
  BY DEF BInv, ReadSoFar
<1>2. buffer' \in Seq(1..delivered')
  <2>1. delivered \in Nat /\ delivered' \in Nat /\ buffer \in Seq(1..delivered)
    BY LengthAssumption DEF BInv, ReaderTypes, HostGoesOn
  <2> QED
    BY <2>1, Wider DEF HostGoesOn
<1>3. ReaderTypes'
  BY <1>2 DEF BInv, ReaderTypes, HostGoesOn, SelectStrategy
<1>4. CASE task' = "failed"
  BY <1>1, <1>3, <1>4 DEF BInv, EndSettles, FieldsAreSet
<1>5. CASE task' = "queued" /\ NothingNew /\ (strategy' = "none" <=> stage' = "request")
  <2>1. stage' # "ended" /\ delivered' = delivered
    BY <1>1, <1>5 DEF NothingNew
  <2>2. ReadSoFar'
    BY <1>1, <1>5, <2>1 DEF ReadSoFar, HostGoesOn, Body
  <2> QED
    BY <1>1, <1>3, <1>5, <2>1, <2>2 DEF BInv, EndSettles, FieldsAreSet
<1> QED
  BY <1>4, <1>5

\* Every eval keeps the invariant.
LEMMA ApplyKeeps ==
    ASSUME BInv, HostGoesOn, NEW window \in Seq(1..delivered'),
           NothingNew \/ PieceArrives(window), Apply(window)
    PROVE  BInv'
<1>1. CASE task # "queued"
  BY <1>1, SettledKeeps
<1>2. CASE task = "queued"
  <2>1. /\ strategy = "none" <=> stage = "request"
        /\ stage # "ended"
        /\ strategy \in {"none", SelectStrategy} /\ SelectStrategy # "none"
    BY <1>2 DEF BInv, ReaderTypes, ReadSoFar, SelectStrategy
  <2>2. CASE ApplyWithoutHeaders
    <3>1. strategy = "none" /\ strategy' = "none" /\ stage = "request"
      BY <2>1, <2>2 DEF ApplyWithoutHeaders
    <3>2. NothingNew \/ stage' # "request"
      BY <3>1 DEF HostGoesOn, NothingNew, PieceArrives
    <3> QED
      BY <1>2, <2>2, <3>1, <3>2, KeepsKeep DEF ApplyWithoutHeaders, Idle
  <2>3. ASSUME strategy # "none" \/ stage' # "request",
               strategy' = IF strategy = "none" THEN SelectStrategy ELSE strategy
        PROVE  strategy' = SelectStrategy /\ strategy' # "none" /\ stage' # "request"
    BY <2>1, <2>3 DEF HostGoesOn
  <2>4. CASE /\ strategy # "none" \/ stage' # "request"
             /\ strategy' = IF strategy = "none" THEN SelectStrategy ELSE strategy
             /\ ApplyPending(window)
    <3>1. Len(window) = 0 /\ response_body_size' > 0
      BY <2>4 DEF ApplyPending
    <3>2. NothingNew
      BY <3>1 DEF PieceArrives, HostGoesOn
    <3> QED
      BY <1>2, <2>3, <2>4, <3>2, KeepsKeep DEF ApplyPending, Idle
  <2>5. CASE /\ strategy # "none" \/ stage' # "request"
             /\ strategy' = IF strategy = "none" THEN SelectStrategy ELSE strategy
             /\ ApplyFails
    BY <1>2, <2>3, <2>5, KeepsKeep DEF ApplyFails
  <2>6. CASE /\ strategy # "none" \/ stage' # "request"
             /\ strategy' = IF strategy = "none" THEN SelectStrategy ELSE strategy
             /\ ApplyReads(window)
    BY <1>2, <2>3, <2>6, ReadsKeep
  <2> QED
    BY <1>2, <2>2, <2>4, <2>5, <2>6 DEF Apply
<1> QED
  BY <1>1, <1>2

-----------------------------------------------------------------------------
(* The callbacks.                                                          *)

\* No task has read anything before the headers of the response.
LEMMA InitBInv == BodyInit => BInv
<1> SUFFICES ASSUME BodyInit PROVE BInv
  OBVIOUS
<1>1. <<>> \in Seq(1..0) /\ 1..0 = {} /\ Range(<<>>) = {}
  BY DEF Range
<1>2. SubSeq(Body, 1, 0) = <<>>
  <2>1. 0 \in Nat /\ 0 <= Length
    BY LengthAssumption
  <2>2. SubSeq(Body, 1, 0) \in Seq(1..0) /\ Len(SubSeq(Body, 1, 0)) = 0
    BY <2>1, FirstPiece
  <2> QED
    BY <2>2
<1>3. held \in Seq(1..delivered) /\ buffer \in Seq(1..delivered)
  BY <1>1, Zenon DEF BodyInit
<1>4. ReaderTypes
  <2>1. response_end_of_stream = (stage = "ended")
    BY Zenon DEF BodyInit
  <2>2. reread \in BOOLEAN /\ cut \in BOOLEAN /\ sse \in BOOLEAN
    BY Zenon DEF BodyInit
  <2>3. delivered \in 0..Length /\ response_body_size \in Nat
    BY LengthAssumption DEF BodyInit
  <2>4. /\ task \in {"queued", "done", "failed"} /\ strategy \in {"none", SelectStrategy}
        /\ stage \in {"request", "body", "ended", "trailers"} /\ delivered = 0
    BY Zenon DEF BodyInit
  <2> QED
    BY <1>3, <2>1, <2>2, <2>3, <2>4, Zenon DEF ReaderTypes
<1>5. ReadSoFar
  BY <1>1, <1>2 DEF BodyInit, ReadSoFar
<1> QED
  BY <1>4, <1>5 DEF BodyInit, BInv, EndSettles, FieldsAreSet

\* The callbacks of the request, and the one for the headers of the response.
LEMMA HeadersBInv ==
    ASSUME BInv, OnRequest \/ OnHttpResponseHeaders
    PROVE  BInv'
<1>1. /\ stage = "request" /\ stage' \in {"request", "body"}
      /\ UNCHANGED <<sse, ctx, delivered, held>> /\ Apply(<<>>)
  BY DEF OnRequest, OnHttpResponseHeaders
<1>2. HostGoesOn
  BY <1>1, LengthAssumption DEF BInv, ReaderTypes, HostGoesOn, ctx
<1>3. NothingNew
  BY <1>1 DEF NothingNew
<1>4. <<>> \in Seq(1..delivered')
  OBVIOUS
<1> QED
  BY <1>1, <1>2, <1>3, <1>4, ApplyKeeps, Zenon

\* What the host shows when a piece of n bytes arrives.
LEMMA WindowFacts ==
    ASSUME BInv, NEW n \in Nat, delivered + n <= Length
    PROVE  held \o SubSeq(Body, delivered + 1, delivered + n) \in Seq(1..(delivered + n))
<1>1. delivered \in Nat /\ held \in Seq(1..delivered)
  BY LengthAssumption DEF BInv, ReaderTypes
<1> DEFINE p == SubSeq(Body, delivered + 1, delivered + n)
           T == 1..(delivered + n)
<1>2. p \in Seq(T)
  BY <1>1, Piece, ZenonT(30)
<1>3. held \in Seq(T)
  <2>1. delivered + n \in Nat /\ delivered <= delivered + n
    BY <1>1
  <2> QED
    BY <1>1, <2>1, Wider
<1> HIDE DEF p, T
<1>4. held \o p \in Seq(T)
  BY <1>2, <1>3
<1> QED
  BY <1>4 DEF p, T

LEMMA BodyBInv ==
    ASSUME BInv, NEW n \in 0..Length, NEW eos \in BOOLEAN, OnHttpResponseBody(n, eos)
    PROVE  BInv'
<1> DEFINE window == held \o SubSeq(Body, delivered + 1, delivered + n)
<1>1. /\ stage = "body" /\ delivered + n <= Length /\ (eos => delivered + n = Length)
      /\ stage' = IF eos THEN "ended" ELSE "body"
      /\ delivered' = delivered + n
      /\ response_body_size' = Len(window) /\ response_end_of_stream' = eos
      /\ Apply(window) /\ held' \in {<<>>, window} /\ sse' = sse
  BY Zenon DEF OnHttpResponseBody
<1>2. n \in Nat /\ delivered \in Nat
  BY LengthAssumption DEF BInv, ReaderTypes
<1>3. window \in Seq(1..delivered') /\ <<>> \in Seq(1..delivered')
  <2>1. window \in Seq(1..(delivered + n))
    BY <1>1, <1>2, WindowFacts, Zenon
  <2> HIDE DEF window
  <2> QED
    BY <1>1, <2>1
<1>4. window = held \o SubSeq(Body, delivered + 1, delivered')
  BY <1>1
<1> HIDE DEF window
<1>5. Len(window) \in Nat
  BY <1>3
<1>6. held' \in Seq(1..delivered')
  BY <1>1, <1>3, Zenon
<1>7. HostGoesOn
  BY <1>1, <1>2, <1>5, <1>6, LengthAssumption DEF HostGoesOn
<1>8. PieceArrives(window)
  BY <1>1, <1>4 DEF PieceArrives
<1> QED
  BY <1>1, <1>3, <1>7, <1>8, ApplyKeeps

LEMMA AnswerBInv ==
    ASSUME BInv, OnGrpcCallResponse
    PROVE  BInv'
<1>1. UNCHANGED <<sse, ctx, stage, delivered>> /\ Apply(held) /\ held' \in {<<>>, held}
  BY DEF OnGrpcCallResponse
<1>2. held \in Seq(1..delivered') /\ held' \in Seq(1..delivered')
  <2>1. held \in Seq(1..delivered) /\ <<>> \in Seq(1..delivered) /\ delivered' = delivered
    BY <1>1 DEF BInv, ReaderTypes
  <2> QED
    BY <1>1, <2>1, Zenon
<1>3. HostGoesOn
  BY <1>1, <1>2, LengthAssumption DEF BInv, ReaderTypes, HostGoesOn, ctx
<1>4. NothingNew
  BY <1>1 DEF NothingNew
<1> QED
  BY <1>1, <1>2, <1>3, <1>4, ApplyKeeps

LEMMA TrailersBInv ==
    ASSUME BInv, OnHttpResponseTrailers
    PROVE  BInv'
<1>1. /\ stage = "body" /\ stage' = "trailers" /\ held' = <<>>
      /\ UNCHANGED <<sse, task, strategy, buffer, values, response_body_size, response_end_of_stream,
                     delivered, reread, cut>>
  BY DEF OnHttpResponseTrailers, reader, ctx
<1>2. ReaderTypes'
  BY <1>1 DEF BInv, ReaderTypes, SelectStrategy
<1>3. ReadSoFar => ReadSoFar'
  BY <1>1, Zenon DEF ReadSoFar, Body
<1>4. EndSettles' /\ FieldsAreSet'
  BY <1>1 DEF BInv, EndSettles, FieldsAreSet, Supported, Present
<1> QED
  BY <1>1, <1>2, <1>3, <1>4, Zenon DEF BInv

LEMMA NextBInv == BInv /\ [BodyNext]_bodyVars => BInv'
<1> SUFFICES ASSUME BInv, [BodyNext]_bodyVars PROVE BInv'
  OBVIOUS
<1>1. CASE OnRequest \/ OnHttpResponseHeaders
  BY <1>1, HeadersBInv
<1>2. CASE OnGrpcCallResponse
  BY <1>2, AnswerBInv
<1>3. CASE \E n \in 0..Length, eos \in BOOLEAN : OnHttpResponseBody(n, eos)
  BY <1>3, BodyBInv
<1>4. CASE UNCHANGED bodyVars
  BY <1>4, Zenon DEF bodyVars, reader, ctx, BInv, ReaderTypes, ReadSoFar, EndSettles, FieldsAreSet,
              SelectStrategy, Supported, Present, Body
<1>5. CASE OnHttpResponseTrailers
  BY <1>5, TrailersBInv
<1> QED
  BY <1>1, <1>2, <1>3, <1>4, <1>5 DEF BodyNext

-----------------------------------------------------------------------------
(* The theorems.                                                           *)

\* The token usage task reads the body in order and without a gap, settles
\* exactly when the host says it has ended, and sets the supported fields,
\* with the exceptions of FieldsAreSet (TokenUsageTask::apply).
THEOREM BodyIsReadTheorem == BodySpec => []BodyIsRead
<1>1. BInv => BodyIsRead
  <2> SUFFICES ASSUME BInv PROVE BodyReadInOrder
    BY DEF BInv, BodyIsRead
  <2> SUFFICES ASSUME task = "queued", strategy = "json"
               PROVE  Range(buffer) = 1..delivered /\ (~reread => buffer = SubSeq(Body, 1, delivered))
    BY DEF BodyReadInOrder
  <2>1. ~sse
    BY DEF BInv, ReaderTypes, SelectStrategy
  <2> QED
    BY <2>1 DEF BInv, ReadSoFar
<1> QED
  BY <1>1, InitBInv, NextBInv, PTL DEF BodySpec
=============================================================================
