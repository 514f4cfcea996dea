-------------------------- MODULE SpanBufferProofs --------------------------
(***************************************************************************)
(* The properties of SpanBuffer for any number of streams and tasks and    *)
(* any capacity of the buffer.                                             *)
(***************************************************************************)
EXTENDS SpanBuffer, SequenceTheorems, WellFoundedInduction, TLAPS

Exports == {"none", "accepted", "refused"}
Items == [drop : SUBSET Spans, export : Exports]

\* The types of the variables.
SpanTypes ==
    /\ DOMAIN open \subseteq Spans
    /\ open \in [DOMAIN open -> DOMAIN open \cup {NoSpan}]
    /\ held \subseteq DOMAIN open
    /\ entered \in Seq(held)
    /\ buffer \in Seq(Spans) /\ exported \in Seq(Spans) /\ lost \in Seq(Spans)
    /\ since \in Seq(Spans)
    /\ life \in [Streams -> {"new", "running", "torn down", "deleted"}]
    /\ tasks \in [Streams -> Nat]
    /\ agenda \in Seq(Items)

Distinct(q) == \A i, j \in DOMAIN q : q[i] = q[j] => i = j
Apart(q, r) == \A i \in DOMAIN q, j \in DOMAIN r : q[i] # r[j]

\* The spans a stream has had so far.
Made == {x \in Spans : life[x[1]] # "new" /\ x[2] <= tasks[x[1]]}
Ended(q) == \A i \in DOMAIN q : q[i] \in Made /\ q[i] \notin DOMAIN open

\* A span ends once, and is then in one place at most.
EndedOnce ==
    /\ DOMAIN open \subseteq Made
    /\ Ended(buffer) /\ Ended(exported) /\ Ended(lost)
    /\ Distinct(buffer) /\ Distinct(exported) /\ Distinct(lost)
    /\ Apart(buffer, exported) /\ Apart(buffer, lost) /\ Apart(exported, lost)

\* A handle belongs to a running stream, or the callback will drop it.
HandlesGo ==
    \A x \in held : \/ life[x[1]] = "running"
                    \/ \E i \in DOMAIN agenda : x \in agenda[i].drop

\* The parent of a span is older: following parents comes to an end.
Older(n, f) ==
    /\ n \in Nat /\ f \in [DOMAIN open -> 0..n]
    /\ \A x \in DOMAIN open : open[x] # NoSpan => f[open[x]] < f[x]
Ranked == \E n, f : Older(n, f)

SInv ==
    /\ SpanTypes /\ EndedOnce /\ BufferKeepsNewest
    /\ Distinct(entered) /\ HandlesGo /\ Ranked

-----------------------------------------------------------------------------
(* Sequences.                                                              *)

\* An element of a concatenation is one of its parts.
LEMMA ConcatElements ==
    ASSUME NEW S, NEW q \in Seq(S), NEW r \in Seq(S), NEW i \in DOMAIN (q \o r)
    PROVE  \/ i \in DOMAIN q /\ (q \o r)[i] = q[i]
           \/ i - Len(q) \in DOMAIN r /\ (q \o r)[i] = r[i - Len(q)] /\ i > Len(q)
  OBVIOUS

\* Sequences without common elements and without duplicates make one.
LEMMA ConcatDistinct ==
    ASSUME NEW S, NEW q \in Seq(S), NEW r \in Seq(S),
           Distinct(q), Distinct(r), Apart(q, r)
    PROVE  Distinct(q \o r)
<1> SUFFICES ASSUME NEW i \in DOMAIN (q \o r), NEW j \in DOMAIN (q \o r),
                    (q \o r)[i] = (q \o r)[j]
             PROVE  i = j
  BY Zenon DEF Distinct
<1> DEFINE InFirst(k) == k \in DOMAIN q /\ (q \o r)[k] = q[k]
           InSecond(k) == k - Len(q) \in DOMAIN r /\ (q \o r)[k] = r[k - Len(q)]
<1>1. InFirst(i) \/ InSecond(i)
  BY ConcatElements, Zenon
<1>2. InFirst(j) \/ InSecond(j)
  BY ConcatElements, Zenon
<1>3. CASE InFirst(i) /\ InFirst(j)
  BY <1>3, Zenon DEF Distinct
<1>4. CASE InFirst(i) /\ InSecond(j)
  BY <1>4, Zenon DEF Apart
<1>5. CASE InSecond(i) /\ InFirst(j)
  BY <1>5, Zenon DEF Apart
<1>6. CASE InSecond(i) /\ InSecond(j)
  <2>1. i - Len(q) = j - Len(q)
    BY <1>6, Zenon DEF Distinct
  <2>2. i \in Nat /\ j \in Nat /\ Len(q) \in Nat
    OBVIOUS
  <2> QED
    BY <2>1, <2>2
<1> QED
  BY <1>1, <1>2, <1>3, <1>4, <1>5, <1>6, Zenon

\* Each element of p is one of q or of r.
Mixes(p, q, r) ==
    \A i \in DOMAIN p : \/ \E j \in DOMAIN q : p[i] = q[j]
                        \/ \E j \in DOMAIN r : p[i] = r[j]

\* Only elements of the parts are in a concatenation.
LEMMA ConcatMixes ==
    ASSUME NEW S, NEW q \in Seq(S), NEW r \in Seq(S)
    PROVE  Mixes(q \o r, q, r)
<1> DEFINE p == q \o r
<1> SUFFICES ASSUME NEW i \in DOMAIN p
             PROVE  \/ \E j \in DOMAIN q : p[i] = q[j]
                    \/ \E j \in DOMAIN r : p[i] = r[j]
  BY Zenon DEF Mixes
<1>1. \/ i \in DOMAIN q /\ p[i] = q[i]
      \/ i - Len(q) \in DOMAIN r /\ p[i] = r[i - Len(q)]
  BY ConcatElements
<1> HIDE DEF p
<1> QED
  BY <1>1, Zenon

\* Parts without common elements with a third sequence.
LEMMA MixApart ==
    ASSUME NEW p, NEW q, NEW r, NEW t, Mixes(p, q, r), Apart(q, t), Apart(r, t)
    PROVE  Apart(p, t)
<1> SUFFICES ASSUME NEW i \in DOMAIN p, NEW j \in DOMAIN t PROVE p[i] # t[j]
  BY Zenon DEF Apart
<1>1. CASE \E k \in DOMAIN q : p[i] = q[k]
  BY <1>1, Zenon DEF Apart
<1>2. CASE \E k \in DOMAIN r : p[i] = r[k]
  BY <1>2, Zenon DEF Apart
<1> QED
  BY <1>1, <1>2, Zenon DEF Mixes

\* A span that ends comes last, after spans that were there.
LEMMA OnEndElements ==
    ASSUME NEW b \in Seq(Spans), NEW x \in Spans
    PROVE  /\ OnEnd(b, x) \in Seq(Spans)
           /\ \A i \in DOMAIN OnEnd(b, x) :
                 \/ i = Len(OnEnd(b, x)) /\ OnEnd(b, x)[i] = x
                 \/ /\ i # Len(OnEnd(b, x))
                    /\ IF Len(b) >= MaxBufferSize
                       THEN i + 1 \in DOMAIN b /\ OnEnd(b, x)[i] = b[i + 1]
                       ELSE i \in DOMAIN b /\ OnEnd(b, x)[i] = b[i]
<1> DEFINE c == IF Len(b) >= MaxBufferSize THEN Tail(b) ELSE b
<1>1. /\ c \in Seq(Spans)
      /\ \A i \in DOMAIN c : IF Len(b) >= MaxBufferSize
                             THEN i + 1 \in DOMAIN b /\ c[i] = b[i + 1]
                             ELSE i \in DOMAIN b /\ c[i] = b[i]
  BY BufferAssumption
<1>2. OnEnd(b, x) = Append(c, x)
  BY Zenon DEF OnEnd
<1> HIDE DEF c
<1>3. /\ Append(c, x) \in Seq(Spans) /\ Len(Append(c, x)) = Len(c) + 1
      /\ \A i \in DOMAIN Append(c, x) :
            \/ i = Len(c) + 1 /\ Append(c, x)[i] = x
            \/ i # Len(c) + 1 /\ i \in DOMAIN c /\ Append(c, x)[i] = c[i]
  BY <1>1
<1> QED
  BY <1>1, <1>2, <1>3, Zenon

\* The newest n elements of a sequence.
Newest(q, n) == SubSeq(q, IF Len(q) > n THEN Len(q) - n + 1 ELSE 1, Len(q))

\* Which elements these are.
LEMMA NewestElements ==
    ASSUME NEW q \in Seq(Spans), NEW n \in Nat
    PROVE  /\ Newest(q, n) \in Seq(Spans)
           /\ Len(Newest(q, n)) = IF Len(q) > n THEN n ELSE Len(q)
           /\ \A i \in 1..Len(Newest(q, n)) :
                 Newest(q, n)[i] = IF Len(q) > n THEN q[Len(q) - n + i] ELSE q[i]
<1> DEFINE m == IF Len(q) > n THEN Len(q) - n + 1 ELSE 1
           r == SubSeq(q, m, Len(q))
<1>1. Len(q) \in Nat /\ m \in Nat \ {0} /\ m <= Len(q) + 1
  OBVIOUS
<1>2. /\ \A i \in m..Len(q) : q[i] \in Spans
      /\ m \in Int /\ Len(q) \in Int
  BY <1>1, ElementOfSeq
<1>3. /\ r \in Seq(Spans)
      /\ Len(r) = IF m <= Len(q) THEN Len(q) - m + 1 ELSE 0
      /\ \A i \in 1..Len(q) - m + 1 : r[i] = q[m + i - 1]
  <2> HIDE DEF m
  <2> QED
    BY <1>2, SubSeqProperties
<1>4. Newest(q, n) = r
  BY Zenon DEF Newest
<1> HIDE DEF r
<1>5. CASE Len(q) > n
  <2>1. m = Len(q) - n + 1 /\ Len(q) - m + 1 = n
    BY <1>1, <1>5
  <2> HIDE DEF m
  <2> QED
    BY <2>1, <1>1, <1>3, <1>4, <1>5
<1>6. CASE ~(Len(q) > n)
  <2>1. m = 1 /\ Len(q) - m + 1 = Len(q)
    BY <1>1, <1>6
  <2> HIDE DEF m
  <2> QED
    BY <2>1, <1>1, <1>3, <1>4, <1>6
<1> QED
  BY <1>5, <1>6, Zenon

\* A buffer of the newest spans has the newest ones after on_end.
LEMMA OnEndNewest ==
    ASSUME NEW q \in Seq(Spans), NEW x \in Spans
    PROVE  OnEnd(Newest(q, MaxBufferSize), x) = Newest(Append(q, x), MaxBufferSize)
<1> DEFINE b == Newest(q, MaxBufferSize)
           c == IF Len(b) >= MaxBufferSize THEN Tail(b) ELSE b
           a == Append(c, x)
           p == Append(q, x)
           d == Newest(p, MaxBufferSize)
           full == Len(q) >= MaxBufferSize
<1>0. MaxBufferSize \in Nat /\ MaxBufferSize > 0 /\ Len(q) \in Nat
  BY BufferAssumption
<1>1. /\ b \in Seq(Spans)
      /\ Len(b) = IF Len(q) > MaxBufferSize THEN MaxBufferSize ELSE Len(q)
      /\ \A i \in 1..Len(b) :
            b[i] = IF Len(q) > MaxBufferSize THEN q[Len(q) - MaxBufferSize + i] ELSE q[i]
  BY NewestElements, <1>0, Zenon
<1> HIDE DEF b
<1>2. /\ c \in Seq(Spans) /\ Len(c) = IF full THEN MaxBufferSize - 1 ELSE Len(q)
      /\ \A i \in 1..Len(c) :
            c[i] = IF full THEN q[Len(q) - MaxBufferSize + i + 1] ELSE q[i]
  BY <1>0, <1>1
<1> HIDE DEF c
<1>3. /\ p \in Seq(Spans) /\ Len(p) = Len(q) + 1
      /\ \A i \in 1..Len(q) : p[i] = q[i]
      /\ p[Len(q) + 1] = x
  OBVIOUS
<1>4. /\ a \in Seq(Spans) /\ Len(a) = Len(c) + 1
      /\ \A i \in 1..Len(c) : a[i] = c[i]
      /\ a[Len(c) + 1] = x
  BY <1>2, AppendProperties, Zenon
<1> HIDE DEF a, p
<1>5. /\ d \in Seq(Spans)
      /\ Len(d) = IF Len(p) > MaxBufferSize THEN MaxBufferSize ELSE Len(p)
      /\ \A i \in 1..Len(d) :
            d[i] = IF Len(p) > MaxBufferSize THEN p[Len(p) - MaxBufferSize + i] ELSE p[i]
  BY <1>0, <1>3, NewestElements, Zenon
<1> HIDE DEF d
<1>6. Len(a) = Len(d)
  BY <1>0, <1>2, <1>3, <1>4, <1>5
<1>7. ASSUME NEW i \in 1..Len(a) PROVE a[i] = d[i]
  <2>1. CASE i = Len(c) + 1
    <3>1. d[i] = p[Len(q) + 1]
      BY <2>1, <1>0, <1>2, <1>3, <1>5, <1>6
    <3> QED
      BY <2>1, <3>1, <1>3, <1>4, Zenon
  <2>2. CASE i # Len(c) + 1 /\ full
    <3>1. i \in 1..Len(c) /\ Len(q) - MaxBufferSize + i + 1 \in 1..Len(q)
      BY <2>2, <1>0, <1>2, <1>4
    <3>2. d[i] = p[Len(q) - MaxBufferSize + i + 1]
      BY <2>2, <1>0, <1>3, <1>5, <1>6
    <3> QED
      BY <2>2, <3>1, <3>2, <1>2, <1>3, <1>4, Zenon
  <2>3. CASE i # Len(c) + 1 /\ ~full
    <3>1. i \in 1..Len(c) /\ i \in 1..Len(q) /\ d[i] = p[i]
      BY <2>3, <1>0, <1>2, <1>3, <1>4, <1>5, <1>6
    <3> QED
      BY <2>3, <3>1, <1>2, <1>3, <1>4, Zenon
  <2> QED
    BY <2>1, <2>2, <2>3, Zenon
<1>8. a = d
  BY <1>4, <1>5, <1>6, <1>7, SeqEqual, Zenon
<1> QED
  BY <1>8, Zenon DEF OnEnd, a, b, c, d, p

\* A sequence over a set is one over a larger set.
LEMMA SeqMonotone ==
    ASSUME NEW S, NEW T, S \subseteq T, NEW q \in Seq(S)
    PROVE  q \in Seq(T)
  OBVIOUS

-----------------------------------------------------------------------------
(* The registry.                                                           *)

\* NoSpan stands for no span of a stream.
LEMMA NoSpanIsNone == NoSpan \notin Spans
<1> SUFFICES ASSUME <<>> \in Streams \X (0..MaxTasks) PROVE FALSE
  BY Zenon DEF NoSpan, Spans
<1>1. PICK s, i : <<>> = <<s, i>>
  OBVIOUS
<1>2. Len(<<>>) = 0 /\ Len(<<s, i>>) = 2
  OBVIOUS
<1> QED
  BY <1>1, <1>2

\* The span entered last is open.
LEMMA CurrentIsHeld ==
    ASSUME SpanTypes
    PROVE  Current \in held \cup {NoSpan}
<1>1. CASE entered = <<>>
  BY <1>1, Zenon DEF Current
<1>2. CASE entered # <<>>
  <2>1. entered \in Seq(held)
    BY Zenon DEF SpanTypes
  <2>2. Len(entered) \in 1..Len(entered)
    BY <2>1, <1>2
  <2> QED
    BY <2>1, <2>2, <1>2, ElementOfSeq, Zenon DEF Current
<1> QED
  BY <1>1, <1>2, Zenon

\* A new span becomes the youngest, below the current one.
LEMMA NewSpanRanked ==
    ASSUME SpanTypes, Ranked, NEW x \in Spans, x \notin DOMAIN open, NewSpan(x)
    PROVE  /\ DOMAIN open' = DOMAIN open \cup {x}
           /\ open' \in [DOMAIN open' -> DOMAIN open' \cup {NoSpan}]
           /\ held' = held \cup {x}
           /\ Ranked'
<1>1. /\ DOMAIN open' = DOMAIN open \cup {x} /\ held' = held \cup {x}
      /\ open' = [y \in DOMAIN open \cup {x} |-> IF y = x THEN Current ELSE open[y]]
  BY Zenon DEF NewSpan
<1>2. Current \in DOMAIN open \cup {NoSpan}
  BY CurrentIsHeld, Zenon DEF SpanTypes
<1>3. \A y \in DOMAIN open : open[y] \in DOMAIN open \cup {NoSpan}
  BY Zenon DEF SpanTypes
<1>4. open' \in [DOMAIN open' -> DOMAIN open' \cup {NoSpan}]
  BY <1>1, <1>2, <1>3, Zenon
<1>5. PICK n, f : Older(n, f)
  BY Zenon DEF Ranked
<1> DEFINE g == [y \in DOMAIN open \cup {x} |-> IF y = x THEN n + 1 ELSE f[y]]
<1>6. n + 1 \in Nat /\ g \in [DOMAIN open' -> 0..n + 1]
  BY <1>1, <1>5 DEF Older
<1>7. ASSUME NEW y \in DOMAIN open', open'[y] # NoSpan
      PROVE  g[open'[y]] < g[y]
  <2>1. CASE y = x
    <3>1. open'[y] = Current /\ Current \in DOMAIN open /\ Current # x
      BY <2>1, <1>1, <1>2, <1>7, Zenon
    <3>2. g[open'[y]] = f[Current] /\ g[y] = n + 1
      BY <2>1, <3>1, Zenon
    <3> QED
      BY <3>1, <3>2, <1>5 DEF Older
  <2>2. CASE y # x
    <3>1. y \in DOMAIN open /\ open'[y] = open[y] /\ open[y] \in DOMAIN open /\ open[y] # x
      BY <2>2, <1>1, <1>3, <1>7, Zenon
    <3>2. g[open'[y]] = f[open[y]] /\ g[y] = f[y]
      BY <2>2, <3>1, Zenon
    <3> QED
      BY <3>1, <3>2, <1>5, <1>7, Zenon DEF Older
  <2> QED
    BY <2>1, <2>2, Zenon
<1>8. Ranked'
  BY <1>6, <1>7, Zenon DEF Ranked, Older
<1> QED
  BY <1>1, <1>4, <1>8, Zenon

\* Without the span that ends the others keep their parents.
LEMMA EndSpanRanked ==
    ASSUME SpanTypes, Ranked, NEW x \in Ending, EndSpan(x)
    PROVE  /\ DOMAIN open' = DOMAIN open \ {x}
           /\ open' \in [DOMAIN open' -> DOMAIN open' \cup {NoSpan}]
           /\ Ranked'
<1>1. /\ open' = [y \in DOMAIN open \ {x} |-> open[y]]
      /\ DOMAIN open' = DOMAIN open \ {x}
  BY Zenon DEF EndSpan
<1>2. \A y \in DOMAIN open : open[y] \in DOMAIN open \cup {NoSpan} /\ open[y] # x
  BY Zenon DEF SpanTypes, Ending
<1>3. open' \in [DOMAIN open' -> DOMAIN open' \cup {NoSpan}]
  BY <1>1, <1>2, Zenon
<1>4. PICK n, f : Older(n, f)
  BY Zenon DEF Ranked
<1> DEFINE g == [y \in DOMAIN open \ {x} |-> f[y]]
<1>5. n \in Nat /\ g \in [DOMAIN open' -> 0..n]
  BY <1>1, <1>4, Zenon DEF Older
<1>6. ASSUME NEW y \in DOMAIN open', open'[y] # NoSpan
      PROVE  g[open'[y]] < g[y]
  <2>1. /\ y \in DOMAIN open /\ open'[y] = open[y] /\ y # x
        /\ open[y] \in DOMAIN open /\ open[y] # x
    BY <1>1, <1>2, <1>6, Zenon
  <2>2. g[open'[y]] = f[open[y]] /\ g[y] = f[y]
    BY <2>1, Zenon
  <2> QED
    BY <2>1, <2>2, <1>4, <1>6, Zenon DEF Older
<1> QED
  BY <1>1, <1>3, <1>5, <1>6, Zenon DEF Ranked, Older

\* Parents that are older: as long as a span is open one of them has no child.
LEMMA LeafExists ==
    ASSUME SpanTypes, Ranked, DOMAIN open # {}
    PROVE  \E x \in DOMAIN open : \A y \in DOMAIN open : open[y] # x
<1>1. PICK n, f : Older(n, f)
  BY Zenon DEF Ranked
<1> DEFINE T == {n - f[x] : x \in DOMAIN open}
<1>2. T \subseteq Nat /\ T # {}
  BY <1>1 DEF Older
<1>3. PICK m \in T : \A k \in T : ~(k < m)
  <2>1. IsWellFoundedOn(OpToRel(<, Nat), Nat)
    BY NatLessThanWellFounded, Zenon
  <2>2. PICK m \in T : \A k \in T : ~(<<k, m>> \in OpToRel(<, Nat))
    BY <2>1, <1>2, WFMin, Zenon
  <2> QED
    BY <2>2, <1>2 DEF OpToRel
<1>4. PICK x \in DOMAIN open : m = n - f[x]
  BY <1>3, Zenon
<1>5. ASSUME NEW y \in DOMAIN open, open[y] = x PROVE FALSE
  <2>1. x # NoSpan
    BY NoSpanIsNone, Zenon DEF SpanTypes
  <2>2. f[x] < f[y] /\ f[x] \in 0..n /\ f[y] \in 0..n /\ n \in Nat
    BY <2>1, <1>1, <1>5, Zenon DEF Older
  <2>3. n - f[y] \in T
    BY Zenon
  <2>4. ~(n - f[y] < m)
    BY <2>3, <1>3, Zenon
  <2> HIDE DEF T
  <2> QED
    BY <2>2, <2>4, <1>4
<1> QED
  BY <1>5, Zenon

-----------------------------------------------------------------------------
(* The inductive invariant, action by action.                              *)

\* Initially there is no span.
LEMMA SpanInitInv == SpanInit => SInv
<1> SUFFICES ASSUME SpanInit PROVE SInv
  OBVIOUS
<1>1. /\ open = <<>> /\ held = {} /\ entered = <<>> /\ buffer = <<>> /\ exported = <<>>
      /\ lost = <<>> /\ since = <<>> /\ agenda = <<>>
      /\ DOMAIN open = {} /\ DOMAIN entered = {} /\ DOMAIN buffer = {}
      /\ DOMAIN exported = {} /\ DOMAIN lost = {}
  BY DEF SpanInit
<1>2. open \in [DOMAIN open -> DOMAIN open \cup {NoSpan}]
  BY <1>1
<1>3. SpanTypes
  BY <1>1, <1>2 DEF SpanTypes, SpanInit
<1>4. EndedOnce /\ Distinct(entered) /\ HandlesGo
  BY <1>1, Zenon DEF EndedOnce, Ended, Distinct, Apart, HandlesGo
<1>5. BufferKeepsNewest
  BY <1>1, BufferAssumption DEF BufferKeepsNewest
<1>6. Older(0, open)
  BY <1>1 DEF Older
<1> QED
  BY <1>3, <1>4, <1>5, <1>6, Zenon DEF SInv, Ranked

\* Spans that have ended stay so while no span is made or ends.
LEMMA EndedStays ==
    ASSUME EndedOnce, Made \subseteq Made', UNCHANGED <<open, buffer, exported, lost>>
    PROVE  EndedOnce'
  BY Zenon DEF EndedOnce, Ended, Distinct, Apart

\* A new span has not ended before.
LEMMA EndedNew ==
    ASSUME EndedOnce, NEW x, x \notin Made, Made \cup {x} \subseteq Made',
           DOMAIN open' = DOMAIN open \cup {x}, UNCHANGED <<buffer, exported, lost>>
    PROVE  EndedOnce'
<1>1. (DOMAIN open \subseteq Made)'
  BY Zenon DEF EndedOnce
<1>2. Ended(buffer)' /\ Ended(exported)' /\ Ended(lost)'
  BY Zenon DEF EndedOnce, Ended
<1> QED
  BY <1>1, <1>2, Zenon DEF EndedOnce, Distinct, Apart

\* A span ends: it enters the buffer and is open no more.
LEMMA EndSpanInv ==
    ASSUME SInv, NEW x \in Ending, EndSpan(x)
    PROVE  SInv'
<1> USE DEF SInv
<1>1. x \in DOMAIN open /\ x \notin held /\ x \in Spans /\ x \in Made
  BY Zenon DEF Ending, SpanTypes, EndedOnce
<1>2. /\ buffer' = OnEnd(buffer, x) /\ since' = Append(since, x)
      /\ UNCHANGED <<held, entered, life, tasks, agenda, exported, lost>>
  BY Zenon DEF EndSpan
<1>3. /\ DOMAIN open' = DOMAIN open \ {x} /\ Ranked'
      /\ open' \in [DOMAIN open' -> DOMAIN open' \cup {NoSpan}]
  BY EndSpanRanked, Zenon
<1>4. buffer \in Seq(Spans) /\ since \in Seq(Spans)
  BY Zenon DEF SpanTypes
<1>5. buffer' \in Seq(Spans) /\ since' \in Seq(Spans)
  BY <1>1, <1>2, <1>4, OnEndElements, AppendProperties, Zenon
<1>6. SpanTypes'
  BY <1>1, <1>2, <1>3, <1>5, Zenon DEF SpanTypes
<1>7. /\ \A i \in DOMAIN buffer' :
            \/ i = Len(buffer') /\ buffer'[i] = x
            \/ i # Len(buffer') /\ \E j \in DOMAIN buffer : buffer'[i] = buffer[j]
      /\ Distinct(buffer)'
  <2>1. \A i \in DOMAIN buffer' :
           \/ i = Len(buffer') /\ buffer'[i] = x
           \/ /\ i # Len(buffer')
              /\ IF Len(buffer) >= MaxBufferSize
                 THEN i + 1 \in DOMAIN buffer /\ buffer'[i] = buffer[i + 1]
                 ELSE i \in DOMAIN buffer /\ buffer'[i] = buffer[i]
    BY <1>1, <1>2, <1>4, OnEndElements, Zenon
  <2>2. \A i \in DOMAIN buffer : buffer[i] # x
    BY <1>1, Zenon DEF EndedOnce, Ended
  <2>3. ASSUME NEW i \in DOMAIN buffer', NEW j \in DOMAIN buffer', buffer'[i] = buffer'[j]
        PROVE  i = j
    <3>1. i \in Nat /\ j \in Nat
      BY <1>5
    <3>2. CASE i = Len(buffer') \/ j = Len(buffer')
      BY <2>1, <2>2, <2>3, <3>2, Zenon
    <3>3. CASE i # Len(buffer') /\ j # Len(buffer') /\ Len(buffer) >= MaxBufferSize
      <4>1. i + 1 \in DOMAIN buffer /\ j + 1 \in DOMAIN buffer /\ buffer[i + 1] = buffer[j + 1]
        BY <2>1, <2>3, <3>3, Zenon
      <4>2. i + 1 = j + 1
        BY <4>1, Zenon DEF EndedOnce, Distinct
      <4> QED
        BY <4>2, <3>1
    <3>4. CASE i # Len(buffer') /\ j # Len(buffer') /\ ~(Len(buffer) >= MaxBufferSize)
      BY <2>1, <2>3, <3>4, Zenon DEF EndedOnce, Distinct
    <3> QED
      BY <3>2, <3>3, <3>4, Zenon
  <2>4. Distinct(buffer)'
    BY <2>3, Zenon DEF Distinct
  <2> QED
    BY <2>1, <2>4, Zenon
<1>8. Made' = Made
  BY <1>2, Zenon DEF Made
<1>9. /\ (DOMAIN open \subseteq Made)' /\ Ended(exported)' /\ Ended(lost)'
      /\ \A i \in DOMAIN exported : exported[i] # x
      /\ \A i \in DOMAIN lost : lost[i] # x
  BY <1>1, <1>2, <1>3, <1>8, Zenon DEF EndedOnce, Ended
<1>10. Ended(buffer)'
  BY <1>1, <1>3, <1>7, <1>8, Zenon DEF EndedOnce, Ended
<1>11. Apart(buffer, exported)' /\ Apart(buffer, lost)'
  <2>1. exported' = exported /\ lost' = lost
    BY <1>2, Zenon
  <2>2. ASSUME NEW i \in DOMAIN buffer', NEW j \in DOMAIN exported
        PROVE  buffer'[i] # exported[j]
    BY <1>7, <1>9, Zenon DEF EndedOnce, Apart
  <2>3. ASSUME NEW i \in DOMAIN buffer', NEW j \in DOMAIN lost
        PROVE  buffer'[i] # lost[j]
    BY <1>7, <1>9, Zenon DEF EndedOnce, Apart
  <2> QED
    BY <2>1, <2>2, <2>3, Zenon DEF Apart
<1>12. EndedOnce'
  BY <1>2, <1>7, <1>9, <1>10, <1>11, Zenon DEF EndedOnce
<1>13. BufferKeepsNewest'
  BY <1>1, <1>2, <1>4, OnEndNewest, Zenon DEF BufferKeepsNewest, Newest
<1>14. Distinct(entered)' /\ HandlesGo'
  BY <1>2, Zenon DEF HandlesGo
<1> QED
  BY <1>3, <1>6, <1>12, <1>13, <1>14, Zenon

\* The guard of a request span leaves it, and it alone.
LEMMA LeaveInv ==
    ASSUME SpanTypes, Distinct(entered), NEW x, Leave(x)
    PROVE  entered' \in Seq(held \ {x}) /\ Distinct(entered)'
<1>1. entered \in Seq(held) /\ Len(entered) \in Nat /\ DOMAIN entered = 1..Len(entered)
  <2>1. entered \in Seq(held)
    BY Zenon DEF SpanTypes
  <2> QED
    BY <2>1
<1>2. CASE (\A i \in DOMAIN entered : entered[i] # x) /\ UNCHANGED entered
  <2>1. \A i \in DOMAIN entered : entered[i] \in held \ {x}
    BY <1>1, <1>2, ElementOfSeq, Zenon
  <2>2. entered \in Seq(held \ {x})
    BY <1>1, <2>1
  <2> QED
    BY <1>2, <2>2, Zenon
<1>3. ASSUME NEW i \in DOMAIN entered, entered[i] = x,
             entered' = SubSeq(entered, 1, i - 1) \o SubSeq(entered, i + 1, Len(entered))
      PROVE  entered' \in Seq(held \ {x}) /\ Distinct(entered)'
  <2> DEFINE q == SubSeq(entered, 1, i - 1)
             r == SubSeq(entered, i + 1, Len(entered))
  <2>1. i \in Nat /\ i >= 1 /\ i <= Len(entered)
    BY <1>1
  <2>2. \A j \in DOMAIN entered : j # i => entered[j] \in held \ {x}
    BY <1>1, <1>3, ElementOfSeq, Zenon DEF Distinct
  <2>3. /\ \A j \in 1..i - 1 : entered[j] \in held \ {x}
        /\ \A j \in i + 1..Len(entered) : entered[j] \in held \ {x}
    BY <1>1, <2>1, <2>2
  <2>4. 1 \in Int /\ i - 1 \in Int /\ i + 1 \in Int /\ Len(entered) \in Int
    BY <1>1, <2>1
  <2>5. /\ q \in Seq(held \ {x}) /\ Len(q) = (IF 1 <= i - 1 THEN i - 1 - 1 + 1 ELSE 0)
        /\ \A j \in 1..i - 1 - 1 + 1 : q[j] = entered[1 + j - 1]
    BY <2>3, <2>4, SubSeqProperties
  <2>6. /\ r \in Seq(held \ {x})
        /\ Len(r) = (IF i + 1 <= Len(entered) THEN Len(entered) - (i + 1) + 1 ELSE 0)
        /\ \A j \in 1..Len(entered) - (i + 1) + 1 : r[j] = entered[i + 1 + j - 1]
    BY <2>3, <2>4, SubSeqProperties
  <2> HIDE DEF q, r
  <2>7. /\ DOMAIN q = 1..i - 1 /\ \A j \in DOMAIN q : q[j] = entered[j]
        /\ DOMAIN r = 1..Len(entered) - i /\ \A j \in DOMAIN r : r[j] = entered[i + j]
    <3>1. i - 1 - 1 + 1 = i - 1 /\ Len(entered) - (i + 1) + 1 = Len(entered) - i
      BY <1>1, <2>1
    <3>2. DOMAIN q = 1..Len(q) /\ DOMAIN r = 1..Len(r)
      BY <2>5, <2>6
    <3>3. Len(q) = i - 1 /\ Len(r) = Len(entered) - i
      BY <1>1, <2>1, <2>5, <2>6
    <3>4. \A j \in 1..i - 1 : q[j] = entered[j]
      BY <2>1, <2>5, <3>1
    <3>5. \A j \in 1..Len(entered) - i : r[j] = entered[i + j]
      <4> SUFFICES ASSUME NEW j \in 1..Len(entered) - i PROVE r[j] = entered[i + j]
        BY Zenon
      <4>1. j \in Nat /\ i + 1 + j - 1 = i + j
        BY <2>1
      <4>2. r[j] = entered[i + 1 + j - 1]
        BY <2>6, <3>1, Zenon
      <4> QED
        BY <4>1, <4>2, Zenon
    <3> QED
      BY <3>2, <3>3, <3>4, <3>5, Zenon
  <2>8. Distinct(q)
    BY <1>1, <2>1, <2>7 DEF Distinct
  <2>9. Distinct(r)
    <3> SUFFICES ASSUME NEW j \in DOMAIN r, NEW k \in DOMAIN r, r[j] = r[k] PROVE j = k
      BY Zenon DEF Distinct
    <3>1. i + j \in DOMAIN entered /\ i + k \in DOMAIN entered
      BY <1>1, <2>1, <2>7
    <3>2. i + j = i + k
      BY <3>1, <2>7, Zenon DEF Distinct
    <3> QED
      BY <3>2, <2>1, <2>7
  <2>10. Apart(q, r)
    <3> SUFFICES ASSUME NEW j \in DOMAIN q, NEW k \in DOMAIN r, q[j] = r[k] PROVE FALSE
      BY Zenon DEF Apart
    <3>1. j \in DOMAIN entered /\ i + k \in DOMAIN entered /\ j # i + k
      BY <1>1, <2>1, <2>7
    <3> QED
      BY <3>1, <2>7, Zenon DEF Distinct
  <2>11. entered' = q \o r
    BY <1>3, Zenon DEF q, r
  <2> QED
    BY <2>5, <2>6, <2>8, <2>9, <2>10, <2>11, ConcatDistinct, ConcatProperties, Zenon
<1> QED
  BY <1>2, <1>3, Zenon DEF Leave

\* What the callback has still to drop, without its first handle.
LEMMA DropHandleInv ==
    ASSUME SInv, DropHandle
    PROVE  SInv'
<1> USE DEF SInv
<1>1. PICK x \in agenda[1].drop :
         /\ held' = held \ {x} /\ Leave(x)
         /\ agenda' = <<Item(agenda[1].drop \ {x}, agenda[1].export)>> \o Tail(agenda)
  BY Zenon DEF DropHandle
<1>2. agenda # <<>> /\ UNCHANGED <<open, buffer, life, tasks, exported, lost, since>>
  BY Zenon DEF DropHandle
<1>3. entered' \in Seq(held') /\ Distinct(entered)'
  BY <1>1, LeaveInv, Zenon
<1> DEFINE first == Item(agenda[1].drop \ {x}, agenda[1].export)
<1>4. agenda \in Seq(Items) /\ agenda[1] \in Items
  <2>1. agenda \in Seq(Items)
    BY Zenon DEF SpanTypes
  <2> QED
    BY <2>1, <1>2
<1>5. first \in Items /\ first.drop = agenda[1].drop \ {x}
  BY <1>4 DEF Items, Item
<1>6. /\ agenda' \in Seq(Items) /\ DOMAIN agenda' = DOMAIN agenda
      /\ \A i \in DOMAIN agenda : agenda'[i] = IF i = 1 THEN first ELSE agenda[i]
  <2> HIDE DEF first
  <2>1. agenda' = <<first>> \o Tail(agenda)
    BY <1>1, Zenon DEF first
  <2>2. Tail(agenda) \in Seq(Items) /\ <<first>> \in Seq(Items)
    BY <1>2, <1>4, <1>5
  <2> QED
    BY <2>1, <2>2, <1>2, <1>4
<1> HIDE DEF first
<1>7. SpanTypes'
  BY <1>1, <1>2, <1>3, <1>6, Zenon DEF SpanTypes
<1>8. EndedOnce' /\ BufferKeepsNewest' /\ Ranked'
  BY <1>2, Zenon DEF EndedOnce, Ended, Made, BufferKeepsNewest, Ranked, Older
<1>9. HandlesGo'
  <2> SUFFICES ASSUME NEW y \in held', life'[y[1]] # "running"
               PROVE  \E i \in DOMAIN agenda' : y \in agenda'[i].drop
    BY Zenon DEF HandlesGo
  <2>1. y \in held /\ y # x /\ life[y[1]] # "running"
    BY <1>1, <1>2, Zenon
  <2>2. PICK i \in DOMAIN agenda : y \in agenda[i].drop
    BY <2>1, Zenon DEF HandlesGo
  <2> QED
    BY <2>1, <2>2, <1>5, <1>6, Zenon
<1> QED
  BY <1>3, <1>7, <1>8, <1>9, Zenon

\* An export moves the buffer to what has been exported, or lost.
LEMMA HandlesDroppedInv ==
    ASSUME SInv, HandlesDropped
    PROVE  SInv'
<1> USE DEF SInv
<1>1. /\ agenda # <<>> /\ agenda[1].drop = {} /\ agenda' = Tail(agenda)
      /\ UNCHANGED <<open, held, entered, life, tasks>>
  BY Zenon DEF HandlesDropped
<1>2. agenda \in Seq(Items)
  BY Zenon DEF SpanTypes
<1>3. /\ agenda' \in Seq(Items)
      /\ \A i \in DOMAIN agenda : i # 1 => i - 1 \in DOMAIN agenda' /\ agenda'[i - 1] = agenda[i]
  BY <1>1, <1>2
<1>4. HandlesGo'
  <2> SUFFICES ASSUME NEW y \in held', life'[y[1]] # "running"
               PROVE  \E i \in DOMAIN agenda' : y \in agenda'[i].drop
    BY Zenon DEF HandlesGo
  <2>1. PICK i \in DOMAIN agenda : y \in agenda[i].drop
    BY <1>1, Zenon DEF HandlesGo
  <2>2. i # 1
    BY <2>1, <1>1, Zenon
  <2> QED
    BY <2>1, <2>2, <1>3, Zenon
<1>5. Distinct(entered)' /\ Ranked' /\ Made' = Made
  BY <1>1, Zenon DEF Ranked, Older, Made
<1>6. CASE UNCHANGED <<buffer, exported, lost, since>>
  <2>1. SpanTypes'
    BY <1>1, <1>3, <1>6, Zenon DEF SpanTypes
  <2>2. EndedOnce' /\ BufferKeepsNewest'
    BY <1>1, <1>5, <1>6, EndedStays, Zenon DEF BufferKeepsNewest
  <2> QED
    BY <2>1, <2>2, <1>4, <1>5, Zenon
<1>7. ASSUME NEW accepted \in BOOLEAN, DispatchExport(accepted)
      PROVE  SInv'
  <2>1. /\ buffer' = <<>> /\ since' = <<>> /\ DOMAIN buffer' = {}
        /\ exported' = IF accepted THEN exported \o buffer ELSE exported
        /\ lost' = IF accepted THEN lost ELSE lost \o buffer
    BY <1>7 DEF DispatchExport, AfterTake
  <2>2. BufferKeepsNewest'
    BY <2>1, BufferAssumption DEF BufferKeepsNewest
  <2>3. buffer \in Seq(Spans) /\ exported \in Seq(Spans) /\ lost \in Seq(Spans)
    BY Zenon DEF SpanTypes
  <2>4. /\ exported' \in Seq(Spans) /\ lost' \in Seq(Spans)
        /\ buffer' \in Seq(Spans) /\ since' \in Seq(Spans)
    BY <2>1, <2>3
  <2>5. SpanTypes'
    BY <1>1, <1>3, <2>4, Zenon DEF SpanTypes
  <2>6. /\ Apart(exported, buffer) /\ Apart(lost, buffer)
        /\ Distinct(exported \o buffer) /\ Distinct(lost \o buffer)
    <3>1. Apart(exported, buffer) /\ Apart(lost, buffer)
      BY Zenon DEF EndedOnce, Apart
    <3> QED
      BY <3>1, <2>3, ConcatDistinct, Zenon DEF EndedOnce
  <2>7. /\ Mixes(exported \o buffer, exported, buffer) /\ Mixes(lost \o buffer, lost, buffer)
        /\ \A p, q : Ended(q) /\ Mixes(p, q, buffer) => Ended(p)
    <3>1. Mixes(exported \o buffer, exported, buffer) /\ Mixes(lost \o buffer, lost, buffer)
      BY <2>3, ConcatMixes, Zenon
    <3>2. ASSUME NEW p, NEW q, Ended(q), Mixes(p, q, buffer) PROVE Ended(p)
      BY <3>2, Zenon DEF EndedOnce, Ended, Mixes
    <3> QED
      BY <3>1, <3>2, Zenon
  <2>8. /\ Ended(exported \o buffer) /\ Ended(lost \o buffer)
        /\ Apart(exported \o buffer, lost) /\ Apart(exported, lost \o buffer)
    <3>1. Ended(exported \o buffer) /\ Ended(lost \o buffer)
      BY <2>7, Zenon DEF EndedOnce
    <3>2. Apart(exported \o buffer, lost)
      BY <2>7, MixApart, Zenon DEF EndedOnce
    <3>3. Apart(lost, exported)
      BY Zenon DEF EndedOnce, Apart
    <3>4. Apart(lost \o buffer, exported)
      BY <3>3, <2>7, MixApart, Zenon DEF EndedOnce
    <3>5. Apart(exported, lost \o buffer)
      BY <3>4, Zenon DEF Apart
    <3> QED
      BY <3>1, <3>2, <3>5, Zenon
  <2>9. /\ Distinct(exported') /\ Distinct(lost') /\ Apart(exported', lost')
        /\ Ended(exported') /\ Ended(lost')
    <3>1. CASE accepted
      BY <3>1, <2>1, <2>6, <2>8, Zenon DEF EndedOnce
    <3>2. CASE ~accepted
      BY <3>2, <2>1, <2>6, <2>8, Zenon DEF EndedOnce
    <3> QED
      BY <3>1, <3>2, Zenon
  <2>10. EndedOnce'
    <3>1. DOMAIN open' \subseteq Made' /\ open' = open
      BY <1>1, <1>5, Zenon DEF EndedOnce
    <3>2. Ended(exported)' /\ Ended(lost)'
      BY <3>1, <2>9, <1>5, Zenon DEF Ended
    <3>3. Distinct(exported)' /\ Distinct(lost)' /\ Apart(exported, lost)'
      BY <2>9, Zenon DEF Distinct, Apart
    <3>4. /\ Ended(buffer)' /\ Distinct(buffer)' /\ Apart(buffer, exported)'
          /\ Apart(buffer, lost)'
      BY <2>1, Zenon DEF Ended, Distinct, Apart
    <3> QED
      BY <3>1, <3>2, <3>3, <3>4, Zenon DEF EndedOnce
  <2> QED
    BY <2>2, <2>5, <2>10, <1>4, <1>5, Zenon
<1>8. \/ UNCHANGED <<buffer, exported, lost, since>>
      \/ DispatchExport(agenda[1].export = "accepted")
  BY Zenon DEF HandlesDropped
<1> QED
  BY <1>6, <1>7, <1>8, Zenon

\* Nothing is left of a callback: the handles are those of running streams.
LEMMA IdleHandles ==
    ASSUME SInv, agenda = <<>>
    PROVE  \A x \in held : life[x[1]] = "running"
<1>1. DOMAIN agenda = {}
  OBVIOUS
<1> QED
  BY <1>1, Zenon DEF SInv, HandlesGo

\* A span is a stream and a number.
LEMMA SpanPair ==
    /\ \A x \in Spans : /\ x[1] \in Streams /\ x[2] \in 0..MaxTasks
                        /\ x = <<x[1], x[2]>>
    /\ \A s \in Streams, i \in 0..MaxTasks :
          <<s, i>> \in Spans /\ <<s, i>>[1] = s /\ <<s, i>>[2] = i
  BY DEF Spans

\* It is the one of a request, or of a task.
LEMMA RequestOrTask == \A i \in 0..MaxTasks : i = 0 \/ i > 0
  BY TasksAssumption

\* The request span of a stream is made with the stream.
LEMMA EnterInv ==
    ASSUME SInv, NEW s \in Streams, EnterRequestSpan(s)
    PROVE  SInv'
<1> USE DEF SInv
<1> DEFINE x == RequestSpan(s)
<1>1. /\ agenda = <<>> /\ life[s] = "new" /\ life' = [life EXCEPT ![s] = "running"]
      /\ NewSpan(x) /\ entered' = Append(entered, x)
      /\ UNCHANGED <<buffer, tasks, agenda, exported, lost, since>>
  BY Zenon DEF EnterRequestSpan, Idle
<1>2. x \in Spans /\ x[1] = s /\ x[2] = 0
  BY SpanPair, TasksAssumption DEF RequestSpan
<1> HIDE DEF x
<1>3. x \notin Made /\ x \notin DOMAIN open
  BY <1>1, <1>2, Zenon DEF Made, EndedOnce
<1>4. /\ DOMAIN open' = DOMAIN open \cup {x} /\ held' = held \cup {x} /\ Ranked'
      /\ open' \in [DOMAIN open' -> DOMAIN open' \cup {NoSpan}]
  BY <1>1, <1>2, <1>3, NewSpanRanked, Zenon
<1>5. life \in [Streams -> {"new", "running", "torn down", "deleted"}]
  BY Zenon DEF SpanTypes
<1>6. /\ life' \in [Streams -> {"new", "running", "torn down", "deleted"}]
      /\ life'[s] = "running" /\ \A t \in Streams : t # s => life'[t] = life[t]
  BY <1>1, <1>5
<1>7. entered \in Seq(held) /\ entered \in Seq(held') /\ x \in held' /\ tasks[s] \in Nat
  <2>1. entered \in Seq(held) /\ held \subseteq held' /\ x \in held' /\ tasks[s] \in Nat
    BY <1>4, Zenon DEF SpanTypes
  <2> QED
    BY <2>1, SeqMonotone, Zenon
<1>8. /\ entered' \in Seq(held') /\ Len(entered') = Len(entered) + 1
      /\ \A i \in 1..Len(entered) : entered'[i] = entered[i]
      /\ entered'[Len(entered) + 1] = x
  <2> HIDE DEF SInv
  <2>1. entered' = Append(entered, x)
    BY <1>1, Zenon
  <2> QED
    BY <2>1, <1>7, AppendProperties
<1>9. SpanTypes'
  BY <1>1, <1>2, <1>4, <1>6, <1>8, Zenon DEF SpanTypes
<1>10. Made \cup {x} \subseteq Made'
  <2>1. x \in Made'
    <3>1. 0 <= tasks[s]
      BY <1>7
    <3>2. x[2] <= tasks'[x[1]] /\ life'[x[1]] # "new"
      BY <3>1, <1>1, <1>2, <1>6, Zenon
    <3> QED
      BY <3>2, <1>2, Zenon DEF Made
  <2>2. ASSUME NEW y \in Made PROVE y \in Made'
    <3>1. y \in Spans /\ y[1] \in Streams /\ life[y[1]] # "new" /\ y[2] <= tasks[y[1]]
      BY SpanPair, Zenon DEF Made
    <3>2. life'[y[1]] # "new"
      BY <3>1, <1>1, <1>6, Zenon
    <3> QED
      BY <3>1, <3>2, <1>1, Zenon DEF Made
  <2> QED
    BY <2>1, <2>2, Zenon
<1>11. EndedOnce'
  BY <1>1, <1>3, <1>4, <1>10, EndedNew, Zenon
<1>12. BufferKeepsNewest'
  BY <1>1, Zenon DEF BufferKeepsNewest
<1>13. Distinct(entered)'
  <2>1. \A i \in 1..Len(entered) : entered[i] # x
    BY <1>3, <1>7, ElementOfSeq, Zenon DEF SpanTypes
  <2>2. Len(entered) \in Nat /\ DOMAIN entered = 1..Len(entered) /\ DOMAIN entered' = 1..Len(entered) + 1
    BY <1>7, <1>8
  <2> SUFFICES ASSUME NEW i \in DOMAIN entered', NEW j \in DOMAIN entered',
                      entered'[i] = entered'[j]
               PROVE  i = j
    BY Zenon DEF Distinct
  <2>3. /\ i \in 1..Len(entered) \/ i = Len(entered) + 1
        /\ j \in 1..Len(entered) \/ j = Len(entered) + 1
    BY <2>2
  <2> QED
    BY <2>1, <2>2, <2>3, <1>8, Zenon DEF Distinct
<1>14. HandlesGo'
  <2> SUFFICES ASSUME NEW y \in held' PROVE life'[y[1]] = "running"
    BY Zenon DEF HandlesGo
  <2>1. CASE y = x
    BY <2>1, <1>2, <1>6, Zenon
  <2>2. CASE y \in held
    <3>1. life[y[1]] = "running" /\ y[1] \in Streams
      BY <2>2, <1>1, IdleHandles, SpanPair, Zenon DEF SpanTypes
    <3> QED
      BY <3>1, <1>6, Zenon
  <2> QED
    BY <2>1, <2>2, <1>4, Zenon
<1> QED
  BY <1>4, <1>9, <1>11, <1>12, <1>13, <1>14, Zenon

\* A task span has the next number of its stream.
LEMMA ApplyInv ==
    ASSUME SInv, NEW s \in Streams, NEW waits \in BOOLEAN, ApplyTask(s, waits)
    PROVE  SInv'
<1> USE DEF SInv
<1> DEFINE x == TaskSpan(s, tasks[s] + 1)
<1>1. /\ agenda = <<>> /\ life[s] = "running" /\ tasks[s] < MaxTasks
      /\ tasks' = [tasks EXCEPT ![s] = tasks[s] + 1] /\ NewSpan(x)
      /\ agenda' = IF waits THEN <<>> ELSE <<Item({x}, "none")>>
      /\ UNCHANGED <<entered, buffer, life, exported, lost, since>>
  BY Zenon DEF ApplyTask, Idle
<1>2. tasks \in [Streams -> Nat] /\ tasks[s] \in Nat
  BY Zenon DEF SpanTypes
<1>3. x \in Spans /\ x[1] = s /\ x[2] = tasks[s] + 1
  <2>1. tasks[s] + 1 \in 0..MaxTasks
    BY <1>1, <1>2, TasksAssumption
  <2> QED
    BY <2>1, SpanPair, Zenon DEF TaskSpan
<1> HIDE DEF x
<1>4. x \notin Made /\ x \notin DOMAIN open
  <2>1. ~(x[2] <= tasks[x[1]])
    BY <1>2, <1>3
  <2> QED
    BY <2>1, Zenon DEF Made, EndedOnce
<1>5. /\ DOMAIN open' = DOMAIN open \cup {x} /\ held' = held \cup {x} /\ Ranked'
      /\ open' \in [DOMAIN open' -> DOMAIN open' \cup {NoSpan}]
  BY <1>1, <1>3, <1>4, NewSpanRanked, Zenon
<1>6. /\ tasks' \in [Streams -> Nat] /\ tasks'[s] = tasks[s] + 1
      /\ \A t \in Streams : t # s => tasks'[t] = tasks[t]
  BY <1>1, <1>2
<1>7. entered' \in Seq(held')
  <2>1. entered' = entered /\ entered \in Seq(held) /\ held \subseteq held'
    BY <1>1, <1>5, Zenon DEF SpanTypes
  <2> QED
    BY <2>1, SeqMonotone, Zenon
<1>8. agenda' \in Seq(Items)
  <2>1. Item({x}, "none") \in Items
    BY <1>3 DEF Item, Items, Exports
  <2> QED
    BY <2>1, <1>1
<1>9. SpanTypes'
  BY <1>1, <1>3, <1>5, <1>6, <1>7, <1>8, Zenon DEF SpanTypes
<1>10. Made \cup {x} \subseteq Made'
  <2>1. x \in Made'
    BY <1>1, <1>2, <1>3, <1>6 DEF Made
  <2>2. ASSUME NEW y \in Made PROVE y \in Made'
    <3>1. /\ y \in Spans /\ y[1] \in Streams /\ life[y[1]] # "new" /\ y[2] <= tasks[y[1]]
          /\ y[2] \in 0..MaxTasks
      BY SpanPair, Zenon DEF Made
    <3>2. y[2] <= tasks'[y[1]]
      BY <3>1, <1>2, <1>6, TasksAssumption
    <3> QED
      BY <3>1, <3>2, <1>1, Zenon DEF Made
  <2> QED
    BY <2>1, <2>2, Zenon
<1>11. EndedOnce'
  BY <1>1, <1>4, <1>5, <1>10, EndedNew, Zenon
<1>12. BufferKeepsNewest' /\ Distinct(entered)'
  BY <1>1, Zenon DEF BufferKeepsNewest
<1>13. HandlesGo'
  <2> SUFFICES ASSUME NEW y \in held' PROVE life'[y[1]] = "running"
    BY Zenon DEF HandlesGo
  <2> QED
    BY <1>1, <1>3, <1>5, IdleHandles, Zenon
<1> QED
  BY <1>5, <1>9, <1>11, <1>12, <1>13, Zenon

\* A callback that only decides what to drop keeps the spans as they are.
LEMMA AgendaInv ==
    ASSUME SInv, agenda' \in Seq(Items), HandlesGo', Made \subseteq Made',
           life' \in [Streams -> {"new", "running", "torn down", "deleted"}],
           UNCHANGED <<open, held, entered, buffer, tasks, exported, lost, since>>
    PROVE  SInv'
<1>1. SpanTypes'
  BY Zenon DEF SInv, SpanTypes
<1>2. EndedOnce'
  BY EndedStays, Zenon DEF SInv
<1> QED
  BY <1>1, <1>2, Zenon DEF SInv, BufferKeepsNewest, Distinct, Ranked, Older

\* A task that is done drops its handle while its stream is running.
LEMMA FinishInv ==
    ASSUME SInv, NEW s \in Streams, NEW x \in Spans, FinishTask(s, x)
    PROVE  SInv'
<1>1. /\ agenda = <<>> /\ agenda' = <<Item({x}, "none")>>
      /\ UNCHANGED <<open, held, entered, buffer, life, tasks, exported, lost, since>>
  BY Zenon DEF FinishTask, Idle
<1>2. Item({x}, "none") \in Items
  BY DEF Item, Items, Exports
<1>3. agenda' \in Seq(Items)
  BY <1>1, <1>2
<1>4. HandlesGo'
  BY <1>1, IdleHandles, Zenon DEF HandlesGo
<1>5. /\ Made \subseteq Made'
      /\ life' \in [Streams -> {"new", "running", "torn down", "deleted"}]
  BY <1>1, Zenon DEF Made, SInv, SpanTypes
<1> QED
  BY <1>1, <1>3, <1>4, <1>5, AgendaInv, Zenon

\* A stream that goes has all its handles on the agenda.
LEMMA StreamGoes ==
    ASSUME SInv, agenda = <<>>, NEW s \in Streams, life[s] = "running",
           NEW v \in {"torn down", "deleted"}, life' = [life EXCEPT ![s] = v],
           agenda' \in Seq(Items),
           \E i \in DOMAIN agenda' : RequestSpan(s) \in agenda'[i].drop,
           \A x \in TaskHandles(s) : \E i \in DOMAIN agenda' : x \in agenda'[i].drop,
           UNCHANGED <<open, held, entered, buffer, tasks, exported, lost, since>>
    PROVE  SInv'
<1>1. life \in [Streams -> {"new", "running", "torn down", "deleted"}]
  BY Zenon DEF SInv, SpanTypes
<1>2. /\ life' \in [Streams -> {"new", "running", "torn down", "deleted"}]
      /\ life'[s] = v /\ \A t \in Streams : t # s => life'[t] = life[t]
  BY <1>1
<1>3. Made \subseteq Made'
  <2> SUFFICES ASSUME NEW y \in Made PROVE y \in Made'
    BY Zenon
  <2>1. y \in Spans /\ y[1] \in Streams /\ life[y[1]] # "new" /\ y[2] <= tasks[y[1]]
    BY SpanPair, Zenon DEF Made
  <2>2. life'[y[1]] # "new"
    BY <2>1, <1>2
  <2> QED
    BY <2>1, <2>2, Zenon DEF Made
<1>4. HandlesGo'
  <2> SUFFICES ASSUME NEW x \in held, life'[x[1]] # "running"
               PROVE  \E i \in DOMAIN agenda' : x \in agenda'[i].drop
    BY Zenon DEF HandlesGo
  <2>1. /\ x \in Spans /\ x[1] \in Streams /\ x[2] \in 0..MaxTasks /\ x = <<x[1], x[2]>>
        /\ life[x[1]] = "running"
    BY IdleHandles, SpanPair, Zenon DEF SInv, SpanTypes
  <2>2. x[1] = s
    BY <2>1, <1>2, Zenon
  <2>3. x[2] = 0 \/ x[2] > 0
    BY <2>1, RequestOrTask, Zenon
  <2>4. x = RequestSpan(s) \/ x \in TaskHandles(s)
    BY <2>1, <2>2, <2>3, Zenon DEF RequestSpan, TaskHandles
  <2> QED
    BY <2>4, Zenon
<1> QED
  BY <1>2, <1>3, <1>4, AgendaInv, Zenon

\* The items of a callback are what Items says.
LEMMA ItemsOf ==
    ASSUME SInv, NEW s \in Streams, NEW X \in SUBSET TaskHandles(s), NEW e \in Exports
    PROVE  /\ Item(X, e) \in Items /\ Item(X, e).drop = X
           /\ EndRequestSpan(s, e) \in Items
           /\ RequestSpan(s) \in EndRequestSpan(s, e).drop
<1>1. X \subseteq Spans
  BY Zenon DEF TaskHandles, SInv, SpanTypes
<1>2. RequestSpan(s) \in Spans
  BY SpanPair, TasksAssumption DEF RequestSpan
<1> QED
  BY <1>1, <1>2 DEF Item, Items, EndRequestSpan

\* The tasks of a stream that ends go before or after its request span.
LEMMA TeardownInv ==
    ASSUME SInv, NEW s \in Streams, NEW unreached \in SUBSET TaskHandles(s),
           NEW export \in {"accepted", "refused"}, ExecuteTeardown(s, unreached, export)
    PROVE  SInv'
<1> DEFINE a == Item(TaskHandles(s) \ unreached, "none")
           b == EndRequestSpan(s, export)
           c == Item(unreached, "none")
<1>1. /\ agenda = <<>> /\ life[s] = "running" /\ life' = [life EXCEPT ![s] = "torn down"]
      /\ agenda' = <<a, b, c>>
      /\ UNCHANGED <<open, held, entered, buffer, tasks, exported, lost, since>>
  BY Zenon DEF ExecuteTeardown, Idle
<1>2. /\ a \in Items /\ b \in Items /\ c \in Items /\ RequestSpan(s) \in b.drop
      /\ a.drop = TaskHandles(s) \ unreached /\ c.drop = unreached
  <2>1. TaskHandles(s) \ unreached \in SUBSET TaskHandles(s) /\ "none" \in Exports /\ export \in Exports
    BY Zenon DEF Exports
  <2> QED
    BY <2>1, ItemsOf, Zenon
<1> HIDE DEF a, b, c
<1>3. agenda' \in Seq(Items) /\ DOMAIN agenda' = 1..3
  <2>1. agenda' = <<a, b, c>> /\ a \in Items /\ b \in Items /\ c \in Items
    BY <1>1, <1>2, Zenon
  <2>2. <<a, b, c>> \in Seq(Items)
    BY <2>1
  <2>3. DOMAIN <<a, b, c>> = 1..3
    OBVIOUS
  <2> QED
    BY <2>1, <2>2, <2>3, Zenon
<1>4. agenda'[1] = a /\ agenda'[2] = b /\ agenda'[3] = c
  BY <1>1
<1>5. 1 \in DOMAIN agenda' /\ 2 \in DOMAIN agenda' /\ 3 \in DOMAIN agenda'
  BY <1>3
<1>6. \A x \in TaskHandles(s) : \E i \in DOMAIN agenda' : x \in agenda'[i].drop
  BY <1>2, <1>4, <1>5, Zenon
<1>7. \E i \in DOMAIN agenda' : RequestSpan(s) \in agenda'[i].drop
  BY <1>2, <1>4, <1>5, Zenon
<1> QED
  BY <1>1, <1>3, <1>6, <1>7, StreamGoes, Zenon

\* So do those of a stream that the host deletes.
LEMMA DeletedInv ==
    ASSUME SInv, NEW s \in Streams, StreamDeleted(s)
    PROVE  SInv'
<1> DEFINE a == EndRequestSpan(s, "none")
           b == Item(TaskHandles(s), "none")
<1>1. /\ agenda = <<>> /\ life[s] = "running" /\ life' = [life EXCEPT ![s] = "deleted"]
      /\ agenda' = <<a, b>>
      /\ UNCHANGED <<open, held, entered, buffer, tasks, exported, lost, since>>
  BY Zenon DEF StreamDeleted, Idle
<1>2. a \in Items /\ b \in Items /\ RequestSpan(s) \in a.drop /\ b.drop = TaskHandles(s)
  <2>1. TaskHandles(s) \in SUBSET TaskHandles(s) /\ "none" \in Exports
    BY Zenon DEF Exports
  <2> QED
    BY <2>1, ItemsOf, Zenon
<1> HIDE DEF a, b
<1>3. agenda' \in Seq(Items) /\ DOMAIN agenda' = 1..2
  BY <1>1, <1>2
<1>4. agenda'[1] = a /\ agenda'[2] = b
  BY <1>1
<1>5. 1 \in DOMAIN agenda' /\ 2 \in DOMAIN agenda'
  BY <1>3
<1>6. \A x \in TaskHandles(s) : \E i \in DOMAIN agenda' : x \in agenda'[i].drop
  BY <1>2, <1>4, <1>5, Zenon
<1>7. \E i \in DOMAIN agenda' : RequestSpan(s) \in agenda'[i].drop
  BY <1>2, <1>4, <1>5, Zenon
<1> QED
  BY <1>1, <1>3, <1>6, <1>7, StreamGoes, Zenon

\* Every step keeps the inductive invariant.
LEMMA SpanNextInv == SInv /\ [SpanNext]_spanVars => SInv'
<1> SUFFICES ASSUME SInv, [SpanNext]_spanVars PROVE SInv'
  OBVIOUS
<1>1. ASSUME NEW s \in Streams, Callback(s) PROVE SInv'
  BY <1>1, EnterInv, ApplyInv, FinishInv, TeardownInv, DeletedInv, Zenon DEF Callback
<1>2. ASSUME NEW x \in Ending, EndSpan(x) PROVE SInv'
  BY <1>2, EndSpanInv, Zenon
<1>3. CASE DropHandle
  BY <1>3, DropHandleInv, Zenon
<1>4. CASE HandlesDropped
  BY <1>4, HandlesDroppedInv, Zenon
<1>5. CASE UNCHANGED spanVars
  <2>1. UNCHANGED <<open, held, entered, buffer, life, tasks, agenda, exported, lost, since>>
    BY <1>5, Zenon DEF spanVars
  <2> QED
    <3>1. agenda' \in Seq(Items) /\ HandlesGo' /\ Made \subseteq Made'
      BY <2>1, Zenon DEF SInv, SpanTypes, HandlesGo, Made
    <3>2. life' \in [Streams -> {"new", "running", "torn down", "deleted"}]
      BY <2>1, Zenon DEF SInv, SpanTypes
    <3> QED
      BY <2>1, <3>1, <3>2, AgendaInv, Zenon
<1> QED
  BY <1>1, <1>2, <1>3, <1>4, <1>5, Zenon DEF SpanNext

\* The invariant says that no span is exported twice.
LEMMA InvExportedOnce == SInv => SpansExportedOnce
<1> SUFFICES ASSUME SInv PROVE SpansExportedOnce
  OBVIOUS
<1>1. buffer \in Seq(Spans) /\ exported \in Seq(Spans) /\ lost \in Seq(Spans)
  BY Zenon DEF SInv, SpanTypes
<1>2. Distinct(buffer \o exported)
  BY <1>1, ConcatDistinct, Zenon DEF SInv, EndedOnce
<1>3. Mixes(buffer \o exported, buffer, exported)
  BY <1>1, ConcatMixes, Zenon
<1>4. Apart(buffer \o exported, lost)
  BY <1>3, MixApart, Zenon DEF SInv, EndedOnce
<1>5. buffer \o exported \in Seq(Spans)
  BY <1>1
<1>6. Distinct((buffer \o exported) \o lost)
  BY <1>1, <1>2, <1>4, <1>5, ConcatDistinct, Zenon DEF SInv, EndedOnce
<1> QED
  BY <1>6, Zenon DEF SpansExportedOnce, Distinct

\* When nothing is left to do, no handle means no span.
LEMMA InvNoLeaks == SInv => NoSpanLeaks
<1> SUFFICES ASSUME SInv, Idle, \A s \in Streams : life[s] # "running"
             PROVE  DOMAIN open = {} /\ entered = <<>>
  BY Zenon DEF NoSpanLeaks
<1>1. held = {}
  <2> SUFFICES ASSUME NEW x \in held PROVE FALSE
    BY Zenon
  <2>1. life[x[1]] = "running" /\ x[1] \in Streams
    BY IdleHandles, SpanPair, Zenon DEF Idle, SInv, SpanTypes
  <2> QED
    BY <2>1, Zenon
<1>2. entered = <<>>
  <2>1. entered \in Seq({})
    BY <1>1, Zenon DEF SInv, SpanTypes
  <2> QED
    BY <2>1
<1>3. DOMAIN open = {}
  <2> SUFFICES ASSUME DOMAIN open # {} PROVE FALSE
    BY Zenon
  <2>1. \E x \in DOMAIN open : \A y \in DOMAIN open : open[y] # x
    BY LeafExists, Zenon DEF SInv
  <2> QED
    BY <2>1, <1>1, Zenon DEF Idle, Ending
<1> QED
  BY <1>2, <1>3, Zenon

-----------------------------------------------------------------------------
(* The theorems.                                                           *)

\* take_pending_spans never hands out a span twice, whichever streams of the
\* worker end spans and export them, and however they interleave.
THEOREM SpansExportedOnceTheorem == SpanSpec => []SpansExportedOnce
<1>1. SpanInit => SInv
  BY SpanInitInv, Zenon
<1>2. SInv /\ [SpanNext]_spanVars => SInv'
  BY SpanNextInv, Zenon
<1>3. SInv => SpansExportedOnce
  BY InvExportedOnce, Zenon
<1> QED
  BY <1>1, <1>2, <1>3, PTL DEF SpanSpec

\* on_end of a full buffer drops the oldest span and no other: the buffer is
\* always the newest spans since the last export.
THEOREM BufferKeepsNewestTheorem == SpanSpec => []BufferKeepsNewest
<1>1. SpanInit => SInv
  BY SpanInitInv, Zenon
<1>2. SInv /\ [SpanNext]_spanVars => SInv'
  BY SpanNextInv, Zenon
<1>3. SInv => BufferKeepsNewest
  BY Zenon DEF SInv
<1> QED
  BY <1>1, <1>2, <1>3, PTL DEF SpanSpec

\* The spans of streams that interleave are children of each other, and still
\* all of them end once the streams are torn down or deleted.
THEOREM NoSpanLeaksTheorem == SpanSpec => []NoSpanLeaks
<1>1. SpanInit => SInv
  BY SpanInitInv, Zenon
<1>2. SInv /\ [SpanNext]_spanVars => SInv'
  BY SpanNextInv, Zenon
<1>3. SInv => NoSpanLeaks
  BY InvNoLeaks, Zenon
<1> QED
  BY <1>1, <1>2, <1>3, PTL DEF SpanSpec
=============================================================================
