---------------------------- MODULE ResponsesProofs ----------------------------
(***************************************************************************)
(* The bridge that builds a Responses stream (ResponsesBridge): that its   *)
(* client reads a well-formed stream, that what the route may store is     *)
(* what the client was sent, and that no two calls are put together, for   *)
(* any number of calls and of chunks.                                      *)
(*                                                                         *)
(* The client's standing after the events that are built and not yet       *)
(* yielded is where the bridge believes it to be (Sound): each helper of   *)
(* the generator takes a sound state to a sound state, so that every yield *)
(* finds the client ready for its event.                                   *)
(***************************************************************************)
EXTENDS ResponsesBridge, TLAPS, FiniteSetTheorems, SequenceTheorems

(***************************************************************************)
(* The bridge to Responses.  What sorted() gives: every position once, and *)
(* their keys in order.                                                    *)
(***************************************************************************)
LEMMA SortedOnce ==
  ASSUME NEW S \in SUBSET Nat, IsFiniteSet(S), NEW key \in [S -> Int]
  PROVE  LET n == Cardinality(S)
             q == Sorted(S, key)
         IN  /\ n \in Nat /\ q \in [1..n -> S]
             /\ \A k \in S : \E j \in 1..n : q[j] = k
             /\ \A i, j \in 1..n : i < j => \/ key[q[i]] < key[q[j]]
                                            \/ key[q[i]] = key[q[j]] /\ q[i] < q[j]
<1> DEFINE n == Cardinality(S)
           q == Sorted(S, key)
           below(k) == {l \in S : key[l] < key[k] \/ (key[l] = key[k] /\ l < k)}
           rank == [k \in S |-> Cardinality(below(k)) + 1]
<1>1. n \in Nat
  BY FS_CardinalityType
<1>2. \A k \in S : IsFiniteSet(below(k)) /\ Cardinality(below(k)) \in Nat
  <2> TAKE k \in S
  <2>1. below(k) \in SUBSET S
    OBVIOUS
  <2> QED
    BY <2>1, FS_Subset, FS_CardinalityType
<1>3. ASSUME NEW k \in S, NEW m \in S, k \in below(m)
      PROVE  rank[k] < rank[m]
  <2>1. below(k) \in SUBSET below(m)
    <3> SUFFICES ASSUME NEW l \in below(k) PROVE l \in below(m)
      OBVIOUS
    <3>1. {l, k, m} \subseteq Int /\ {key[l], key[k], key[m]} \subseteq Int
      OBVIOUS
    <3>2. key[k] < key[m] \/ (key[k] = key[m] /\ k < m)
      BY <1>3
    <3> QED
      BY <3>1, <3>2
  <2>2. k \notin below(k)
    OBVIOUS
  <2>3. Cardinality(below(k)) <= Cardinality(below(m)) /\ Cardinality(below(k)) # Cardinality(below(m))
    <3> HIDE DEF below
    <3> QED
      BY <1>2, <1>3, <2>1, <2>2, FS_Subset
  <2> HIDE DEF below
  <2> QED
    BY <1>2, <2>3
<1>4. \A k, m \in S : k = m \/ k \in below(m) \/ m \in below(k)
  OBVIOUS
<1>5. rank \in [S -> 1..n]
  <2> SUFFICES ASSUME NEW k \in S PROVE Cardinality(below(k)) + 1 \in 1..n
    OBVIOUS
  <2>1. below(k) \in SUBSET S /\ k \notin below(k)
    OBVIOUS
  <2>2. Cardinality(below(k)) <= n /\ Cardinality(below(k)) # n
    <3> HIDE DEF below
    <3> QED
      BY <2>1, FS_Subset
  <2> HIDE DEF below
  <2> QED
    BY <1>1, <1>2, <2>2
<1>6. \A j \in 1..n : \E k \in S : rank[k] = j
  <2> HIDE DEF below
  <2>0. \A k \in S : rank[k] \in Nat
    BY <1>5
  <2> HIDE DEF rank
  <2>1. \A k, m \in S : rank[k] = rank[m] => k = m
    BY <1>3, <1>4, <2>0
  <2>2. rank \in Injection(S, 1..n)
    BY <1>5, <2>1 DEF Injection, IsInjective
  <2>3. IsFiniteSet(1..n) /\ Cardinality(1..n) = n
    BY <1>1, FS_Interval
  <2>4. rank \in Surjection(S, 1..n)
    BY <2>2, <2>3, FS_Injection
  <2> QED
    BY <2>4 DEF Surjection
<1>7. q = [j \in 1..n |-> CHOOSE k \in S : Cardinality(below(k)) = j - 1]
  BY DEF Sorted
<1>8. ASSUME NEW j \in 1..n
      PROVE  q[j] \in S /\ rank[q[j]] = j
  <2>1. \E k \in S : Cardinality(below(k)) = j - 1
    <3> HIDE DEF below
    <3> QED
      BY <1>2, <1>6
  <2>2. q[j] = CHOOSE k \in S : Cardinality(below(k)) = j - 1
    BY <1>7
  <2> HIDE DEF below, q
  <2>3. q[j] \in S /\ Cardinality(below(q[j])) = j - 1
    BY <2>1, <2>2
  <2> QED
    BY <2>3
<1>9. q \in [1..n -> S]
  BY <1>7, <1>8
<1>10. ASSUME NEW k \in S
       PROVE  \E j \in 1..n : q[j] = k
  <2> HIDE DEF below, q
  <2>1. rank[k] \in 1..n
    BY <1>5
  <2>2. q[rank[k]] \in S /\ rank[q[rank[k]]] = rank[k]
    BY <1>8, <2>1
  <2>3. \A i \in S : rank[i] \in Nat
    BY <1>5
  <2> DEFINE other == q[rank[k]]
  <2>4. other \in S /\ rank[other] = rank[k]
    BY <2>2
  <2> HIDE DEF rank, other
  <2>5. other \notin below(k) /\ k \notin below(other)
    BY <1>3, <2>3, <2>4
  <2>6. other = k
    BY <1>4, <2>4, <2>5
  <2> QED
    BY <2>1, <2>6 DEF other
<1>11. ASSUME NEW i \in 1..n, NEW j \in 1..n, i < j
       PROVE  q[i] \in below(q[j])
  <2> HIDE DEF below, q, rank
  <2>1. q[i] \in S /\ q[j] \in S /\ rank[q[i]] = i /\ rank[q[j]] = j
    BY <1>8
  <2>2. q[i] # q[j]
    BY <1>11, <2>1
  <2>3. q[j] \notin below(q[i])
    <3> SUFFICES ASSUME q[j] \in below(q[i]) PROVE FALSE
      OBVIOUS
    <3>1. rank[q[j]] < rank[q[i]]
      BY <1>3, <2>1
    <3> QED
      BY <1>1, <1>11, <2>1, <3>1
  <2> QED
    BY <1>4, <2>1, <2>2, <2>3
<1> HIDE DEF rank
<1> QED
  BY <1>1, <1>9, <1>10, <1>11

(* A set of places that is not empty has a least one.                      *)
LEMMA LeastPlace ==
  ASSUME NEW S \in SUBSET Nat, IsFiniteSet(S), S # {}
  PROVE  \E k \in S : \A l \in S : k <= l
<1> DEFINE key == [k \in S |-> k]
           n == Cardinality(S)
           q == Sorted(S, key)
<1>1. key \in [S -> Int]
  OBVIOUS
<1>2. /\ n \in Nat /\ q \in [1..n -> S]
      /\ \A k \in S : \E j \in 1..n : q[j] = k
      /\ \A i, j \in 1..n : i < j => \/ key[q[i]] < key[q[j]]
                                     \/ key[q[i]] = key[q[j]] /\ q[i] < q[j]
  <2> HIDE DEF key
  <2> QED
    BY <1>1, SortedOnce
<1> HIDE DEF q, n
<1>3. 1 \in 1..n /\ q[1] \in S
  <2>1. PICK l \in S : TRUE
    OBVIOUS
  <2>2. PICK j \in 1..n : q[j] = l
    BY <1>2
  <2> QED
    BY <1>2, <2>2
<1>4. ASSUME NEW l \in S
      PROVE  q[1] <= l
  <2>1. PICK j \in 1..n : q[j] = l
    BY <1>2
  <2>2. CASE j = 1
    BY <1>3, <2>1, <2>2
  <2>3. CASE 1 < j
    <3>1. key[q[1]] = q[1] /\ key[l] = l
      BY <1>3
    <3>2. key[q[1]] < key[q[j]] \/ (key[q[1]] = key[q[j]] /\ q[1] < q[j])
      BY <1>2, <1>3, <2>3
    <3>3. q[1] < l \/ (q[1] = l /\ q[1] < l)
      BY <2>1, <3>1, <3>2
    <3>4. q[1] \in Nat /\ l \in Nat
      BY <1>3, <1>4
    <3> HIDE DEF key
    <3> QED
      BY <3>3, <3>4
  <2> QED
    BY <1>2, <2>2, <2>3
<1> QED
  BY <1>2, <1>3, <1>4

(* What the items of the bridge are made of.                               *)
ItemArgs == {"none", "part", "rest", "whole", "torn", "thought"}
ItemRecords == [oi : Nat \cup {NoItem}, upstream_id : Calls \cup {NoName},
                of : SUBSET Calls, args : ItemArgs]

(* The open tools: each once, and all that tool_order names. *)
LEMMA OpenToolsOnce ==
  ASSUME NEW st, st.tool_order \in Seq(Calls), st.tools \in [Calls -> ItemRecords]
  PROVE  LET q == OpenTools(st)
         IN  /\ q \in Seq(Calls)
             /\ \A i, j \in DOMAIN q : q[i] = q[j] => i = j
             /\ \A c \in Calls : (\E j \in DOMAIN q : q[j] = c) <=>
                  /\ st.tools[c] # NoTool
                  /\ \E k \in DOMAIN st.tool_order : st.tool_order[k] = c
<1> DEFINE order == st.tool_order
           first == {k \in DOMAIN order : /\ st.tools[order[k]] # NoTool
                                          /\ \A l \in 1..(k - 1) : order[l] # order[k]}
           key == [k \in first |-> k]
           n == Cardinality(first)
           at == Sorted(first, key)
           q == OpenTools(st)
<1>1. /\ order \in Seq(Calls) /\ Len(order) \in Nat /\ DOMAIN order = 1..Len(order)
      /\ \A k \in DOMAIN order : order[k] \in Calls
  OBVIOUS
<1>2. q = [j \in DOMAIN at |-> order[at[j]]]
  BY DEF OpenTools
<1>3. first \in SUBSET Nat /\ IsFiniteSet(first) /\ key \in [first -> Int]
  <2>1. IsFiniteSet(1..Len(order))
    BY <1>1, FS_Interval
  <2>2. first \in SUBSET (1..Len(order))
    BY <1>1
  <2> HIDE DEF first, order
  <2>3. IsFiniteSet(first)
    BY <2>1, <2>2, FS_Subset
  <2>4. first \in SUBSET Nat
    BY <2>2
  <2> QED
    BY <2>3, <2>4
<1>4. /\ n \in Nat /\ at \in [1..n -> first]
      /\ \A k \in first : \E j \in 1..n : at[j] = k
      /\ \A i, j \in 1..n : i < j => at[i] < at[j]
  <2>1. /\ n \in Nat /\ at \in [1..n -> first]
        /\ \A k \in first : \E j \in 1..n : at[j] = k
        /\ \A i, j \in 1..n : i < j => \/ key[at[i]] < key[at[j]]
                                       \/ key[at[i]] = key[at[j]] /\ at[i] < at[j]
    <3> HIDE DEF first, key
    <3> QED
      BY <1>3, SortedOnce
  <2> HIDE DEF first, at, n
  <2>2. \A j \in 1..n : key[at[j]] = at[j]
    BY <2>1
  <2> HIDE DEF key
  <2> QED
    BY <2>1, <2>2
<1> HIDE DEF at, n, q, order
<1>5. \A j \in 1..n : at[j] \in DOMAIN order
  BY <1>4
<1>6. DOMAIN q = 1..n /\ q \in Seq(Calls)
  BY <1>1, <1>2, <1>4, <1>5, SMTT(30)
<1>7. ASSUME NEW i \in 1..n, NEW j \in 1..n, i < j
      PROVE  q[i] # q[j]
  <2>1. at[i] < at[j] /\ at[i] \in DOMAIN order /\ at[j] \in first
    BY <1>4, <1>5, <1>7
  <2>2. at[i] \in 1..(at[j] - 1)
    BY <1>1, <1>3, <1>5, <2>1
  <2>3. order[at[i]] # order[at[j]]
    BY <2>1, <2>2
  <2> QED
    BY <1>2, <1>6, <2>3
<1>8. \A i, j \in DOMAIN q : q[i] = q[j] => i = j
  BY <1>4, <1>6, <1>7
<1>9. ASSUME NEW c \in Calls, NEW j \in DOMAIN q, q[j] = c
      PROVE  st.tools[c] # NoTool /\ \E k \in DOMAIN order : order[k] = c
  <2>1. at[j] \in first /\ order[at[j]] = c
    BY <1>2, <1>4, <1>6, <1>9
  <2> QED
    BY <2>1
<1>10. ASSUME NEW c \in Calls, st.tools[c] # NoTool, NEW k \in DOMAIN order, order[k] = c
       PROVE  \E j \in DOMAIN q : q[j] = c
  <2> DEFINE named == {l \in DOMAIN order : order[l] = c}
  <2>1. named \in SUBSET Nat /\ named # {} /\ IsFiniteSet(named)
    <3>1. IsFiniteSet(1..Len(order))
      BY <1>1, FS_Interval
    <3>2. named \in SUBSET (1..Len(order))
      BY <1>1
    <3> QED
      BY <1>1, <1>10, <3>1, <3>2, FS_Subset
  <2>2. PICK l \in named : \A m \in named : l <= m
    <3> HIDE DEF named
    <3> QED
      BY <2>1, LeastPlace
  <2>3. ASSUME NEW m \in 1..(l - 1) PROVE order[m] # order[l]
    BY <1>1, <2>2, <2>3
  <2>4. l \in first
    BY <1>10, <2>2, <2>3
  <2>5. PICK j \in 1..n : at[j] = l
    BY <1>4, <2>4
  <2> QED
    BY <1>2, <1>6, <2>2, <2>5
<1> HIDE DEF first
<1> QED
  BY <1>6, <1>8, <1>9, <1>10 DEF q, order

(* The transcript: what is no thought, each once and by its output index. *)
LEMMA TranscriptOnce ==
  ASSUME NEW q \in Seq(ItemRecords)
  PROVE  LET kept == {k \in DOMAIN q : q[k].args # "thought"}
             n == Cardinality(kept)
         IN  /\ n \in Nat
             /\ \E at \in [1..n -> kept] :
                  /\ \A k \in kept : \E j \in 1..n : at[j] = k
                  /\ \A i, j \in 1..n : at[i] = at[j] => i = j
                  /\ \A i, j \in 1..n : i < j => q[at[i]].oi <= q[at[j]].oi
                  /\ Transcript(q) = [j \in 1..n |-> q[at[j]]]
<1> DEFINE kept == {k \in DOMAIN q : q[k].args # "thought"}
           n == Cardinality(kept)
           key == [k \in kept |-> q[k].oi]
           at == Sorted(kept, key)
<1>1. kept \in SUBSET Nat /\ IsFiniteSet(kept) /\ key \in [kept -> Int]
  <2>1. IsFiniteSet(1..Len(q)) /\ kept \in SUBSET (1..Len(q))
    BY FS_Interval
  <2>2. ASSUME NEW k \in DOMAIN q PROVE q[k].oi \in Int
    <3>1. q[k] \in ItemRecords
      OBVIOUS
    <3> QED
      BY <3>1 DEF ItemRecords, NoItem
  <2>3. key \in [kept -> Int]
    BY <2>2
  <2> HIDE DEF kept
  <2> QED
    BY <2>1, <2>3, FS_Subset
<1>2. /\ n \in Nat /\ at \in [1..n -> kept]
      /\ \A k \in kept : \E j \in 1..n : at[j] = k
      /\ \A i, j \in 1..n : i < j => \/ key[at[i]] < key[at[j]]
                                     \/ key[at[i]] = key[at[j]] /\ at[i] < at[j]
  <2> HIDE DEF kept, key
  <2> QED
    BY <1>1, SortedOnce
<1>3. Transcript(q) = [j \in DOMAIN at |-> q[at[j]]]
  BY DEF Transcript
<1> HIDE DEF at, n, kept
<1>4. ASSUME NEW i \in 1..n, NEW j \in 1..n, i < j
      PROVE  at[i] # at[j]
  <2>1. key[at[i]] \in Int /\ at[i] \in Int
    <3> HIDE DEF key
    <3>1. at[i] \in kept
      BY <1>2
    <3> QED
      BY <1>1, <3>1, SMTT(30)
  <2>2. \/ key[at[i]] < key[at[j]]
        \/ key[at[i]] = key[at[j]] /\ at[i] < at[j]
    <3> HIDE DEF key
    <3> QED
      BY <1>2, <1>4
  <2> HIDE DEF key
  <2> QED
    BY <2>1, <2>2
<1>5. \A i, j \in 1..n : at[i] = at[j] => i = j
  BY <1>2, <1>4
<1>6. ASSUME NEW i \in 1..n, NEW j \in 1..n, i < j
      PROVE  q[at[i]].oi <= q[at[j]].oi
  <2>1. key[at[i]] = q[at[i]].oi /\ key[at[j]] = q[at[j]].oi
    BY <1>2
  <2>2. key[at[i]] \in Int /\ key[at[j]] \in Int
    BY <1>1, <1>2
  <2>3. key[at[i]] <= key[at[j]]
    <3> HIDE DEF key
    <3> QED
      BY <1>2, <1>6, <2>2
  <2> QED
    BY <2>1, <2>3
<1>7. Transcript(q) = [j \in 1..n |-> q[at[j]]]
  BY <1>2, <1>3
<1> HIDE DEF key
<1> QED
  BY <1>2, <1>5, <1>6, <1>7 DEF n, kept

(* Where a client is in its stream, and what an event does to it.          *)
ItemStates == [kind : Reader!Kinds, part : {"none", "open", "closed", "done"}]
Told(p, its, n) == [phase |-> p, items |-> its, number |-> n]
Tellings == [phase : {"new", "created", "running", "over"}, items : Seq(ItemStates), number : Int]
Types == {"created", "in_progress", "part.added", "delta", "done", "part.done", "item.done",
          "completed", "failed"} \cup Reader!Kinds
EventRecords == [type : Types, item : Int, number : Int]
WithPart(its, i, p) == [its EXCEPT ![i + 1].part = p]
Places(its) == 0..(Len(its) - 1)

(* What an event does of an item the client knows, of a new one, and of    *)
(* the stream as a whole.                                                  *)
TellsOf(v, e, w) ==
  /\ e.item \in Places(v.items) /\ v.phase = "running" /\ w.phase = "running"
  /\ LET it == v.items[e.item + 1]
         ready == it.part = IF it.kind = "call" THEN "none" ELSE "open"
     IN \/ /\ e.type = "part.added" /\ it.kind # "call" /\ it.part = "none"
           /\ w.items = WithPart(v.items, e.item, "open")
        \/ e.type \in {"delta", "done"} /\ ready /\ w.items = v.items
        \/ /\ e.type = "part.done" /\ it.kind # "call" /\ ready
           /\ w.items = WithPart(v.items, e.item, "closed")
        \/ /\ e.type = "item.done" /\ it.part = (IF it.kind = "call" THEN "none" ELSE "closed")
           /\ w.items = WithPart(v.items, e.item, "done")

TellsNew(v, e, w) ==
  /\ v.phase = "running" /\ w.phase = "running"
  /\ e.type \in Reader!Kinds /\ e.item = Len(v.items)
  /\ e.type = "reasoning" => v.items = <<>>
  /\ \A i \in Places(v.items) :
       v.items[i + 1].part # "done" => e.type = "call" /\ v.items[i + 1].kind = "call"
  /\ w.items = Append(v.items, [kind |-> e.type, part |-> "none"])

TellsPhase(v, e, w) ==
  /\ e.item = -1 /\ w.items = v.items
  /\ \/ e.type = "created" /\ v.phase = "new" /\ w.phase = "created"
     \/ e.type = "in_progress" /\ v.phase = "created" /\ w.phase = "running"
     \/ /\ e.type = "completed" /\ v.phase = "running" /\ w.phase = "over"
        /\ \A i \in Places(v.items) : v.items[i + 1].part = "done"
     \/ e.type = "failed" /\ v.phase # "over" /\ w.phase = "over"

Tells(v, e, w) ==
  /\ e.number = v.number + 1 /\ w.number = e.number
  /\ TellsPhase(v, e, w) \/ TellsNew(v, e, w) \/ TellsOf(v, e, w)

(* The client goes from one standing to another through the events q.      *)
Path(q, p) == /\ p \in [0..Len(q) -> Tellings]
              /\ \A j \in 1..Len(q) : Tells(p[j-1], q[j], p[j])

Brings(q, v, w) == \E p : Path(q, p) /\ p[0] = v /\ p[Len(q)] = w

(* No event leaves the client where it is.                                 *)
LEMMA BringsNowhere ==
  ASSUME NEW v \in Tellings
  PROVE  Brings(<<>>, v, v)
<1> DEFINE p == [j \in 0..0 |-> v]
<1>1. Path(<<>>, p) /\ p[0] = v /\ p[Len(<<>>)] = v
  BY DEF Path
<1> HIDE DEF p
<1> QED
  BY <1>1 DEF Brings

(* One event.                                                              *)
LEMMA BringsBy ==
  ASSUME NEW e \in EventRecords, NEW v \in Tellings, NEW w \in Tellings, Tells(v, e, w)
  PROVE  Brings(<<e>>, v, w)
<1> DEFINE p == [j \in 0..1 |-> IF j = 0 THEN v ELSE w]
<1>1. Len(<<e>>) = 1 /\ <<e>>[1] = e
  OBVIOUS
<1>2. Path(<<e>>, p) /\ p[0] = v /\ p[Len(<<e>>)] = w
  BY <1>1 DEF Path
<1> HIDE DEF p
<1> QED
  BY <1>2 DEF Brings

(* One way after another.                                                  *)
LEMMA BringsOn ==
  ASSUME NEW q \in Seq(EventRecords), NEW r \in Seq(EventRecords), NEW u, NEW v, NEW w,
         Brings(q, u, v), Brings(r, v, w)
  PROVE  Brings(q \o r, u, w)
<1>1. PICK a : Path(q, a) /\ a[0] = u /\ a[Len(q)] = v
  BY DEF Brings
<1>2. PICK b : Path(r, b) /\ b[0] = v /\ b[Len(r)] = w
  BY DEF Brings
<1> DEFINE m == Len(q)
           n == Len(r)
           p == [j \in 0..(m + n) |-> IF j <= m THEN a[j] ELSE b[j - m]]
<1>3. m \in Nat /\ n \in Nat /\ q \o r \in Seq(EventRecords) /\ Len(q \o r) = m + n
  BY LenProperties, ConcatProperties
<1>4. p \in [0..(m + n) -> Tellings]
  BY <1>1, <1>2, <1>3 DEF Path
<1>5. ASSUME NEW j \in 1..(m + n)
      PROVE  Tells(p[j-1], (q \o r)[j], p[j])
  <2>1. CASE j <= m
    <3>1. (q \o r)[j] = q[j] /\ p[j-1] = a[j-1] /\ p[j] = a[j]
      BY <1>3, <2>1, ConcatProperties
    <3> QED
      BY <1>1, <1>3, <2>1, <3>1 DEF Path
  <2>2. CASE j > m
    <3>1. (q \o r)[j] = r[j - m]
      BY <1>3, <2>2, ConcatProperties
    <3>2. p[j] = b[j - m] /\ p[j-1] = b[(j - m) - 1]
      BY <1>1, <1>2, <1>3, <2>2
    <3>3. j - m \in 1..n
      BY <1>3, <2>2
    <3> QED
      BY <1>2, <3>1, <3>2, <3>3 DEF Path
  <2> QED
    BY <1>3, <2>1, <2>2
<1>6. p[0] = u /\ p[m + n] = w
  <2>1. 0 \in 0..(m + n) /\ 0 <= m /\ p[0] = a[0]
    BY <1>3
  <2>2. CASE n = 0
    <3>1. m + n = m /\ m \in 0..(m + n) /\ p[m + n] = a[m]
      BY <1>3, <2>2
    <3> QED
      BY <1>1, <1>2, <2>1, <2>2, <3>1
  <2>3. CASE n # 0
    <3>1. ~ (m + n <= m) /\ m + n \in 0..(m + n) /\ (m + n) - m = n
      BY <1>3, <2>3
    <3>2. p[m + n] = b[n]
      BY <3>1
    <3> QED
      BY <1>1, <1>2, <2>1, <3>2
  <2> QED
    BY <2>2, <2>3
<1>7. Path(q \o r, p) /\ p[0] = u /\ p[Len(q \o r)] = w
  BY <1>3, <1>4, <1>5, <1>6 DEF Path
<1> HIDE DEF p
<1> QED
  BY <1>7 DEF Brings

(* The first of the events, and the others after it.                       *)
LEMMA BringsFirst ==
  ASSUME NEW q \in Seq(EventRecords), q # <<>>, NEW v, NEW w, Brings(q, v, w)
  PROVE  /\ v \in Tellings /\ w \in Tellings
         /\ \E u \in Tellings : Tells(v, Head(q), u) /\ Brings(Tail(q), u, w)
<1>1. PICK a : Path(q, a) /\ a[0] = v /\ a[Len(q)] = w
  BY DEF Brings
<1> DEFINE n == Len(q)
           p == [j \in 0..(n - 1) |-> a[j + 1]]
<1>2. n \in Nat /\ n > 0 /\ Tail(q) \in Seq(EventRecords) /\ Len(Tail(q)) = n - 1
  BY LenProperties, HeadTailProperties, EmptySeq
<1>3. \A j \in 1..(n - 1) : Tail(q)[j] = q[j + 1]
  BY <1>2
<1>4. p \in [0..(n - 1) -> Tellings] /\ v \in Tellings /\ w \in Tellings /\ a[1] \in Tellings
  BY <1>1, <1>2 DEF Path
<1>5. \A j \in 1..(n - 1) : Tells(p[j-1], Tail(q)[j], p[j])
  BY <1>1, <1>2, <1>3 DEF Path
<1>6. Tells(v, Head(q), a[1])
  BY <1>1, <1>2 DEF Path
<1>7. Path(Tail(q), p) /\ p[0] = a[1] /\ p[Len(Tail(q))] = w
  BY <1>1, <1>2, <1>4, <1>5 DEF Path
<1> HIDE DEF p
<1>8. Brings(Tail(q), a[1], w)
  BY <1>7 DEF Brings
<1> QED
  BY <1>4, <1>6, <1>8

(* Both ends of a way are standings of a client.                           *)
LEMMA BringsTypes ==
  ASSUME NEW q \in Seq(EventRecords), NEW v, NEW w, Brings(q, v, w)
  PROVE  v \in Tellings /\ w \in Tellings /\ (q = <<>> => v = w)
<1>1. PICK a : Path(q, a) /\ a[0] = v /\ a[Len(q)] = w
  BY DEF Brings
<1>2. Len(q) \in Nat /\ (q = <<>> => Len(q) = 0)
  BY LenProperties, EmptySeq
<1> QED
  BY <1>1, <1>2 DEF Path

(* One more event. *)
LEMMA BringsMore ==
  ASSUME NEW q \in Seq(EventRecords), NEW e \in EventRecords, NEW v, NEW u, NEW w \in Tellings,
         Brings(q, v, u), Tells(u, e, w)
  PROVE  q \o <<e>> \in Seq(EventRecords) /\ Brings(q \o <<e>>, v, w)
<1>1. u \in Tellings
  BY BringsTypes
<1>2. <<e>> \in Seq(EventRecords) /\ Brings(<<e>>, u, w)
  BY <1>1, BringsBy
<1> QED
  BY <1>2, BringsOn, ConcatProperties

(* The part of one item changes, and no other item does.                   *)
LEMMA PartsChange ==
  ASSUME NEW its \in Seq(ItemStates), NEW i \in Places(its),
         NEW p \in {"none", "open", "closed", "done"}
  PROVE  LET new == WithPart(its, i, p)
         IN  /\ new \in Seq(ItemStates) /\ Len(new) = Len(its)
             /\ new[i + 1].part = p /\ new[i + 1].kind = its[i + 1].kind
             /\ \A j \in Places(its) : j # i => new[j + 1] = its[j + 1]
<1> DEFINE r == [its[i + 1] EXCEPT !.part = p]
           new == [its EXCEPT ![i + 1] = r]
<1>1. Len(its) \in Nat /\ i + 1 \in 1..Len(its) /\ its[i + 1] \in ItemStates
  BY LenProperties DEF Places
<1>2. r \in ItemStates /\ r.part = p /\ r.kind = its[i + 1].kind
  BY <1>1 DEF ItemStates
<1>3. WithPart(its, i, p) = new
  BY DEF WithPart
<1> HIDE DEF r
<1>4. new \in Seq(ItemStates) /\ Len(new) = Len(its)
  BY <1>1, <1>2
<1>5. new[i + 1] = r
  BY <1>1
<1>6. \A j \in Places(its) : j # i => new[j + 1] = its[j + 1]
  BY <1>1 DEF Places
<1> QED
  BY <1>2, <1>3, <1>4, <1>5, <1>6

(* What is yielded is read. *)
Hearing == Told(phase, items, heard.number)

LEMMA YieldedIsRead ==
  ASSUME NEW e \in EventRecords, NEW u \in Tellings, Hearing \in Tellings, Tells(Hearing, e, u),
         heard' = e,
         items' = CASE e.type \in Reader!Kinds -> Append(items, [kind |-> e.type, part |-> "none"])
                    [] e.type = "part.added" -> [items EXCEPT ![e.item + 1].part = "open"]
                    [] e.type = "part.done" -> [items EXCEPT ![e.item + 1].part = "closed"]
                    [] e.type = "item.done" -> [items EXCEPT ![e.item + 1].part = "done"]
                    [] OTHER -> items,
         phase' = CASE e.type = "created" -> "created" [] e.type \in {"completed", "failed"} -> "over"
                     [] OTHER -> "running"
  PROVE  Reader!Next /\ Hearing' = u
<1>1. /\ Hearing.phase = phase /\ Hearing.items = items /\ Hearing.number = heard.number
      /\ phase \in {"new", "created", "running", "over"} /\ items \in Seq(ItemStates) /\ heard.number \in Int
  BY DEF Hearing, Told, Tellings
<1>2. e = Reader!Event(e.type, e.item, heard.number + 1)
  BY <1>1 DEF EventRecords, Reader!Event, Tells
<1>3. heard'.number = u.number
  BY DEF Tells
<1>4. \A p, its, n : (Told(p, its, n) = u) <=> (u.phase = p /\ u.items = its /\ u.number = n)
  BY DEF Told, Tellings
<1>5. CASE TellsPhase(Hearing, e, u)
  <2>1. items' = items /\ e.item = -1
    BY <1>5 DEF TellsPhase, Reader!Kinds
  <2>2. phase' = u.phase /\ items' = u.items
    BY <1>1, <1>5, <2>1 DEF TellsPhase
  <2>3. Hearing' = u
    BY <1>3, <1>4, <2>2 DEF Hearing
  <2>4. Reader!Hear(e.type, -1)
    BY <1>2, <2>1 DEF Reader!Hear
  <2>5. CASE e.type \in {"created", "in_progress"}
    <3>1. \/ e.type = "created" /\ phase = "new" /\ phase' = "created" /\ Reader!Hear("created", -1)
          \/ e.type = "in_progress" /\ phase = "created" /\ phase' = "running" /\ Reader!Hear("in_progress", -1)
      BY <1>1, <1>5, <2>2, <2>4, <2>5 DEF TellsPhase
    <3> QED
      BY <2>1, <2>3, <3>1 DEF Reader!Next, Reader!Begin
  <2>6. CASE e.type \in {"completed", "failed"}
    <3>1. phase # "over" /\ phase' = "over"
      BY <1>1, <1>5, <2>2, <2>6 DEF TellsPhase
    <3>2. e.type = "completed" => phase = "running" /\ \A i \in Reader!Index : ~Reader!Open(i)
      BY <1>1, <1>5 DEF TellsPhase, Places, Reader!Index, Reader!Open
    <3>3. \/ e.type = "completed" /\ Reader!Hear("completed", -1)
          \/ e.type = "failed" /\ Reader!Hear("failed", -1)
      BY <2>4, <2>6
    <3> QED
      BY <2>1, <2>3, <3>1, <3>2, <3>3 DEF Reader!Next, Reader!Ended
  <2> QED
    BY <1>5, <2>3, <2>5, <2>6 DEF TellsPhase
<1>6. CASE TellsNew(Hearing, e, u)
  <2>1. /\ e.type \in Reader!Kinds /\ e.item = Len(items) /\ phase = "running" /\ phase' = "running"
        /\ items' = Append(items, [kind |-> e.type, part |-> "none"])
        /\ u.items = items' /\ u.phase = "running"
    BY <1>1, <1>6 DEF TellsNew, Reader!Kinds
  <2>2. Hearing' = u
    BY <1>3, <1>4, <2>1, ZenonT(40) DEF Hearing
  <2>3. Reader!Hear(e.type, Len(items))
    BY <1>2, <2>1 DEF Reader!Hear
  <2>4. Reader!ItemAdded(e.type)
    BY <1>1, <1>6, <2>1, <2>3 DEF TellsNew, Reader!ItemAdded, Reader!Open, Reader!Index, Places
  <2> QED
    BY <2>1, <2>2, <2>4 DEF Reader!Next, Reader!Running
<1>7. CASE TellsOf(Hearing, e, u)
  <2> DEFINE i == e.item
  <2>1. i \in Reader!Index /\ phase = "running" /\ phase' = "running" /\ u.phase = "running"
        /\ e.type \in {"part.added", "delta", "done", "part.done", "item.done"}
    BY <1>1, <1>7 DEF TellsOf, Places, Reader!Index, Reader!Kinds
  <2>2. Reader!Hear(e.type, i)
    BY <1>2 DEF Reader!Hear
  <2>3. items' = u.items
    BY <1>1, <1>7, <2>1 DEF TellsOf, WithPart, Reader!Kinds
  <2>4. Hearing' = u
    BY <1>3, <1>4, <2>1, <2>3 DEF Hearing
  <2>5. Reader!PartAdded(i) \/ Reader!Said(i) \/ Reader!PartDone(i) \/ Reader!ItemDone(i)
    <3>1. CASE e.type = "part.added"
      BY <1>1, <1>7, <2>2, <2>3, <3>1 DEF TellsOf, WithPart, Reader!PartAdded, Reader!SetPart
    <3>2. CASE e.type \in {"delta", "done"}
      BY <1>1, <1>7, <2>2, <2>3, <3>2 DEF TellsOf, Reader!Said, Reader!Ready
    <3>3. CASE e.type = "part.done"
      BY <1>1, <1>7, <2>2, <2>3, <3>3 DEF TellsOf, WithPart, Reader!PartDone, Reader!SetPart, Reader!Ready
    <3>4. CASE e.type = "item.done"
      BY <1>1, <1>7, <2>2, <2>3, <3>4 DEF TellsOf, WithPart, Reader!ItemDone, Reader!SetPart
    <3> QED
      BY <2>1, <3>1, <3>2, <3>3, <3>4
  <2> QED
    BY <2>1, <2>4, <2>5 DEF Reader!Next, Reader!Running
<1> QED
  BY <1>5, <1>6, <1>7 DEF Tells

(* The states of the bridge while it builds events, and where it believes  *)
(* its client to be: every item that is not done is the thought, the       *)
(* message or the call of a tool that is open, and the output has the rest.*)
RespStates == [seq : Nat, next_oi : Nat, reasoning : Nat \cup {NoItem}, text : Nat \cup {NoItem},
               kind : {"-", "text", "refusal"}, tools : [Calls -> ItemRecords],
               tool_order : Seq(Calls), output : Seq(ItemRecords), out : Seq(EventRecords)]

(* Whether a tool item is open under the index c.                          *)
HasTool(st, c) == st.tools[c] # NoTool

(* The output has a record of each item that is done, and of no other.     *)
OutputAgrees(q, its) ==
  /\ \A k \in DOMAIN q : /\ q[k].oi \in Places(its) /\ its[q[k].oi + 1].part = "done"
                         /\ q[k].args = "thought" <=> its[q[k].oi + 1].kind = "reasoning"
  /\ \A k, l \in DOMAIN q : q[k].oi = q[l].oi => k = l
  /\ \A i \in Places(its) : its[i + 1].part = "done" => \E k \in DOMAIN q : q[k].oi = i

(* A thought is open beside nothing, a message beside no call.             *)
OneAtATimeIn(st) ==
  /\ st.reasoning # NoItem => st.text = NoItem /\ \A c \in Calls : ~HasTool(st, c)
  /\ st.text # NoItem => \A c \in Calls : ~HasTool(st, c)

(* An open tool is a call that is not done, of its own, and tool_order     *)
(* names it.                                                               *)
ToolsAgree(st, its) ==
  /\ \A c \in Calls : HasTool(st, c) =>
       /\ st.tools[c].oi \in Places(its) /\ its[st.tools[c].oi + 1] = [kind |-> "call", part |-> "none"]
       /\ st.tools[c].args # "thought"
       /\ \E k \in DOMAIN st.tool_order : st.tool_order[k] = c
  /\ \A c, d \in Calls : HasTool(st, c) /\ HasTool(st, d) /\ st.tools[c].oi = st.tools[d].oi => c = d

(* What is not done is open in the bridge.                                 *)
PartsAgree(st, its) ==
  /\ st.reasoning # NoItem =>
       st.reasoning \in Places(its) /\ its[st.reasoning + 1] = [kind |-> "reasoning", part |-> "open"]
  /\ st.text # NoItem =>
       st.text \in Places(its) /\ its[st.text + 1] = [kind |-> "message", part |-> "open"]
  /\ \A i \in Places(its) : its[i + 1].part # "done" =>
       i = st.reasoning \/ i = st.text \/ \E c \in Calls : HasTool(st, c) /\ st.tools[c].oi = i

(* The bridge and the client it has built events for.                      *)
Agrees(st, w) ==
  /\ w \in Tellings /\ w.phase = "running" /\ w.number = st.seq - 1 /\ Len(w.items) = st.next_oi
  /\ OneAtATimeIn(st) /\ ToolsAgree(st, w.items) /\ PartsAgree(st, w.items)
  /\ OutputAgrees(st.output, w.items)

Sound(st, v) == st \in RespStates /\ \E w : Agrees(st, w) /\ Brings(st.out, v, w)

(* An item is done, and its record appended.                               *)
LEMMA OutputOneMore ==
  ASSUME NEW q \in Seq(ItemRecords), NEW its \in Seq(ItemStates), NEW new \in Seq(ItemStates),
         OutputAgrees(q, its), NEW i \in Places(its), its[i + 1].part # "done",
         NEW e \in ItemRecords, e.oi = i, e.args = "thought" <=> its[i + 1].kind = "reasoning",
         Len(new) = Len(its), new[i + 1].part = "done", new[i + 1].kind = its[i + 1].kind,
         \A j \in Places(its) : j # i => new[j + 1] = its[j + 1]
  PROVE  Append(q, e) \in Seq(ItemRecords) /\ OutputAgrees(Append(q, e), new)
<1> DEFINE r == Append(q, e)
           n == Len(q)
<1>1. /\ r \in Seq(ItemRecords) /\ n \in Nat /\ DOMAIN q = 1..n /\ DOMAIN r = 1..(n + 1)
      /\ r[n + 1] = e /\ \A k \in 1..n : r[k] = q[k]
  BY AppendProperties, LenProperties
<1> HIDE DEF r, n
<1>2. Places(new) = Places(its)
  BY DEF Places
<1>3. \A k \in 1..n : q[k].oi # i
  BY <1>1 DEF OutputAgrees
<1>4. ASSUME NEW k \in DOMAIN r
      PROVE  /\ r[k].oi \in Places(new) /\ new[r[k].oi + 1].part = "done"
             /\ r[k].args = "thought" <=> new[r[k].oi + 1].kind = "reasoning"
  <2>1. CASE k = n + 1
    BY <1>1, <1>2, <2>1
  <2>2. CASE k \in 1..n
    <3>1. new[q[k].oi + 1] = its[q[k].oi + 1] /\ r[k] = q[k]
      BY <1>1, <1>3, <2>2 DEF OutputAgrees
    <3> QED
      BY <1>1, <1>2, <2>2, <3>1 DEF OutputAgrees
  <2> QED
    BY <1>1, <2>1, <2>2
<1>5. ASSUME NEW k \in DOMAIN r, NEW l \in DOMAIN r, r[k].oi = r[l].oi
      PROVE  k = l
  <2>1. \A x \in 1..n : r[x].oi # i /\ r[x] = q[x]
    BY <1>1, <1>3
  <2>2. r[n + 1].oi = i
    BY <1>1
  <2>3. CASE k \in 1..n /\ l \in 1..n
    BY <1>1, <1>5, <2>1, <2>3 DEF OutputAgrees
  <2> QED
    BY <1>1, <1>5, <2>1, <2>2, <2>3
<1>6. ASSUME NEW j \in Places(new), new[j + 1].part = "done"
      PROVE  \E k \in DOMAIN r : r[k].oi = j
  <2>1. CASE j = i
    <3>1. n + 1 \in DOMAIN r
      BY <1>1
    <3> QED
      BY <1>1, <2>1, <3>1
  <2>2. CASE j # i
    <3>1. its[j + 1].part = "done"
      BY <1>2, <1>6, <2>2
    <3>2. PICK k \in 1..n : q[k].oi = j
      BY <1>1, <1>2, <3>1 DEF OutputAgrees
    <3>3. k \in DOMAIN r /\ r[k] = q[k]
      BY <1>1
    <3> QED
      BY <3>2, <3>3
  <2> QED
    BY <2>1, <2>2
<1>7. OutputAgrees(r, new)
  BY <1>4, <1>5, <1>6 DEF OutputAgrees
<1> QED
  BY <1>1, <1>7 DEF r

(* A new item leaves the output as it is.                                  *)
LEMMA OutputAsBefore ==
  ASSUME NEW q \in Seq(ItemRecords), NEW its \in Seq(ItemStates), NEW r \in ItemStates, r.part # "done",
         OutputAgrees(q, its)
  PROVE  OutputAgrees(q, Append(its, r))
<1> DEFINE new == Append(its, r)
           n == Len(its)
<1>1. /\ n \in Nat /\ Len(new) = n + 1 /\ new[n + 1] = r
      /\ Places(its) = 0..(n - 1) /\ Places(new) = 0..n
      /\ \A j \in Places(its) : new[j + 1] = its[j + 1]
  BY AppendProperties, LenProperties DEF Places
<1> HIDE DEF new, n
<1>2. \A j \in Places(new) : new[j + 1].part = "done" => j \in Places(its)
  BY <1>1
<1>3. Places(its) \subseteq Places(new)
  BY <1>1
<1>4. OutputAgrees(q, new)
  BY <1>1, <1>2, <1>3, SMTT(30) DEF OutputAgrees
<1> QED
  BY <1>4 DEF new

(* The last events of a thought or of a message. *)
Numbered(types, i, n) == [j \in DOMAIN types |-> Reader!Event(types[j], i, n + j - 1)]
DonePart(its, i) == WithPart(WithPart(its, i, "closed"), i, "done")

(* The three last events of an item with a part.                           *)
LEMMA PartEnds ==
  ASSUME NEW q \in Seq(EventRecords), NEW v, NEW w, Brings(q, v, w), w.phase = "running",
         NEW i \in Places(w.items), w.items[i + 1].kind # "call", w.items[i + 1].part = "open",
         NEW s, s = w.number + 1
  PROVE  LET more == Numbered(PartDone, i, s)
             its == DonePart(w.items, i)
             new == Told("running", its, s + 2)
         IN  /\ q \o more \in Seq(EventRecords)
             /\ new \in Tellings /\ Brings(q \o more, v, new)
             /\ its \in Seq(ItemStates) /\ Len(its) = Len(w.items)
             /\ its[i + 1].part = "done" /\ its[i + 1].kind = w.items[i + 1].kind
             /\ \A j \in Places(w.items) : j # i => its[j + 1] = w.items[j + 1]
<1> DEFINE n == w.number
           one == WithPart(w.items, i, "closed")
           two == WithPart(one, i, "done")
           e1 == Reader!Event("done", i, n + 1)
           e2 == Reader!Event("part.done", i, n + 2)
           e3 == Reader!Event("item.done", i, n + 3)
           w1 == Told("running", w.items, n + 1)
           w2 == Told("running", one, n + 2)
           w3 == Told("running", two, n + 3)
           more == Numbered(PartDone, i, s)
<1>1. w \in Tellings /\ n \in Int /\ w.items \in Seq(ItemStates) /\ i \in Int
  <2>1. w \in Tellings
    BY BringsTypes
  <2> QED
    BY <2>1 DEF Tellings, Places
<1>2. /\ one \in Seq(ItemStates) /\ Len(one) = Len(w.items) /\ one[i + 1].part = "closed"
      /\ one[i + 1].kind = w.items[i + 1].kind
      /\ \A j \in Places(w.items) : j # i => one[j + 1] = w.items[j + 1]
  BY <1>1, PartsChange
<1> HIDE DEF one
<1>3. Places(one) = Places(w.items)
  BY <1>2 DEF Places
<1>4. /\ two \in Seq(ItemStates) /\ Len(two) = Len(one) /\ two[i + 1].part = "done"
      /\ two[i + 1].kind = one[i + 1].kind
      /\ \A j \in Places(one) : j # i => two[j + 1] = one[j + 1]
  BY <1>2, <1>3, PartsChange
<1> HIDE DEF two
<1>5. {e1, e2, e3} \subseteq EventRecords /\ {w1, w2, w3} \subseteq Tellings
  BY <1>1, <1>2, <1>4 DEF EventRecords, Types, Reader!Event, Told, Tellings
<1>6. Tells(w, e1, w1)
  BY <1>1 DEF Tells, TellsOf, Reader!Event, Told
<1>7. Tells(w1, e2, w2)
  BY <1>1 DEF Tells, TellsOf, Reader!Event, Told, one
<1>8. Tells(w2, e3, w3)
  BY <1>1, <1>2, <1>3 DEF Tells, TellsOf, Reader!Event, Told, two
<1>9. more = (<<e1>> \o <<e2>>) \o <<e3>>
  BY <1>1, SMTT(30) DEF PartDone, Numbered
<1>14. w3 = Told("running", DonePart(w.items, i), s + 2)
  BY <1>1 DEF DonePart, one, two
<1>15. two = DonePart(w.items, i)
  BY DEF DonePart, one, two
<1> HIDE DEF e1, e2, e3, w1, w2, w3, more, n
<1>10. q \o <<e1>> \in Seq(EventRecords) /\ Brings(q \o <<e1>>, v, w1)
  BY <1>5, <1>6, BringsMore
<1>11. (q \o <<e1>>) \o <<e2>> \in Seq(EventRecords) /\ Brings((q \o <<e1>>) \o <<e2>>, v, w2)
  BY <1>5, <1>7, <1>10, BringsMore
<1>12. /\ ((q \o <<e1>>) \o <<e2>>) \o <<e3>> \in Seq(EventRecords)
       /\ Brings(((q \o <<e1>>) \o <<e2>>) \o <<e3>>, v, w3)
  BY <1>5, <1>8, <1>11, BringsMore
<1>13. ((q \o <<e1>>) \o <<e2>>) \o <<e3>> = q \o more
  <2>1. {<<e1>>, <<e2>>, <<e3>>} \subseteq Seq(EventRecords)
    BY <1>5
  <2> QED
    BY <1>9, <2>1
<1> QED
  BY <1>2, <1>3, <1>4, <1>5, <1>12, <1>13, <1>14, <1>15 DEF more

(* The output grows by an item that is no call, if at all. *)
NoCallMore(q, r) == r = q \/ \E e \in ItemRecords : e.of = {} /\ r = Append(q, e)

(* close_reasoning.                                                        *)
LEMMA ReasoningCloses ==
  ASSUME NEW st, NEW v, Sound(st, v)
  PROVE  LET new == CloseReasoning(st)
         IN  /\ Sound(new, v) /\ new.reasoning = NoItem /\ new.next_oi = st.next_oi
             /\ new.text = st.text /\ new.kind = st.kind /\ new.tools = st.tools
             /\ new.tool_order = st.tool_order /\ NoCallMore(st.output, new.output)
<1>1. CASE st.reasoning = NoItem
  BY <1>1 DEF CloseReasoning, NoCallMore
<1>2. CASE st.reasoning # NoItem
  <2> DEFINE i == st.reasoning
             e == [Entry(i) EXCEPT !.args = "thought"]
             out == st.out \o Numbered(PartDone, i, st.seq)
             output == Append(st.output, e)
             new == [st EXCEPT !.seq = st.seq + 3, !.out = out, !.reasoning = NoItem, !.output = output]
  <2>1. st \in RespStates
    BY DEF Sound
  <2>2. PICK w : Agrees(st, w) /\ Brings(st.out, v, w)
    BY DEF Sound
  <2>3. CloseReasoning(st) = new
    <3>1. Len(PartDone) = 3
      BY DEF PartDone
    <3> QED
      BY <1>2, <2>1, <3>1 DEF CloseReasoning, Built, Numbered, RespStates
  <2>4. e \in ItemRecords /\ e.oi = i /\ e.args = "thought" /\ e.of = {}
    BY <1>2, <2>1 DEF Entry, NoTool, RespStates, ItemRecords, ItemArgs, NoName
  <2>5. /\ w \in Tellings /\ w.phase = "running" /\ w.items \in Seq(ItemStates) /\ i \in Places(w.items)
        /\ w.items[i + 1] = [kind |-> "reasoning", part |-> "open"]
        /\ w.number = st.seq - 1 /\ st.seq = w.number + 1
        /\ st.seq \in Nat /\ st.out \in Seq(EventRecords) /\ st.output \in Seq(ItemRecords)
        /\ OutputAgrees(st.output, w.items) /\ Len(w.items) = st.next_oi
        /\ st.text = NoItem /\ \A c \in Calls : ~HasTool(st, c)
    BY <1>2, <2>1, <2>2 DEF Agrees, PartsAgree, OneAtATimeIn, RespStates, Tellings
  <2> DEFINE its == DonePart(w.items, i)
             z == Told("running", its, st.seq + 2)
  <2> HIDE DEF i
  <2>6. /\ out \in Seq(EventRecords) /\ z \in Tellings /\ Brings(out, v, z)
        /\ its \in Seq(ItemStates) /\ Len(its) = Len(w.items)
        /\ its[i + 1].part = "done" /\ its[i + 1].kind = w.items[i + 1].kind
        /\ \A j \in Places(w.items) : j # i => its[j + 1] = w.items[j + 1]
    <3>1. w.items[i + 1].kind # "call" /\ w.items[i + 1].part = "open"
      BY <2>5
    <3> QED
      BY <2>2, <2>5, <3>1, PartEnds, SMTT(30)
  <2> HIDE DEF its, out, e
  <2>7. output \in Seq(ItemRecords) /\ OutputAgrees(output, its)
    <3>1. w.items[i + 1].part # "done" /\ (e.args = "thought" <=> w.items[i + 1].kind = "reasoning")
      BY <2>4, <2>5
    <3> QED
      BY <2>4, <2>5, <2>6, <3>1, OutputOneMore
  <2>8. /\ new \in RespStates /\ new.seq = st.seq + 3 /\ new.out = out
        /\ new.reasoning = NoItem /\ new.output = output
        /\ new.next_oi = st.next_oi /\ new.text = st.text /\ new.kind = st.kind
        /\ new.tools = st.tools /\ new.tool_order = st.tool_order
    <3> HIDE DEF output
    <3>1. st.seq + 3 \in Nat
      BY <2>5
    <3> QED
      BY <2>1, <2>6, <2>7, <3>1 DEF RespStates
  <2> HIDE DEF new
  <2>9. Agrees(new, z)
    <3>1. z.phase = "running" /\ z.items = its /\ z.number = st.seq + 2
      BY DEF Told
    <3> HIDE DEF z
    <3>2. Places(its) = Places(w.items)
      BY <2>6 DEF Places
    <3>3. \A c \in Calls : ~HasTool(new, c)
      BY <2>5, <2>8 DEF HasTool
    <3>4. PartsAgree(new, its)
      <4>1. ASSUME NEW j \in Places(its), its[j + 1].part # "done"
            PROVE  FALSE
        <5>1. j # i /\ its[j + 1] = w.items[j + 1]
          BY <2>6, <3>2, <4>1
        <5>2. j = st.reasoning \/ j = st.text \/ \E c \in Calls : HasTool(st, c) /\ st.tools[c].oi = j
          <6>1. PartsAgree(st, w.items)
            BY <2>2 DEF Agrees
          <6> QED
            BY <3>2, <4>1, <5>1, <6>1 DEF PartsAgree
        <5>3. j # NoItem
          BY <4>1 DEF Places, NoItem
        <5> QED
          BY <2>5, <5>1, <5>2, <5>3 DEF i
      <4> QED
        BY <2>5, <2>8, <4>1 DEF PartsAgree
    <3>5. ToolsAgree(new, its) /\ OneAtATimeIn(new)
      BY <2>5, <2>8, <3>3 DEF ToolsAgree, OneAtATimeIn
    <3>6. z.number = new.seq - 1 /\ Len(z.items) = new.next_oi
      BY <2>5, <2>6, <2>8, <3>1
    <3> QED
      BY <2>6, <2>7, <2>8, <3>1, <3>4, <3>5, <3>6 DEF Agrees
  <2> QED
    BY <2>3, <2>4, <2>6, <2>8, <2>9 DEF Sound, NoCallMore, output
<1> QED
  BY <1>1, <1>2

(* close_text.                                                             *)
LEMMA TextCloses ==
  ASSUME NEW st, NEW v, Sound(st, v)
  PROVE  LET new == CloseText(st)
         IN  /\ Sound(new, v) /\ new.text = NoItem /\ new.next_oi = st.next_oi
             /\ new.reasoning = st.reasoning /\ new.kind = st.kind /\ new.tools = st.tools
             /\ new.tool_order = st.tool_order /\ NoCallMore(st.output, new.output)
<1>1. CASE st.text = NoItem
  BY <1>1 DEF CloseText, NoCallMore
<1>2. CASE st.text # NoItem
  <2> DEFINE i == st.text
             e == Entry(i)
             out == st.out \o Numbered(PartDone, i, st.seq)
             output == Append(st.output, e)
             new == [st EXCEPT !.seq = st.seq + 3, !.out = out, !.text = NoItem, !.output = output]
  <2>1. st \in RespStates
    BY DEF Sound
  <2>2. PICK w : Agrees(st, w) /\ Brings(st.out, v, w)
    BY DEF Sound
  <2>3. CloseText(st) = new
    <3>1. Len(PartDone) = 3
      BY DEF PartDone
    <3> QED
      BY <1>2, <2>1, <3>1 DEF CloseText, Built, Numbered, RespStates
  <2>4. e \in ItemRecords /\ e.oi = i /\ e.args = "none" /\ e.of = {}
    BY <1>2, <2>1 DEF Entry, NoTool, RespStates, ItemRecords, ItemArgs, NoName
  <2>5. /\ w \in Tellings /\ w.phase = "running" /\ w.items \in Seq(ItemStates) /\ i \in Places(w.items)
        /\ w.items[i + 1] = [kind |-> "message", part |-> "open"]
        /\ w.number = st.seq - 1 /\ st.seq = w.number + 1
        /\ st.seq \in Nat /\ st.out \in Seq(EventRecords) /\ st.output \in Seq(ItemRecords)
        /\ OutputAgrees(st.output, w.items) /\ Len(w.items) = st.next_oi
        /\ st.reasoning = NoItem /\ \A c \in Calls : ~HasTool(st, c)
    BY <1>2, <2>1, <2>2 DEF Agrees, PartsAgree, OneAtATimeIn, RespStates, Tellings
  <2> DEFINE its == DonePart(w.items, i)
             z == Told("running", its, st.seq + 2)
  <2> HIDE DEF i
  <2>6. /\ out \in Seq(EventRecords) /\ z \in Tellings /\ Brings(out, v, z)
        /\ its \in Seq(ItemStates) /\ Len(its) = Len(w.items)
        /\ its[i + 1].part = "done" /\ its[i + 1].kind = w.items[i + 1].kind
        /\ \A j \in Places(w.items) : j # i => its[j + 1] = w.items[j + 1]
    <3>1. w.items[i + 1].kind # "call" /\ w.items[i + 1].part = "open"
      BY <2>5
    <3> QED
      BY <2>2, <2>5, <3>1, PartEnds, SMTT(30)
  <2> HIDE DEF its, out, e
  <2>7. output \in Seq(ItemRecords) /\ OutputAgrees(output, its)
    <3>1. w.items[i + 1].part # "done" /\ (e.args = "thought" <=> w.items[i + 1].kind = "reasoning")
      BY <2>4, <2>5
    <3> QED
      BY <2>4, <2>5, <2>6, <3>1, OutputOneMore
  <2>8. /\ new \in RespStates /\ new.seq = st.seq + 3 /\ new.out = out
        /\ new.text = NoItem /\ new.output = output
        /\ new.next_oi = st.next_oi /\ new.reasoning = st.reasoning /\ new.kind = st.kind
        /\ new.tools = st.tools /\ new.tool_order = st.tool_order
    <3> HIDE DEF output
    <3>1. st.seq + 3 \in Nat
      BY <2>5
    <3> QED
      BY <2>1, <2>6, <2>7, <3>1 DEF RespStates
  <2> HIDE DEF new
  <2>9. Agrees(new, z)
    <3>1. z.phase = "running" /\ z.items = its /\ z.number = st.seq + 2
      BY DEF Told
    <3> HIDE DEF z
    <3>2. Places(its) = Places(w.items)
      BY <2>6 DEF Places
    <3>3. \A c \in Calls : ~HasTool(new, c)
      BY <2>5, <2>8 DEF HasTool
    <3>4. PartsAgree(new, its)
      <4>1. ASSUME NEW j \in Places(its), its[j + 1].part # "done"
            PROVE  FALSE
        <5>1. j # i /\ its[j + 1] = w.items[j + 1]
          BY <2>6, <3>2, <4>1
        <5>2. j = st.reasoning \/ j = st.text \/ \E c \in Calls : HasTool(st, c) /\ st.tools[c].oi = j
          <6>1. PartsAgree(st, w.items)
            BY <2>2 DEF Agrees
          <6> QED
            BY <3>2, <4>1, <5>1, <6>1 DEF PartsAgree
        <5>3. j # NoItem
          BY <4>1 DEF Places, NoItem
        <5> QED
          BY <2>5, <5>1, <5>2, <5>3 DEF i
      <4> QED
        BY <2>5, <2>8, <4>1 DEF PartsAgree
    <3>5. ToolsAgree(new, its) /\ OneAtATimeIn(new)
      BY <2>5, <2>8, <3>3 DEF ToolsAgree, OneAtATimeIn
    <3>6. z.number = new.seq - 1 /\ Len(z.items) = new.next_oi
      BY <2>5, <2>6, <2>8, <3>1
    <3> QED
      BY <2>6, <2>7, <2>8, <3>1, <3>4, <3>5, <3>6 DEF Agrees
  <2> QED
    BY <2>3, <2>4, <2>6, <2>8, <2>9 DEF Sound, NoCallMore, output
<1> QED
  BY <1>1, <1>2

(* The last events of a call. *)
LEMMA CallEnds ==
  ASSUME NEW q \in Seq(EventRecords), NEW v, NEW w, Brings(q, v, w), w.phase = "running",
         NEW i \in Places(w.items), w.items[i + 1] = [kind |-> "call", part |-> "none"],
         NEW s, s = w.number + 1
  PROVE  LET more == Numbered(ToolDone, i, s)
             its == WithPart(w.items, i, "done")
             new == Told("running", its, s + 1)
         IN  /\ q \o more \in Seq(EventRecords)
             /\ new \in Tellings /\ Brings(q \o more, v, new)
             /\ its \in Seq(ItemStates) /\ Len(its) = Len(w.items)
             /\ its[i + 1].part = "done" /\ its[i + 1].kind = "call"
             /\ \A j \in Places(w.items) : j # i => its[j + 1] = w.items[j + 1]
<1> DEFINE n == w.number
           its == WithPart(w.items, i, "done")
           e1 == Reader!Event("done", i, n + 1)
           e2 == Reader!Event("item.done", i, n + 2)
           w1 == Told("running", w.items, n + 1)
           w2 == Told("running", its, n + 2)
           more == Numbered(ToolDone, i, s)
<1>1. w \in Tellings /\ n \in Int /\ w.items \in Seq(ItemStates) /\ i \in Int
  <2>1. w \in Tellings
    BY BringsTypes
  <2> QED
    BY <2>1 DEF Tellings, Places
<1>2. /\ its \in Seq(ItemStates) /\ Len(its) = Len(w.items) /\ its[i + 1].part = "done"
      /\ its[i + 1].kind = w.items[i + 1].kind
      /\ \A j \in Places(w.items) : j # i => its[j + 1] = w.items[j + 1]
  <2> DEFINE y == w.items
  <2>1. y \in Seq(ItemStates) /\ i \in Places(y)
    BY <1>1
  <2> HIDE DEF y
  <2>2. LET new == WithPart(y, i, "done")
        IN  /\ new \in Seq(ItemStates) /\ Len(new) = Len(y) /\ new[i + 1].part = "done"
            /\ new[i + 1].kind = y[i + 1].kind
            /\ \A j \in Places(y) : j # i => new[j + 1] = y[j + 1]
    BY <2>1, PartsChange
  <2> QED
    BY <2>2 DEF y
<1> HIDE DEF its
<1>5. {e1, e2} \subseteq EventRecords /\ {w1, w2} \subseteq Tellings
  BY <1>1, <1>2 DEF EventRecords, Types, Reader!Event, Told, Tellings
<1>6. Tells(w, e1, w1)
  BY <1>1 DEF Tells, TellsOf, Reader!Event, Told
<1>7. Tells(w1, e2, w2)
  BY <1>1 DEF Tells, TellsOf, Reader!Event, Told, its
<1>9. more = <<e1>> \o <<e2>>
  BY <1>1 DEF ToolDone, Numbered
<1>14. w2 = Told("running", its, s + 1)
  BY <1>1
<1> HIDE DEF e1, e2, w1, w2, more, n
<1>10. q \o <<e1>> \in Seq(EventRecords) /\ Brings(q \o <<e1>>, v, w1)
  BY <1>5, <1>6, BringsMore
<1>11. (q \o <<e1>>) \o <<e2>> \in Seq(EventRecords) /\ Brings((q \o <<e1>>) \o <<e2>>, v, w2)
  BY <1>5, <1>7, <1>10, BringsMore
<1>13. (q \o <<e1>>) \o <<e2>> = q \o more
  <2>1. {<<e1>>, <<e2>>} \subseteq Seq(EventRecords)
    BY <1>5
  <2> QED
    BY <1>9, <2>1
<1>15. its[i + 1].kind = "call"
  BY <1>2
<1>16. /\ q \o more \in Seq(EventRecords) /\ Brings(q \o more, v, Told("running", its, s + 1))
       /\ Told("running", its, s + 1) \in Tellings
  BY <1>5, <1>11, <1>13, <1>14
<1> QED
  BY <1>2, <1>15, <1>16 DEF more, its

(* close_tool of an index whose item is open.                              *)
LEMMA ToolCloses ==
  ASSUME NEW st, NEW v, Sound(st, v), NEW c \in Calls, HasTool(st, c)
  PROVE  LET new == CloseTool(st, c)
         IN  /\ Sound(new, v) /\ new.next_oi = st.next_oi
             /\ new.reasoning = st.reasoning /\ new.text = st.text /\ new.kind = st.kind
             /\ new.tool_order = st.tool_order
             /\ new.tools = [st.tools EXCEPT ![c] = NoTool]
             /\ new.output = Append(st.output, st.tools[c])
             /\ new.seq = st.seq + 2 /\ new.out = st.out \o Numbered(ToolDone, st.tools[c].oi, st.seq)
<1> DEFINE i == st.tools[c].oi
           out == st.out \o Numbered(ToolDone, i, st.seq)
           output == Append(st.output, st.tools[c])
           tools == [st.tools EXCEPT ![c] = NoTool]
           new == [st EXCEPT !.seq = st.seq + 2, !.out = out, !.tools = tools, !.output = output]
<1>1. st \in RespStates
  BY DEF Sound
<1>2. PICK w : Agrees(st, w) /\ Brings(st.out, v, w)
  BY DEF Sound
<1>3. CloseTool(st, c) = new
  <2>1. Len(ToolDone) = 2
    BY DEF ToolDone
  <2> QED
    BY <1>1, <2>1 DEF CloseTool, Built, Numbered, RespStates, HasTool
<1>4. /\ w \in Tellings /\ w.phase = "running" /\ w.items \in Seq(ItemStates) /\ i \in Places(w.items)
      /\ w.items[i + 1] = [kind |-> "call", part |-> "none"]
      /\ w.number = st.seq - 1 /\ st.seq = w.number + 1
      /\ st.seq \in Nat /\ st.out \in Seq(EventRecords) /\ st.output \in Seq(ItemRecords)
      /\ st.tools \in [Calls -> ItemRecords] /\ st.tools[c] \in ItemRecords
      /\ OutputAgrees(st.output, w.items) /\ Len(w.items) = st.next_oi
      /\ st.reasoning = NoItem /\ st.text = NoItem /\ st.tools[c].args # "thought"
      /\ ToolsAgree(st, w.items) /\ PartsAgree(st, w.items)
  <2>1. /\ w \in Tellings /\ w.phase = "running" /\ w.number = st.seq - 1 /\ Len(w.items) = st.next_oi
        /\ OneAtATimeIn(st) /\ ToolsAgree(st, w.items) /\ PartsAgree(st, w.items)
        /\ OutputAgrees(st.output, w.items)
    BY <1>2 DEF Agrees
  <2>2. /\ st.seq \in Nat /\ st.out \in Seq(EventRecords) /\ st.output \in Seq(ItemRecords)
        /\ st.tools \in [Calls -> ItemRecords] /\ w.items \in Seq(ItemStates)
    BY <1>1, <2>1 DEF RespStates, Tellings
  <2>3. st.reasoning = NoItem /\ st.text = NoItem
    BY <2>1 DEF OneAtATimeIn
  <2>4. /\ i \in Places(w.items) /\ w.items[i + 1] = [kind |-> "call", part |-> "none"]
        /\ st.tools[c].args # "thought"
    BY <2>1 DEF ToolsAgree
  <2>5. w.number = st.seq - 1 /\ st.seq = w.number + 1
    BY <2>1, <2>2
  <2> QED
    BY <2>1, <2>2, <2>3, <2>4, <2>5
<1> DEFINE its == WithPart(w.items, i, "done")
           z == Told("running", its, st.seq + 1)
<1> HIDE DEF i
<1>5. /\ out \in Seq(EventRecords) /\ z \in Tellings /\ Brings(out, v, z)
      /\ its \in Seq(ItemStates) /\ Len(its) = Len(w.items)
      /\ its[i + 1].part = "done" /\ its[i + 1].kind = w.items[i + 1].kind
      /\ \A j \in Places(w.items) : j # i => its[j + 1] = w.items[j + 1]
  BY <1>2, <1>4, CallEnds
<1> HIDE DEF its, out
<1>6. output \in Seq(ItemRecords) /\ OutputAgrees(output, its)
  <2>1. /\ w.items[i + 1].part # "done" /\ st.tools[c].oi = i
        /\ (st.tools[c].args = "thought" <=> w.items[i + 1].kind = "reasoning")
    BY <1>4 DEF i
  <2> QED
    BY <1>4, <1>5, <2>1, OutputOneMore
<1>7. tools \in [Calls -> ItemRecords] /\ tools[c] = NoTool /\ \A d \in Calls : d # c => tools[d] = st.tools[d]
  <2>1. NoTool \in ItemRecords
    BY DEF NoTool, ItemRecords, ItemArgs, NoName
  <2> QED
    BY <1>4, <2>1
<1>8. /\ new \in RespStates /\ new.seq = st.seq + 2 /\ new.out = out
      /\ new.reasoning = st.reasoning /\ new.output = output
      /\ new.next_oi = st.next_oi /\ new.text = st.text /\ new.kind = st.kind
      /\ new.tools = tools /\ new.tool_order = st.tool_order
  <2> HIDE DEF output, tools
  <2>1. st.seq + 2 \in Nat
    BY <1>4
  <2> QED
    BY <1>1, <1>5, <1>6, <1>7, <2>1 DEF RespStates
<1> HIDE DEF new, output, tools
<1>9. Agrees(new, z)
  <2>1. z.phase = "running" /\ z.items = its /\ z.number = st.seq + 1
    BY DEF Told
  <2> HIDE DEF z
  <2>2. Places(its) = Places(w.items)
    BY <1>5 DEF Places
  <2>3. /\ ~HasTool(new, c)
        /\ \A d \in Calls : d # c => new.tools[d] = st.tools[d] /\ (HasTool(new, d) <=> HasTool(st, d))
    BY <1>7, <1>8 DEF HasTool
  <2>4. \A d \in Calls : HasTool(new, d) => st.tools[d].oi # i
    BY <1>4, <2>3 DEF ToolsAgree, i
  <2>5. ToolsAgree(new, its)
    <3>1. ASSUME NEW d \in Calls, HasTool(new, d)
          PROVE  /\ new.tools[d].oi \in Places(its)
                 /\ its[new.tools[d].oi + 1] = [kind |-> "call", part |-> "none"]
                 /\ new.tools[d].args # "thought"
                 /\ \E k \in DOMAIN new.tool_order : new.tool_order[k] = d
      <4>1. d # c /\ new.tools[d] = st.tools[d] /\ HasTool(st, d) /\ st.tools[d].oi # i
        BY <2>3, <2>4, <3>1
      <4> QED
        BY <1>4, <1>5, <1>8, <2>2, <4>1 DEF ToolsAgree
    <3>2. ASSUME NEW d \in Calls, NEW e \in Calls, HasTool(new, d), HasTool(new, e),
                 new.tools[d].oi = new.tools[e].oi
          PROVE  d = e
      BY <1>4, <2>3, <3>2 DEF ToolsAgree
    <3> QED
      BY <3>1, <3>2 DEF ToolsAgree
  <2>6. PartsAgree(new, its)
    <3>1. ASSUME NEW j \in Places(its), its[j + 1].part # "done"
          PROVE  \E d \in Calls : HasTool(new, d) /\ new.tools[d].oi = j
      <4> HIDE DEF its, i
      <4>1. j # i /\ its[j + 1] = w.items[j + 1] /\ j # NoItem
        <5>1. j \in Places(w.items) /\ j # i
          BY <1>5, <2>2, <3>1
        <5>2. j # NoItem
          BY <3>1 DEF Places, NoItem
        <5> QED
          BY <1>5, <5>1, <5>2
      <4>2. PICK d \in Calls : HasTool(st, d) /\ st.tools[d].oi = j
        BY <1>4, <2>2, <3>1, <4>1 DEF PartsAgree
      <4>3. d # c
        BY <4>1, <4>2 DEF i
      <4> QED
        BY <2>3, <4>2, <4>3
    <3> QED
      BY <1>4, <1>8, <3>1 DEF PartsAgree
  <2>7. OneAtATimeIn(new)
    BY <1>4, <1>8 DEF OneAtATimeIn
  <2>8. z.number = new.seq - 1 /\ Len(z.items) = new.next_oi
    BY <1>4, <1>5, <1>8, <2>1
  <2> QED
    BY <1>5, <1>6, <1>8, <2>1, <2>5, <2>6, <2>7, <2>8 DEF Agrees
<1> QED
  BY <1>3, <1>5, <1>8, <1>9 DEF Sound, output, tools, out, i

(* The first n of the open tools closed, one after the other.              *)
CallEvents(st, q, n) ==
  [k \in 1..(2 * n) |-> Reader!Event(ToolDone[IF k % 2 = 1 THEN 1 ELSE 2],
                                     st.tools[q[(k + 1) \div 2]].oi, st.seq + k - 1)]
CallItems(st, q, n) == [m \in 1..n |-> st.tools[q[m]]]
ToolsLeft(st, q, n) == [i \in Calls |-> IF \E m \in 1..n : q[m] = i THEN NoTool ELSE st.tools[i]]

(* The state in which the first n of them are closed.                      *)
ClosedSo(st, q, n, new) ==
  /\ new.seq = st.seq + 2 * n /\ new.next_oi = st.next_oi
  /\ new.reasoning = st.reasoning /\ new.text = st.text /\ new.kind = st.kind
  /\ new.tool_order = st.tool_order
  /\ new.out = st.out \o CallEvents(st, q, n)
  /\ new.output = st.output \o CallItems(st, q, n)
  /\ new.tools = ToolsLeft(st, q, n)

(* The next one is closed as close_tool would do it.                       *)
LEMMA OneMoreCloses ==
  ASSUME NEW st \in RespStates, NEW q \in Seq(Calls), NEW n \in Nat, n + 1 \in DOMAIN q,
         st.tools[q[n + 1]].oi \in Nat
  PROVE  /\ CallEvents(st, q, n + 1) =
              CallEvents(st, q, n) \o Numbered(ToolDone, st.tools[q[n + 1]].oi, st.seq + 2 * n)
         /\ CallEvents(st, q, n) \in Seq(EventRecords)
         /\ Numbered(ToolDone, st.tools[q[n + 1]].oi, st.seq + 2 * n) \in Seq(EventRecords)
         /\ CallItems(st, q, n + 1) = Append(CallItems(st, q, n), st.tools[q[n + 1]])
         /\ CallItems(st, q, n) \in Seq(ItemRecords)
         /\ ToolsLeft(st, q, n + 1) = [ToolsLeft(st, q, n) EXCEPT ![q[n + 1]] = NoTool]
<1> DEFINE a == CallEvents(st, q, n)
           b == Numbered(ToolDone, st.tools[q[n + 1]].oi, st.seq + 2 * n)
           c == CallEvents(st, q, n + 1)
           tool(m) == st.tools[q[m]]
<1>1. /\ q[n + 1] \in Calls /\ st.seq \in Nat /\ st.tools \in [Calls -> ItemRecords]
      /\ Len(q) \in Nat /\ DOMAIN q = 1..Len(q) /\ n + 1 <= Len(q)
  BY DEF RespStates
<1>2. DOMAIN a = 1..(2 * n) /\ DOMAIN c = 1..(2 * n + 2) /\ DOMAIN b = 1..2
  <2>1. 2 * (n + 1) = 2 * n + 2
    OBVIOUS
  <2> QED
    BY <2>1 DEF CallEvents, Numbered, ToolDone
<1>3. a \in Seq(EventRecords)
  <2>1. ASSUME NEW k \in 1..(2 * n)
        PROVE  a[k] \in EventRecords
    <3>1. (k + 1) \div 2 \in 1..n
      OBVIOUS
    <3>2. q[(k + 1) \div 2] \in Calls
      <4>1. (k + 1) \div 2 \in 1..Len(q)
        BY <1>1, <3>1
      <4> QED
        BY <1>1, <4>1
    <3>3. tool((k + 1) \div 2).oi \in Int
      BY <1>1, <3>2 DEF ItemRecords, NoItem
    <3>4. ToolDone[IF k % 2 = 1 THEN 1 ELSE 2] \in Types
      BY DEF ToolDone, Types
    <3>5. st.seq + k - 1 \in Int
      BY <1>1
    <3> HIDE DEF tool
    <3>6. Reader!Event(ToolDone[IF k % 2 = 1 THEN 1 ELSE 2], tool((k + 1) \div 2).oi, st.seq + k - 1)
            \in EventRecords
      BY <3>3, <3>4, <3>5 DEF Reader!Event, EventRecords
    <3> QED
      BY <3>6 DEF CallEvents, tool
  <2>2. 2 * n \in Nat
    OBVIOUS
  <2> QED
    BY <1>2, <2>1, <2>2 DEF CallEvents
<1>4. b \in Seq(EventRecords) /\ Len(b) = 2
  BY <1>1 DEF Numbered, ToolDone, Reader!Event, EventRecords, Types
<1>5. c = a \o b
  <2> HIDE DEF a, b, c
  <2>1. Len(a) = 2 * n
    BY <1>2, <1>3
  <2>2. a \o b \in Seq(EventRecords) /\ DOMAIN (a \o b) = 1..(2 * n + 2)
    <3>1. a \o b \in Seq(EventRecords) /\ Len(a \o b) = Len(a) + Len(b)
      BY <1>3, <1>4, ConcatProperties
    <3>2. Len(a) + Len(b) = 2 * n + 2
      BY <1>4, <2>1
    <3> QED
      BY <3>1, <3>2
  <2>3. \A k \in 1..(2 * n) : c[k] = (a \o b)[k]
    <3> TAKE k \in 1..(2 * n)
    <3>1. (a \o b)[k] = a[k]
      BY <1>3, <1>4, <2>1
    <3>2. k \in 1..(2 * (n + 1))
      OBVIOUS
    <3>3. c[k] = a[k]
      BY <3>2 DEF a, c, CallEvents
    <3> QED
      BY <3>1, <3>3
  <2>4. c[2 * n + 1] = b[1] /\ c[2 * n + 2] = b[2]
    <3>1. /\ 2 * n + 1 \in 1..(2 * (n + 1)) /\ 2 * n + 2 \in 1..(2 * (n + 1))
          /\ (2 * n + 1) % 2 = 1 /\ (2 * n + 2) % 2 = 0
          /\ ((2 * n + 1) + 1) \div 2 = n + 1 /\ ((2 * n + 2) + 1) \div 2 = n + 1
      OBVIOUS
    <3>2. /\ c[2 * n + 1] = Reader!Event("done", tool(n + 1).oi, st.seq + (2 * n + 1) - 1)
          /\ c[2 * n + 2] = Reader!Event("item.done", tool(n + 1).oi, st.seq + (2 * n + 2) - 1)
      BY <3>1 DEF c, CallEvents, ToolDone
    <3>3. /\ b[1] = Reader!Event("done", tool(n + 1).oi, (st.seq + 2 * n) + 1 - 1)
          /\ b[2] = Reader!Event("item.done", tool(n + 1).oi, (st.seq + 2 * n) + 2 - 1)
      BY DEF b, Numbered, ToolDone
    <3>4. /\ st.seq + (2 * n + 1) - 1 = (st.seq + 2 * n) + 1 - 1
          /\ st.seq + (2 * n + 2) - 1 = (st.seq + 2 * n) + 2 - 1
      BY <1>1
    <3> QED
      BY <3>2, <3>3, <3>4
  <2>5. (a \o b)[2 * n + 1] = b[1] /\ (a \o b)[2 * n + 2] = b[2]
    <3>1. /\ 2 * n + 1 \in 1..(Len(a) + Len(b)) /\ ~(2 * n + 1 <= Len(a)) /\ (2 * n + 1) - Len(a) = 1
          /\ 2 * n + 2 \in 1..(Len(a) + Len(b)) /\ ~(2 * n + 2 <= Len(a)) /\ (2 * n + 2) - Len(a) = 2
      BY <1>4, <2>1
    <3>2. \A i \in 1..(Len(a) + Len(b)) : (a \o b)[i] = IF i <= Len(a) THEN a[i] ELSE b[i - Len(a)]
      BY <1>3, <1>4, ConcatProperties
    <3> QED
      BY <3>1, <3>2
  <2>6. \A k \in 1..(2 * n + 2) : c[k] = (a \o b)[k]
    <3>1. \A k \in 1..(2 * n + 2) : k \in 1..(2 * n) \/ k = 2 * n + 1 \/ k = 2 * n + 2
      OBVIOUS
    <3> QED
      BY <2>3, <2>4, <2>5, <3>1
  <2>7. c = [k \in DOMAIN c |-> c[k]]
    BY DEF c, CallEvents
  <2> DEFINE d == a \o b
  <2>8. d = [k \in DOMAIN d |-> d[k]]
    <3>1. d \in Seq(EventRecords)
      BY <2>2
    <3> HIDE DEF d
    <3> QED
      BY <3>1
  <2> QED
    BY <1>2, <2>2, <2>6, <2>7, <2>8
<1>6. /\ CallItems(st, q, n + 1) = Append(CallItems(st, q, n), st.tools[q[n + 1]])
      /\ CallItems(st, q, n) \in Seq(ItemRecords)
  <2> DEFINE s == CallItems(st, q, n)
             r == CallItems(st, q, n + 1)
             e == tool(n + 1)
  <2>1. \A m \in 1..(n + 1) : tool(m) \in ItemRecords
    BY <1>1
  <2>2. s = [m \in 1..n |-> tool(m)] /\ r = [m \in 1..(n + 1) |-> tool(m)]
    BY DEF CallItems
  <2> HIDE DEF s, r, tool
  <2>3. s \in Seq(ItemRecords) /\ Len(s) = n
    BY <2>1, <2>2
  <2> QED
    BY <2>1, <2>2, <2>3 DEF s, r, tool
<1>7. ToolsLeft(st, q, n + 1) = [ToolsLeft(st, q, n) EXCEPT ![q[n + 1]] = NoTool]
  <2>1. \A i \in Calls : (\E m \in 1..(n + 1) : q[m] = i) <=> (i = q[n + 1] \/ \E m \in 1..n : q[m] = i)
    BY <1>1
  <2> QED
    BY <1>1, <2>1 DEF ToolsLeft
<1> QED
  BY <1>3, <1>4, <1>5, <1>6, <1>7

(* The first m of them can be closed.                                      *)
Closes(st, q, v, m) == \E r : Sound(r, v) /\ ClosedSo(st, q, m, r)

(* All of them are closed: what close_all_tools leaves.                    *)
LEMMA AllToolsClose ==
  ASSUME NEW st, NEW v, Sound(st, v)
  PROVE  LET new == CloseAllTools(st)
             q == OpenTools(st)
         IN  /\ Sound(new, v) /\ new.next_oi = st.next_oi
             /\ new.reasoning = st.reasoning /\ new.text = st.text /\ new.kind = st.kind
             /\ new.tools = [c \in Calls |-> NoTool]
             /\ q \in Seq(Calls) /\ new.output = st.output \o CallItems(st, q, Len(q))
             /\ \A c \in Calls : HasTool(st, c) <=> \E k \in DOMAIN q : q[k] = c
<1> DEFINE new == CloseAllTools(st)
           q == OpenTools(st)
           n == Len(q)
<1>1. st \in RespStates /\ st.tool_order \in Seq(Calls) /\ st.tools \in [Calls -> ItemRecords]
  BY DEF Sound, RespStates
<1>2. PICK w : Agrees(st, w) /\ Brings(st.out, v, w)
  BY DEF Sound
<1>3. ToolsAgree(st, w.items)
  BY <1>2 DEF Agrees
<1>4. /\ q \in Seq(Calls)
      /\ \A i, j \in DOMAIN q : q[i] = q[j] => i = j
      /\ \A c \in Calls : (\E j \in DOMAIN q : q[j] = c) <=>
           /\ st.tools[c] # NoTool
           /\ \E k \in DOMAIN st.tool_order : st.tool_order[k] = c
  BY <1>1, OpenToolsOnce
<1>5. \A c \in Calls : HasTool(st, c) <=> \E k \in DOMAIN q : q[k] = c
  BY <1>3, <1>4 DEF HasTool, ToolsAgree
<1>6. n \in Nat /\ DOMAIN q = 1..n /\ \A k \in 1..n : q[k] \in Calls
  BY <1>4
<1>7. /\ new = [st EXCEPT !.seq = st.seq + 2 * n, !.out = st.out \o CallEvents(st, q, n),
                          !.output = st.output \o CallItems(st, q, n), !.tools = ToolsLeft(st, q, n)]
  BY <1>1, <1>6 DEF CloseAllTools, CallEvents, CallItems, ToolsLeft, RespStates
<1> HIDE DEF new, q, n
<1> DEFINE bad == {m \in 0..n : ~Closes(st, q, v, m)}
<1>8. Closes(st, q, v, 0)
  <2>1. CallEvents(st, q, 0) = <<>> /\ CallItems(st, q, 0) = <<>>
    BY DEF CallEvents, CallItems
  <2>2. ToolsLeft(st, q, 0) = st.tools
    BY <1>1 DEF ToolsLeft
  <2>3. st.out \o <<>> = st.out /\ st.output \o <<>> = st.output /\ st.seq + 2 * 0 = st.seq
    BY <1>1 DEF RespStates
  <2>4. ClosedSo(st, q, 0, st)
    BY <2>1, <2>2, <2>3 DEF ClosedSo
  <2> QED
    BY <2>4 DEF Closes
<1>9. ASSUME NEW m \in 0..(n - 1), Closes(st, q, v, m)
      PROVE  Closes(st, q, v, m + 1)
  <2>1. PICK r : Sound(r, v) /\ ClosedSo(st, q, m, r)
    BY <1>9 DEF Closes
  <2> DEFINE c == q[m + 1]
             s == CloseTool(r, c)
  <2>2. m \in Nat /\ m + 1 \in DOMAIN q /\ c \in Calls
    BY <1>6
  <2>3. HasTool(st, c)
    BY <1>5, <2>2
  <2>4. \A k \in 1..m : q[k] # c
    <3> TAKE k \in 1..m
    <3>1. k \in DOMAIN q /\ k # m + 1
      BY <1>6
    <3> QED
      BY <1>4, <2>2, <3>1
  <2>5. r.tools[c] = st.tools[c] /\ HasTool(r, c)
    BY <2>1, <2>2, <2>3, <2>4 DEF ClosedSo, ToolsLeft, HasTool
  <2>6. st.tools[c].oi \in Nat
    BY <1>3, <2>2, <2>3 DEF ToolsAgree, Places
  <2>7. /\ CallEvents(st, q, m + 1) =
             CallEvents(st, q, m) \o Numbered(ToolDone, st.tools[c].oi, st.seq + 2 * m)
        /\ CallItems(st, q, m + 1) = Append(CallItems(st, q, m), st.tools[c])
        /\ ToolsLeft(st, q, m + 1) = [ToolsLeft(st, q, m) EXCEPT ![c] = NoTool]
        /\ CallEvents(st, q, m) \in Seq(EventRecords) /\ CallItems(st, q, m) \in Seq(ItemRecords)
        /\ Numbered(ToolDone, st.tools[c].oi, st.seq + 2 * m) \in Seq(EventRecords)
    BY <1>1, <1>4, <2>2, <2>6, OneMoreCloses
  <2> HIDE DEF c
  <2>8. /\ Sound(s, v) /\ s.next_oi = r.next_oi
        /\ s.reasoning = r.reasoning /\ s.text = r.text /\ s.kind = r.kind
        /\ s.tool_order = r.tool_order
        /\ s.tools = [r.tools EXCEPT ![c] = NoTool]
        /\ s.output = Append(r.output, r.tools[c])
        /\ s.seq = r.seq + 2 /\ s.out = r.out \o Numbered(ToolDone, r.tools[c].oi, r.seq)
    BY <2>1, <2>2, <2>5, ToolCloses
  <2> HIDE DEF s
  <2> DEFINE e == Numbered(ToolDone, st.tools[c].oi, st.seq + 2 * m)
             ev == CallEvents(st, q, m)
             it == CallItems(st, q, m)
  <2>9. st.out \in Seq(EventRecords) /\ st.output \in Seq(ItemRecords) /\ st.seq \in Nat
    BY <1>1 DEF RespStates
  <2>10. ev \in Seq(EventRecords) /\ it \in Seq(ItemRecords) /\ e \in Seq(EventRecords)
    BY <2>7
  <2>11. (st.out \o ev) \o e = st.out \o (ev \o e)
    <3> DEFINE o == st.out
    <3>1. o \in Seq(EventRecords)
      BY <2>9
    <3> HIDE DEF ev, e, o
    <3>2. (o \o ev) \o e = o \o (ev \o e)
      BY <2>10, <3>1, ConcatAssociative, SMTT(30)
    <3> QED
      BY <3>2 DEF o
  <2>12. Append(st.output \o it, st.tools[c]) = st.output \o Append(it, st.tools[c])
    <3>1. st.tools[c] \in ItemRecords
      BY <1>1, <2>2
    <3> DEFINE x == st.tools[c]
               o == st.output
    <3>2. x \in ItemRecords /\ o \in Seq(ItemRecords)
      BY <2>9, <3>1
    <3> HIDE DEF it, x, o
    <3>3. /\ o \o it \in Seq(ItemRecords) /\ <<x>> \in Seq(ItemRecords)
          /\ Append(o \o it, x) = (o \o it) \o <<x>> /\ Append(it, x) = it \o <<x>>
      BY <2>10, <3>2, ConcatProperties, AppendIsConcat
    <3>4. Append(o \o it, x) = o \o Append(it, x)
      BY <2>10, <3>2, <3>3, ConcatAssociative, SMTT(30)
    <3> QED
      BY <3>4 DEF x, o
  <2>13. s.seq = st.seq + 2 * (m + 1)
    BY <2>1, <2>2, <2>8, <2>9 DEF ClosedSo
  <2> HIDE DEF e, ev, it
  <2>14. ClosedSo(st, q, m + 1, s)
    BY <2>1, <2>5, <2>7, <2>8, <2>11, <2>12, <2>13 DEF ClosedSo, e, ev, it
  <2> QED
    BY <2>8, <2>14 DEF Closes
<1>10. bad = {}
  <2>1. SUFFICES ASSUME bad # {} PROVE FALSE
    OBVIOUS
  <2>2. bad \in SUBSET Nat /\ IsFiniteSet(bad)
    <3>1. IsFiniteSet(0..n) /\ bad \in SUBSET (0..n) /\ 0..n \in SUBSET Nat
      BY <1>6, FS_Interval
    <3> HIDE DEF bad
    <3> QED
      BY <3>1, FS_Subset
  <2>3. PICK m \in bad : \A l \in bad : m <= l
    <3> HIDE DEF bad
    <3> QED
      BY <2>1, <2>2, LeastPlace
  <2>4. m \in 0..n /\ ~Closes(st, q, v, m) /\ n \in Nat
    BY <1>6
  <2>5. m # 0
    BY <1>8, <2>4
  <2>6. m - 1 \in 0..(n - 1) /\ m - 1 \in 0..n /\ ~(m <= m - 1) /\ (m - 1) + 1 = m
    BY <2>4, <2>5
  <2>7. Closes(st, q, v, m - 1)
    BY <2>3, <2>6
  <2>8. Closes(st, q, v, (m - 1) + 1)
    BY <1>9, <2>6, <2>7
  <2> QED
    BY <2>4, <2>6, <2>8
<1>11. PICK r : Sound(r, v) /\ ClosedSo(st, q, n, r)
  <2>1. n \in 0..n
    BY <1>6
  <2>2. Closes(st, q, v, n)
    BY <1>10, <2>1
  <2> QED
    BY <2>2 DEF Closes
<1>12. new = r
  <2>1. r \in RespStates
    BY <1>11 DEF Sound
  <2>2. /\ r.seq = st.seq + 2 * n /\ r.out = st.out \o CallEvents(st, q, n)
        /\ r.output = st.output \o CallItems(st, q, n) /\ r.tools = ToolsLeft(st, q, n)
        /\ r.next_oi = st.next_oi /\ r.reasoning = st.reasoning /\ r.text = st.text
        /\ r.kind = st.kind /\ r.tool_order = st.tool_order
    BY <1>11 DEF ClosedSo
  <2> DEFINE so == [st EXCEPT !.seq = r.seq, !.out = r.out, !.output = r.output, !.tools = r.tools]
  <2>3. new = so
    BY <1>7, <2>2
  <2>4. so = r
    BY <1>1, <2>1, <2>2 DEF RespStates
  <2> QED
    BY <2>3, <2>4
<1>13. new.tools = [c \in Calls |-> NoTool]
  <2>1. ASSUME NEW c \in Calls
        PROVE  ToolsLeft(st, q, n)[c] = NoTool
    <3>1. CASE HasTool(st, c)
      BY <1>5, <1>6, <3>1 DEF ToolsLeft
    <3>2. CASE ~HasTool(st, c)
      BY <3>2 DEF ToolsLeft, HasTool
    <3> QED
      BY <3>1, <3>2
  <2>2. ToolsLeft(st, q, n) = [c \in Calls |-> NoTool]
    BY <2>1 DEF ToolsLeft
  <2> QED
    BY <1>11, <1>12, <2>2 DEF ClosedSo
<1> QED
  BY <1>4, <1>5, <1>11, <1>12, <1>13 DEF ClosedSo, new, q, n

(* A piece of what is open is sent.                                        *)
LEMMA DeltaIsSent ==
  ASSUME NEW st, NEW v, Sound(st, v), NEW i,
         \/ i = st.reasoning /\ i # NoItem
         \/ i = st.text /\ i # NoItem
         \/ \E c \in Calls : HasTool(st, c) /\ st.tools[c].oi = i
  PROVE  LET new == Built(st, <<"delta">>, i)
         IN  /\ Sound(new, v) /\ new.next_oi = st.next_oi
             /\ new.reasoning = st.reasoning /\ new.text = st.text /\ new.kind = st.kind
             /\ new.tools = st.tools /\ new.tool_order = st.tool_order /\ new.output = st.output
<1> DEFINE e == Reader!Event("delta", i, st.seq)
           out == st.out \o <<e>>
           new == [st EXCEPT !.seq = st.seq + 1, !.out = out]
<1>1. st \in RespStates /\ st.seq \in Nat /\ st.out \in Seq(EventRecords)
  BY DEF Sound, RespStates
<1>2. PICK w : Agrees(st, w) /\ Brings(st.out, v, w)
  BY DEF Sound
<1>3. /\ w \in Tellings /\ w.phase = "running" /\ w.number = st.seq - 1 /\ Len(w.items) = st.next_oi
      /\ OneAtATimeIn(st) /\ ToolsAgree(st, w.items) /\ PartsAgree(st, w.items)
      /\ OutputAgrees(st.output, w.items)
  BY <1>2 DEF Agrees
<1>4. /\ i \in Places(w.items)
      /\ w.items[i + 1].part = IF w.items[i + 1].kind = "call" THEN "none" ELSE "open"
  <2>1. CASE i = st.reasoning /\ i # NoItem
    BY <1>3, <2>1 DEF PartsAgree
  <2>2. CASE i = st.text /\ i # NoItem
    BY <1>3, <2>2 DEF PartsAgree
  <2>3. CASE \E c \in Calls : HasTool(st, c) /\ st.tools[c].oi = i
    BY <1>3, <2>3 DEF ToolsAgree
  <2> QED
    BY <2>1, <2>2, <2>3
<1> DEFINE z == Told("running", w.items, st.seq)
<1>5. z \in Tellings /\ e \in EventRecords /\ Tells(w, e, z)
  <2>1. w.items \in Seq(ItemStates) /\ i \in Int
    BY <1>3, <1>4 DEF Tellings, Places
  <2>2. z \in Tellings /\ e \in EventRecords
    BY <1>1, <2>1 DEF Told, Tellings, EventRecords, Types, Reader!Event
  <2>3. TellsOf(w, e, z)
    BY <1>3, <1>4 DEF TellsOf, Reader!Event, Told
  <2>4. e.number = w.number + 1 /\ z.number = e.number
    BY <1>1, <1>3 DEF Reader!Event, Told
  <2> QED
    BY <2>2, <2>3, <2>4 DEF Tells
<1>6. Built(st, <<"delta">>, i) = new
  <2>1. [j \in DOMAIN <<"delta">> |-> Reader!Event(<<"delta">>[j], i, st.seq + j - 1)] = <<e>>
    BY <1>1
  <2>2. Len(<<"delta">>) = 1
    OBVIOUS
  <2> QED
    BY <2>1, <2>2 DEF Built
<1> HIDE DEF e
<1>7. out \in Seq(EventRecords) /\ Brings(out, v, z)
  BY <1>1, <1>2, <1>5, BringsMore
<1> HIDE DEF out
<1>8. /\ new \in RespStates /\ new.seq = st.seq + 1 /\ new.out = out /\ new.next_oi = st.next_oi
      /\ new.reasoning = st.reasoning /\ new.text = st.text /\ new.kind = st.kind
      /\ new.tools = st.tools /\ new.tool_order = st.tool_order /\ new.output = st.output
  <2>1. st.seq + 1 \in Nat
    BY <1>1
  <2> QED
    BY <1>1, <1>7, <2>1 DEF RespStates
<1> HIDE DEF new
<1>9. z.phase = "running" /\ z.items = w.items /\ z.number = new.seq - 1
  BY <1>1, <1>8 DEF Told
<1> HIDE DEF z
<1>10. Agrees(new, z)
  BY <1>3, <1>5, <1>8, <1>9 DEF Agrees, OneAtATimeIn, ToolsAgree, PartsAgree, HasTool
<1> QED
  BY <1>6, <1>7, <1>8, <1>10 DEF Sound

(* What is known of an open call changes, its place does not.              *)
LEMMA CallIsFilled ==
  ASSUME NEW st, NEW v, Sound(st, v), NEW c \in Calls, HasTool(st, c), NEW t \in ItemRecords,
         t.oi = st.tools[c].oi, t.args # "thought"
  PROVE  LET new == [st EXCEPT !.tools[c] = t]
         IN  /\ Sound(new, v) /\ new.next_oi = st.next_oi /\ HasTool(new, c)
             /\ new.reasoning = st.reasoning /\ new.text = st.text /\ new.kind = st.kind
             /\ new.tools = [st.tools EXCEPT ![c] = t] /\ new.output = st.output
<1> DEFINE tools == [st.tools EXCEPT ![c] = t]
           new == [st EXCEPT !.tools = tools]
<1>1. st \in RespStates /\ st.tools \in [Calls -> ItemRecords]
  BY DEF Sound, RespStates
<1>2. PICK w : Agrees(st, w) /\ Brings(st.out, v, w)
  BY DEF Sound
<1>3. [st EXCEPT !.tools[c] = t] = new
  BY <1>1 DEF RespStates
<1>4. tools \in [Calls -> ItemRecords] /\ tools[c] = t /\ \A d \in Calls : d # c => tools[d] = st.tools[d]
  BY <1>1
<1> HIDE DEF tools
<1>5. /\ new \in RespStates /\ new.seq = st.seq /\ new.out = st.out /\ new.next_oi = st.next_oi
      /\ new.reasoning = st.reasoning /\ new.text = st.text /\ new.kind = st.kind
      /\ new.tools = tools /\ new.tool_order = st.tool_order /\ new.output = st.output
  BY <1>1, <1>4 DEF RespStates
<1> HIDE DEF new
<1>6. /\ w \in Tellings /\ w.phase = "running" /\ w.number = st.seq - 1 /\ Len(w.items) = st.next_oi
      /\ OneAtATimeIn(st) /\ ToolsAgree(st, w.items) /\ PartsAgree(st, w.items)
      /\ OutputAgrees(st.output, w.items)
  BY <1>2 DEF Agrees
<1>7. t # NoTool
  <2>1. st.tools[c].oi \in Nat
    BY <1>6 DEF ToolsAgree, Places
  <2> QED
    BY <2>1 DEF NoTool, NoItem
<1>8. \A d \in Calls : /\ HasTool(new, d) <=> HasTool(st, d)
                       /\ new.tools[d].oi = st.tools[d].oi
                       /\ HasTool(st, d) => new.tools[d].args # "thought"
  <2> TAKE d \in Calls
  <2>1. CASE d = c
    BY <1>4, <1>5, <1>7, <2>1 DEF HasTool
  <2>2. CASE d # c
    BY <1>4, <1>5, <1>6, <2>2 DEF HasTool, ToolsAgree
  <2> QED
    BY <2>1, <2>2
<1>9. ToolsAgree(new, w.items)
  BY <1>5, <1>6, <1>8 DEF ToolsAgree
<1>10. PartsAgree(new, w.items)
  <2>1. /\ new.reasoning # NoItem => st.reasoning # NoItem
        /\ new.text # NoItem => st.text # NoItem
    BY <1>5
  <2>2. ASSUME NEW i \in Places(w.items), w.items[i + 1].part # "done"
        PROVE  i = new.reasoning \/ i = new.text \/ \E d \in Calls : HasTool(new, d) /\ new.tools[d].oi = i
    BY <1>5, <1>6, <1>8, <2>2 DEF PartsAgree
  <2> QED
    BY <1>5, <1>6, <2>1, <2>2 DEF PartsAgree
<1>11. OneAtATimeIn(new)
  BY <1>5, <1>6, <1>8 DEF OneAtATimeIn
<1>12. Agrees(new, w)
  BY <1>5, <1>6, <1>9, <1>10, <1>11 DEF Agrees
<1>13. HasTool(new, c)
  BY <1>8
<1> QED
  BY <1>2, <1>3, <1>5, <1>12, <1>13 DEF Sound, tools

(* A new item after those there are.                                       *)
LEMMA ItemsGrow ==
  ASSUME NEW its \in Seq(ItemStates), NEW r \in ItemStates
  PROVE  LET new == Append(its, r)
             n == Len(its)
         IN  /\ n \in Nat /\ new \in Seq(ItemStates) /\ Len(new) = n + 1
             /\ new[n + 1] = r /\ n \in Places(new) /\ n \notin Places(its)
             /\ \A j \in Places(its) : new[j + 1] = its[j + 1]
             /\ \A j \in Places(new) : j = n \/ j \in Places(its)
             /\ Places(its) \subseteq Places(new)
<1> DEFINE new == Append(its, r)
           n == Len(its)
<1>1. /\ n \in Nat /\ new \in Seq(ItemStates) /\ Len(new) = n + 1 /\ new[n + 1] = r
      /\ \A k \in 1..n : new[k] = its[k]
  BY AppendProperties, LenProperties
<1> HIDE DEF new, n
<1>2. Places(its) = 0..(n - 1) /\ Places(new) = 0..n
  BY <1>1 DEF Places, n
<1> QED
  BY <1>1, <1>2 DEF new, n

(* A thought or a message is announced, with its part.                     *)
LEMMA PartStarts ==
  ASSUME NEW q \in Seq(EventRecords), NEW v, NEW w, Brings(q, v, w), w.phase = "running",
         NEW kind \in {"reasoning", "message"}, kind = "reasoning" => w.items = <<>>,
         \A i \in Places(w.items) : w.items[i + 1].part = "done",
         NEW n, n = Len(w.items), NEW s, s = w.number + 1
  PROVE  LET more == Numbered(<<kind, "part.added">>, n, s)
             r == [kind |-> kind, part |-> "open"]
             new == Told("running", Append(w.items, r), s + 1)
         IN  /\ r \in ItemStates /\ q \o more \in Seq(EventRecords)
             /\ new \in Tellings /\ Brings(q \o more, v, new)
<1> DEFINE none == [kind |-> kind, part |-> "none"]
           r == [kind |-> kind, part |-> "open"]
           one == Append(w.items, none)
           two == Append(w.items, r)
           e1 == Reader!Event(kind, n, s)
           e2 == Reader!Event("part.added", n, s + 1)
           w1 == Told("running", one, s)
           w2 == Told("running", two, s + 1)
           more == Numbered(<<kind, "part.added">>, n, s)
<1>1. w \in Tellings /\ w.number \in Int /\ s \in Int /\ w.items \in Seq(ItemStates)
  <2>1. w \in Tellings
    BY BringsTypes
  <2> QED
    BY <2>1 DEF Tellings
<1>2. none \in ItemStates /\ r \in ItemStates /\ kind \in Reader!Kinds /\ kind # "call"
  BY DEF ItemStates, Reader!Kinds
<1>3. /\ n \in Nat /\ one \in Seq(ItemStates) /\ Len(one) = n + 1 /\ one[n + 1] = none /\ n \in Places(one)
      /\ \A j \in 1..n : one[j] = w.items[j]
  BY <1>1, <1>2, ItemsGrow, AppendProperties
<1>4. /\ two \in Seq(ItemStates) /\ Len(two) = n + 1 /\ two[n + 1] = r
      /\ \A j \in 1..n : two[j] = w.items[j]
  BY <1>1, <1>2, ItemsGrow, AppendProperties
<1>5. two = WithPart(one, n, "open")
  <2> DEFINE more2 == WithPart(one, n, "open")
  <2>1. /\ more2 \in Seq(ItemStates) /\ Len(more2) = n + 1
        /\ more2[n + 1].part = "open" /\ more2[n + 1].kind = one[n + 1].kind
        /\ \A j \in Places(one) : j # n => more2[j + 1] = one[j + 1]
    <3> HIDE DEF one
    <3>1. /\ more2 \in Seq(ItemStates) /\ Len(more2) = Len(one)
          /\ more2[n + 1].part = "open" /\ more2[n + 1].kind = one[n + 1].kind
          /\ \A j \in Places(one) : j # n => more2[j + 1] = one[j + 1]
      BY <1>3, PartsChange
    <3> HIDE DEF more2
    <3> QED
      BY <1>3, <3>1
  <2> HIDE DEF more2, one, two
  <2>2. more2[n + 1] = r
    <3>1. more2[n + 1] \in ItemStates
      BY <1>3, <2>1
    <3> QED
      BY <1>3, <2>1, <3>1 DEF ItemStates
  <2>3. \A j \in 1..n : more2[j] = one[j]
    <3> TAKE j \in 1..n
    <3>1. j - 1 \in Places(one) /\ j - 1 # n /\ (j - 1) + 1 = j
      BY <1>3 DEF Places
    <3> QED
      BY <2>1, <3>1
  <2>4. \A j \in 1..(n + 1) : more2[j] = two[j]
    BY <1>3, <1>4, <2>2, <2>3
  <2>5. more2 = two
    BY <1>4, <2>1, <2>4, SeqEqual
  <2> QED
    BY <2>5 DEF more2
<1> HIDE DEF one, two
<1>6. {e1, e2} \subseteq EventRecords /\ {w1, w2} \subseteq Tellings
  BY <1>1, <1>2, <1>3, <1>4 DEF EventRecords, Types, Reader!Event, Told, Tellings
<1>7. Tells(w, e1, w1)
  <2>1. TellsNew(w, e1, w1)
    BY <1>2 DEF TellsNew, Reader!Event, Told, one
  <2> QED
    BY <2>1 DEF Tells, Reader!Event, Told
<1>8. Tells(w1, e2, w2)
  <2>1. TellsOf(w1, e2, w2)
    BY <1>2, <1>3, <1>5 DEF TellsOf, Reader!Event, Told
  <2> QED
    BY <2>1 DEF Tells, Reader!Event, Told
<1>9. more = <<e1>> \o <<e2>>
  BY <1>1 DEF Numbered
<1> HIDE DEF e1, e2, w1, w2, more
<1>10. q \o <<e1>> \in Seq(EventRecords) /\ Brings(q \o <<e1>>, v, w1)
  BY <1>6, <1>7, BringsMore
<1>11. (q \o <<e1>>) \o <<e2>> \in Seq(EventRecords) /\ Brings((q \o <<e1>>) \o <<e2>>, v, w2)
  BY <1>6, <1>8, <1>10, BringsMore
<1>12. (q \o <<e1>>) \o <<e2>> = q \o more
  <2>1. {<<e1>>, <<e2>>} \subseteq Seq(EventRecords)
    BY <1>6
  <2> QED
    BY <1>9, <2>1
<1> QED
  BY <1>2, <1>6, <1>11, <1>12 DEF more, w2, two

(* A thought is announced when nothing else has been.                      *)
LEMMA ReasoningOpens ==
  ASSUME NEW st, NEW v, Sound(st, v), st.reasoning = NoItem, st.text = NoItem,
         \A c \in Calls : ~HasTool(st, c),
         st.next_oi = 0
  PROVE  LET new == [Added(st, <<"reasoning", "part.added">>) EXCEPT !.reasoning = st.next_oi]
         IN  /\ Sound(new, v) /\ new.reasoning = st.next_oi /\ st.next_oi \in Nat
             /\ new.next_oi = st.next_oi + 1 /\ new.text = NoItem /\ new.kind = st.kind
             /\ new.tools = st.tools /\ new.output = st.output
<1> DEFINE n == st.next_oi
           out == st.out \o Numbered(<<"reasoning", "part.added">>, n, st.seq)
           new == [st EXCEPT !.seq = st.seq + 2, !.out = out, !.next_oi = n + 1, !.reasoning = n]
<1>1. /\ st \in RespStates /\ st.seq \in Nat /\ n \in Nat
      /\ st.out \in Seq(EventRecords) /\ st.output \in Seq(ItemRecords)
  BY DEF Sound, RespStates
<1>2. PICK w : Agrees(st, w) /\ Brings(st.out, v, w)
  BY DEF Sound
<1>3. /\ w \in Tellings /\ w.phase = "running" /\ w.number = st.seq - 1 /\ Len(w.items) = n
      /\ PartsAgree(st, w.items) /\ OutputAgrees(st.output, w.items) /\ ToolsAgree(st, w.items)
      /\ w.items \in Seq(ItemStates) /\ st.seq = w.number + 1
  BY <1>1, <1>2 DEF Agrees, Tellings
<1>4. [Added(st, <<"reasoning", "part.added">>) EXCEPT !.reasoning = st.next_oi] = new
  <2>1. Len(<<"reasoning", "part.added">>) = 2
    OBVIOUS
  <2> QED
    BY <1>1, <2>1 DEF Added, Built, Numbered, RespStates
<1> DEFINE r == [kind |-> "reasoning", part |-> "open"]
           its == Append(w.items, r)
           z == Told("running", its, st.seq + 1)
<1> HIDE DEF n
<1>5. \A i \in Places(w.items) : w.items[i + 1].part = "done" /\ i # NoItem
  BY <1>3 DEF PartsAgree, Places, NoItem
<1>6. r \in ItemStates /\ out \in Seq(EventRecords) /\ z \in Tellings /\ Brings(out, v, z)
  <2>1. w.items = <<>>
    <3>1. Len(w.items) = 0
      BY <1>3 DEF n
    <3> QED
      BY <1>3, <3>1, EmptySeq
  <2> QED
    BY <1>1, <1>2, <1>3, <1>5, <2>1, PartStarts, ZenonT(40)
<1>7. /\ its \in Seq(ItemStates) /\ Len(its) = n + 1 /\ its[n + 1] = r
      /\ n \in Places(its) /\ n \notin Places(w.items)
      /\ \A j \in Places(w.items) : its[j + 1] = w.items[j + 1]
      /\ \A j \in Places(its) : j = n \/ j \in Places(w.items)
      /\ Places(w.items) \subseteq Places(its)
  <2> HIDE DEF r
  <2>1. LET m == Len(w.items)
        IN  /\ its \in Seq(ItemStates) /\ Len(its) = m + 1 /\ its[m + 1] = r
            /\ m \in Places(its) /\ m \notin Places(w.items)
            /\ \A j \in Places(w.items) : its[j + 1] = w.items[j + 1]
            /\ \A j \in Places(its) : j = m \/ j \in Places(w.items)
            /\ Places(w.items) \subseteq Places(its)
    BY <1>3, <1>6, ItemsGrow
  <2> HIDE DEF its
  <2> QED
    BY <1>3, <2>1
<1>8. OutputAgrees(st.output, its)
  BY <1>1, <1>3, <1>6, OutputAsBefore
<1> HIDE DEF out, its
<1>9. /\ new \in RespStates /\ new.seq = st.seq + 2 /\ new.out = out /\ new.next_oi = n + 1
      /\ new.reasoning = n /\ new.text = st.text /\ new.kind = st.kind
      /\ new.tools = st.tools /\ new.tool_order = st.tool_order /\ new.output = st.output
  <2>1. st.seq + 2 \in Nat /\ n + 1 \in Nat
    BY <1>1
  <2> QED
    BY <1>1, <1>6, <2>1 DEF RespStates
<1> HIDE DEF new
<1>10. Agrees(new, z)
  <2>1. z.phase = "running" /\ z.items = its /\ z.number = st.seq + 1
    BY DEF Told
  <2> HIDE DEF z
  <2>2. \A c \in Calls : ~HasTool(new, c)
    BY <1>9 DEF HasTool
  <2>3. PartsAgree(new, its)
    BY <1>5, <1>7, <1>9 DEF PartsAgree
  <2>4. ToolsAgree(new, its) /\ OneAtATimeIn(new)
    BY <1>9, <2>2 DEF ToolsAgree, OneAtATimeIn
  <2>5. z.number = new.seq - 1 /\ Len(z.items) = new.next_oi
    BY <1>1, <1>7, <1>9, <2>1
  <2> QED
    BY <1>6, <1>8, <1>9, <2>1, <2>3, <2>4, <2>5 DEF Agrees
<1> QED
  BY <1>1, <1>4, <1>6, <1>9, <1>10 DEF Sound, n

(* A message is announced when nothing is open.                            *)
LEMMA MessageOpens ==
  ASSUME NEW st, NEW v, Sound(st, v), st.reasoning = NoItem, st.text = NoItem,
         \A c \in Calls : ~HasTool(st, c),
         NEW kind \in {"text", "refusal"}
  PROVE  LET new == [Added(st, <<"message", "part.added">>) EXCEPT !.text = st.next_oi, !.kind = kind]
         IN  /\ Sound(new, v) /\ new.text = st.next_oi /\ st.next_oi \in Nat
             /\ new.next_oi = st.next_oi + 1 /\ new.reasoning = NoItem /\ new.kind = kind
             /\ new.tools = st.tools /\ new.output = st.output
<1> DEFINE n == st.next_oi
           out == st.out \o Numbered(<<"message", "part.added">>, n, st.seq)
           new == [st EXCEPT !.seq = st.seq + 2, !.out = out, !.next_oi = n + 1, !.text = n, !.kind = kind]
<1>1. /\ st \in RespStates /\ st.seq \in Nat /\ n \in Nat
      /\ st.out \in Seq(EventRecords) /\ st.output \in Seq(ItemRecords)
  BY DEF Sound, RespStates
<1>2. PICK w : Agrees(st, w) /\ Brings(st.out, v, w)
  BY DEF Sound
<1>3. /\ w \in Tellings /\ w.phase = "running" /\ w.number = st.seq - 1 /\ Len(w.items) = n
      /\ PartsAgree(st, w.items) /\ OutputAgrees(st.output, w.items) /\ ToolsAgree(st, w.items)
      /\ w.items \in Seq(ItemStates) /\ st.seq = w.number + 1
  BY <1>1, <1>2 DEF Agrees, Tellings
<1>4. [Added(st, <<"message", "part.added">>) EXCEPT !.text = st.next_oi, !.kind = kind] = new
  <2>1. Len(<<"message", "part.added">>) = 2
    OBVIOUS
  <2> QED
    BY <1>1, <2>1 DEF Added, Built, Numbered, RespStates
<1> DEFINE r == [kind |-> "message", part |-> "open"]
           its == Append(w.items, r)
           z == Told("running", its, st.seq + 1)
<1> HIDE DEF n
<1>5. \A i \in Places(w.items) : w.items[i + 1].part = "done" /\ i # NoItem
  BY <1>3 DEF PartsAgree, Places, NoItem
<1>6. r \in ItemStates /\ out \in Seq(EventRecords) /\ z \in Tellings /\ Brings(out, v, z)
  BY <1>1, <1>2, <1>3, <1>5, PartStarts
<1>7. /\ its \in Seq(ItemStates) /\ Len(its) = n + 1 /\ its[n + 1] = r
      /\ n \in Places(its) /\ n \notin Places(w.items)
      /\ \A j \in Places(w.items) : its[j + 1] = w.items[j + 1]
      /\ \A j \in Places(its) : j = n \/ j \in Places(w.items)
      /\ Places(w.items) \subseteq Places(its)
  <2> HIDE DEF r
  <2>1. LET m == Len(w.items)
        IN  /\ its \in Seq(ItemStates) /\ Len(its) = m + 1 /\ its[m + 1] = r
            /\ m \in Places(its) /\ m \notin Places(w.items)
            /\ \A j \in Places(w.items) : its[j + 1] = w.items[j + 1]
            /\ \A j \in Places(its) : j = m \/ j \in Places(w.items)
            /\ Places(w.items) \subseteq Places(its)
    BY <1>3, <1>6, ItemsGrow
  <2> HIDE DEF its
  <2> QED
    BY <1>3, <2>1
<1>8. OutputAgrees(st.output, its)
  BY <1>1, <1>3, <1>6, OutputAsBefore
<1> HIDE DEF out, its
<1>9. /\ new \in RespStates /\ new.seq = st.seq + 2 /\ new.out = out /\ new.next_oi = n + 1
      /\ new.text = n /\ new.reasoning = st.reasoning /\ new.kind = kind
      /\ new.tools = st.tools /\ new.tool_order = st.tool_order /\ new.output = st.output
  <2>1. st.seq + 2 \in Nat /\ n + 1 \in Nat
    BY <1>1
  <2> QED
    BY <1>1, <1>6, <2>1 DEF RespStates
<1> HIDE DEF new
<1>10. Agrees(new, z)
  <2>1. z.phase = "running" /\ z.items = its /\ z.number = st.seq + 1
    BY DEF Told
  <2> HIDE DEF z
  <2>2. \A c \in Calls : ~HasTool(new, c)
    BY <1>9 DEF HasTool
  <2>3. PartsAgree(new, its)
    BY <1>5, <1>7, <1>9 DEF PartsAgree
  <2>4. ToolsAgree(new, its) /\ OneAtATimeIn(new)
    BY <1>9, <2>2 DEF ToolsAgree, OneAtATimeIn
  <2>5. z.number = new.seq - 1 /\ Len(z.items) = new.next_oi
    BY <1>1, <1>7, <1>9, <2>1
  <2> QED
    BY <1>6, <1>8, <1>9, <2>1, <2>3, <2>4, <2>5 DEF Agrees
<1> QED
  BY <1>1, <1>4, <1>6, <1>9, <1>10 DEF Sound, n

(* A call is announced beside the calls that are open.                     *)
NewCall(n, f) == [Entry(n) EXCEPT !.upstream_id = f.id]

LEMMA CallOpens ==
  ASSUME NEW st, NEW v, Sound(st, v), st.reasoning = NoItem, st.text = NoItem,
         NEW c \in Calls, ~HasTool(st, c), NEW f, f.id \in Calls \cup {NoName}
  PROVE  LET new == OpenCall(st, c, f)
             t == NewCall(st.next_oi, f)
         IN  /\ Sound(new, v) /\ new.reasoning = NoItem /\ new.text = NoItem
             /\ new.tools = [st.tools EXCEPT ![c] = t] /\ new.output = st.output
             /\ HasTool(new, c) /\ t \in ItemRecords
             /\ t.oi = st.next_oi /\ t.upstream_id = f.id /\ t.of = {} /\ t.args = "none"
<1> DEFINE n == st.next_oi
           t == NewCall(n, f)
           tools == [st.tools EXCEPT ![c] = t]
           order == Append(st.tool_order, c)
           e == Reader!Event("call", n, st.seq)
           out == st.out \o <<e>>
           new == [st EXCEPT !.seq = st.seq + 1, !.out = out, !.next_oi = n + 1,
                             !.tools = tools, !.tool_order = order]
<1>1. /\ st \in RespStates /\ st.seq \in Nat /\ n \in Nat /\ st.tools \in [Calls -> ItemRecords]
      /\ st.out \in Seq(EventRecords) /\ st.output \in Seq(ItemRecords) /\ st.tool_order \in Seq(Calls)
  BY DEF Sound, RespStates
<1>2. PICK w : Agrees(st, w) /\ Brings(st.out, v, w)
  BY DEF Sound
<1>3. /\ w \in Tellings /\ w.phase = "running" /\ w.number = st.seq - 1 /\ Len(w.items) = n
      /\ PartsAgree(st, w.items) /\ OutputAgrees(st.output, w.items) /\ ToolsAgree(st, w.items)
      /\ w.items \in Seq(ItemStates) /\ st.seq = w.number + 1
  BY <1>1, <1>2 DEF Agrees, Tellings
<1>4. OpenCall(st, c, f) = new
  <2>1. Len(<<"call">>) = 1
    OBVIOUS
  <2>2. [j \in DOMAIN <<"call">> |-> Reader!Event(<<"call">>[j], n, st.seq + j - 1)] = <<e>>
    BY <1>1
  <2> QED
    BY <1>1, <2>1, <2>2 DEF OpenCall, Added, Built, NewCall, RespStates
<1>5. /\ t \in ItemRecords /\ t.oi = n /\ t.upstream_id = f.id /\ t.of = {} /\ t.args = "none"
      /\ t # NoTool
  <2>1. t = [oi |-> n, upstream_id |-> f.id, of |-> {}, args |-> "none"]
    <3> DEFINE x == Entry(n)
    <3>1. x = [oi |-> n, upstream_id |-> NoName, of |-> {}, args |-> "none"]
      BY DEF Entry, NoTool
    <3>2. t = [x EXCEPT !.upstream_id = f.id]
      BY DEF NewCall
    <3> HIDE DEF x, t
    <3>3. DOMAIN x = {"oi", "upstream_id", "of", "args"}
      BY <3>1
    <3>4. t = [k \in {"oi", "upstream_id", "of", "args"} |-> IF k = "upstream_id" THEN f.id ELSE x[k]]
      BY <3>2, <3>3
    <3> QED
      BY <3>1, <3>4
  <2> HIDE DEF t
  <2>2. t.oi = n /\ t.upstream_id = f.id /\ t.of = {} /\ t.args = "none"
    BY <2>1
  <2>3. t \in ItemRecords
    BY <1>1, <2>1 DEF ItemRecords, ItemArgs
  <2>4. t # NoTool
    BY <1>1, <2>2 DEF NoTool, NoItem
  <2> QED
    BY <2>2, <2>3, <2>4
<1> DEFINE r == [kind |-> "call", part |-> "none"]
           its == Append(w.items, r)
           z == Told("running", its, st.seq)
<1> HIDE DEF n, t
<1>6. r \in ItemStates
  BY DEF ItemStates, Reader!Kinds
<1>7. /\ its \in Seq(ItemStates) /\ Len(its) = n + 1 /\ its[n + 1] = r
      /\ n \in Places(its) /\ n \notin Places(w.items)
      /\ \A j \in Places(w.items) : its[j + 1] = w.items[j + 1]
      /\ \A j \in Places(its) : j = n \/ j \in Places(w.items)
      /\ Places(w.items) \subseteq Places(its)
  <2> HIDE DEF r
  <2>1. LET m == Len(w.items)
        IN  /\ its \in Seq(ItemStates) /\ Len(its) = m + 1 /\ its[m + 1] = r
            /\ m \in Places(its) /\ m \notin Places(w.items)
            /\ \A j \in Places(w.items) : its[j + 1] = w.items[j + 1]
            /\ \A j \in Places(its) : j = m \/ j \in Places(w.items)
            /\ Places(w.items) \subseteq Places(its)
    BY <1>3, <1>6, ItemsGrow
  <2> HIDE DEF its
  <2> QED
    BY <1>3, <2>1
<1>8. OutputAgrees(st.output, its)
  BY <1>1, <1>3, <1>6, OutputAsBefore
<1>9. \A i \in Places(w.items) : w.items[i + 1].part # "done" =>
        i # NoItem /\ \E d \in Calls : HasTool(st, d) /\ st.tools[d].oi = i
  BY <1>3 DEF PartsAgree, Places, NoItem
<1>10. out \in Seq(EventRecords) /\ z \in Tellings /\ Brings(out, v, z)
  <2>1. z \in Tellings /\ e \in EventRecords
    BY <1>1, <1>7 DEF Told, Tellings, EventRecords, Types, Reader!Event, Reader!Kinds
  <2>2. \A i \in Places(w.items) : w.items[i + 1].part # "done" => w.items[i + 1].kind = "call"
    BY <1>3, <1>9 DEF ToolsAgree
  <2>3. e.type = "call" /\ e.item = n /\ e.number = st.seq
    BY DEF Reader!Event
  <2>4. z.phase = "running" /\ z.items = its /\ z.number = st.seq
    BY DEF Told
  <2> HIDE DEF e, z
  <2>5. TellsNew(w, e, z)
    BY <1>3, <2>2, <2>3, <2>4 DEF TellsNew, Reader!Kinds
  <2>6. Tells(w, e, z)
    BY <1>1, <1>3, <2>3, <2>4, <2>5 DEF Tells
  <2> QED
    BY <1>1, <1>2, <2>1, <2>6, BringsMore
<1> HIDE DEF out, its
<1>11. /\ tools \in [Calls -> ItemRecords] /\ tools[c] = t
       /\ \A d \in Calls : d # c => tools[d] = st.tools[d]
  BY <1>1, <1>5
<1>12. /\ order \in Seq(Calls) /\ \E k \in DOMAIN order : order[k] = c
       /\ \A d \in Calls : (\E k \in DOMAIN st.tool_order : st.tool_order[k] = d)
                              => \E k \in DOMAIN order : order[k] = d
  <2> DEFINE m == Len(st.tool_order)
  <2>1. /\ order \in Seq(Calls) /\ m \in Nat /\ DOMAIN order = 1..(m + 1) /\ DOMAIN st.tool_order = 1..m
        /\ order[m + 1] = c /\ \A k \in 1..m : order[k] = st.tool_order[k]
    BY <1>1, AppendProperties, LenProperties
  <2> HIDE DEF order, m
  <2>2. m + 1 \in DOMAIN order /\ 1..m \subseteq DOMAIN order
    BY <2>1
  <2>3. \E k \in DOMAIN order : order[k] = c
    BY <2>1, <2>2
  <2>4. ASSUME NEW d \in Calls, NEW k \in DOMAIN st.tool_order, st.tool_order[k] = d
        PROVE  \E l \in DOMAIN order : order[l] = d
    BY <2>1, <2>2, <2>4
  <2> QED
    BY <2>1, <2>3, <2>4
<1> HIDE DEF tools, order
<1>13. /\ new \in RespStates /\ new.seq = st.seq + 1 /\ new.out = out /\ new.next_oi = n + 1
       /\ new.reasoning = NoItem /\ new.text = NoItem /\ new.kind = st.kind
       /\ new.tools = tools /\ new.tool_order = order /\ new.output = st.output
  <2>1. st.seq + 1 \in Nat /\ n + 1 \in Nat
    BY <1>1
  <2> QED
    BY <1>1, <1>10, <1>11, <1>12, <2>1 DEF RespStates
<1> HIDE DEF new
<1>14. /\ HasTool(new, c)
       /\ \A d \in Calls : d # c => new.tools[d] = st.tools[d] /\ (HasTool(new, d) <=> HasTool(st, d))
  BY <1>5, <1>11, <1>13 DEF HasTool
<1>15. Agrees(new, z)
  <2>1. z.phase = "running" /\ z.items = its /\ z.number = st.seq
    BY DEF Told
  <2> HIDE DEF z
  <2>2. ToolsAgree(new, its)
    <3>1. ASSUME NEW d \in Calls, HasTool(new, d)
          PROVE  /\ new.tools[d].oi \in Places(its)
                 /\ its[new.tools[d].oi + 1] = r
                 /\ new.tools[d].args # "thought"
                 /\ \E k \in DOMAIN new.tool_order : new.tool_order[k] = d
      <4>1. CASE d = c
        BY <1>5, <1>7, <1>11, <1>12, <1>13, <4>1
      <4>2. CASE d # c
        <5>1. new.tools[d] = st.tools[d] /\ HasTool(st, d)
          BY <1>14, <3>1, <4>2
        <5>2. /\ st.tools[d].oi \in Places(w.items) /\ w.items[st.tools[d].oi + 1] = r
              /\ st.tools[d].args # "thought"
              /\ \E k \in DOMAIN st.tool_order : st.tool_order[k] = d
          BY <1>3, <5>1 DEF ToolsAgree
        <5>3. st.tools[d].oi \in Places(its) /\ its[st.tools[d].oi + 1] = r
          BY <1>7, <5>2
        <5>4. \E k \in DOMAIN order : order[k] = d
          BY <1>12, <5>2
        <5> QED
          BY <1>13, <5>1, <5>2, <5>3, <5>4
      <4> QED
        BY <4>1, <4>2
    <3>2. \A d \in Calls : HasTool(new, d) /\ d # c => new.tools[d].oi \in Places(w.items)
      BY <1>3, <1>14 DEF ToolsAgree
    <3>3. new.tools[c].oi = n
      BY <1>5, <1>11, <1>13
    <3>4. ASSUME NEW a \in Calls, NEW b \in Calls, HasTool(new, a), HasTool(new, b),
                 new.tools[a].oi = new.tools[b].oi
          PROVE  a = b
      <4>1. CASE a # c /\ b # c
        BY <1>3, <1>14, <3>4, <4>1 DEF ToolsAgree
      <4> QED
        BY <1>7, <3>2, <3>3, <3>4, <4>1
    <3> QED
      BY <3>1, <3>4 DEF ToolsAgree
  <2>3. PartsAgree(new, its)
    <3>1. ASSUME NEW i \in Places(its), its[i + 1].part # "done"
          PROVE  \E d \in Calls : HasTool(new, d) /\ new.tools[d].oi = i
      <4>1. CASE i = n
        BY <1>5, <1>11, <1>13, <1>14, <4>1
      <4>2. CASE i # n
        <5>1. PICK d \in Calls : HasTool(st, d) /\ st.tools[d].oi = i
          BY <1>7, <1>9, <3>1, <4>2
        <5>2. d # c
          BY <5>1
        <5> QED
          BY <1>14, <5>1, <5>2
      <4> QED
        BY <4>1, <4>2
    <3> QED
      BY <1>13, <3>1 DEF PartsAgree
  <2>4. OneAtATimeIn(new)
    BY <1>13 DEF OneAtATimeIn
  <2>5. z.number = new.seq - 1 /\ Len(z.items) = new.next_oi
    BY <1>1, <1>7, <1>13, <2>1
  <2> QED
    BY <1>8, <1>10, <1>13, <2>1, <2>2, <2>3, <2>4, <2>5 DEF Agrees
<1> QED
  BY <1>4, <1>5, <1>10, <1>13, <1>14, <1>15 DEF Sound, n, t, tools

(* What a handler of the generator leaves behind: something is open as soon *)
(* as anything was announced, and the calls that are open or in the output. *)
Idle(st) == st.reasoning = NoItem /\ st.text = NoItem /\ \A c \in Calls : ~HasTool(st, c)
Busy(st) == st.next_oi = 0 \/ ~Idle(st)

CallEntries(st) ==
  {e \in ItemRecords : /\ e.of # {}
                       /\ \/ \E c \in Calls : HasTool(st, c) /\ st.tools[c] = e
                          \/ \E k \in DOMAIN st.output : st.output[k] = e}

(* Thoughts and text in the output are no calls.                           *)
LEMMA NoCallMoreKeepsCalls ==
  ASSUME NEW st, NEW new, st.output \in Seq(ItemRecords), new.tools = st.tools,
         NoCallMore(st.output, new.output)
  PROVE  CallEntries(new) = CallEntries(st)
<1>1. \A c \in Calls : HasTool(new, c) <=> HasTool(st, c)
  BY DEF HasTool
<1>2. CASE new.output = st.output
  BY <1>1, <1>2 DEF CallEntries
<1>3. CASE \E e \in ItemRecords : e.of = {} /\ new.output = Append(st.output, e)
  <2>1. PICK e \in ItemRecords : e.of = {} /\ new.output = Append(st.output, e)
    BY <1>3
  <2> DEFINE q == st.output
             r == Append(q, e)
             n == Len(q)
  <2>2. n \in Nat /\ DOMAIN q = 1..n /\ DOMAIN r = 1..(n + 1) /\ r[n + 1] = e /\ \A k \in 1..n : r[k] = q[k]
    BY AppendProperties, LenProperties
  <2> HIDE DEF r, n, q
  <2>3. \A x : x.of # {} => ((\E k \in DOMAIN r : r[k] = x) <=> \E k \in DOMAIN q : q[k] = x)
    <3> TAKE x
    <3> HAVE x.of # {}
    <3>1. ASSUME NEW k \in DOMAIN r, r[k] = x
          PROVE  \E l \in DOMAIN q : q[l] = x
      <4>1. k # n + 1
        BY <2>1, <2>2, <3>1
      <4>2. k \in 1..n
        BY <2>2, <4>1
      <4> QED
        BY <2>2, <3>1, <4>2
    <3>2. ASSUME NEW k \in DOMAIN q, q[k] = x
          PROVE  \E l \in DOMAIN r : r[l] = x
      <4>1. k \in DOMAIN r /\ r[k] = x
        BY <2>2, <3>2
      <4> QED
        BY <4>1
    <3> QED
      BY <3>1, <3>2
  <2> QED
    BY <1>1, <2>1, <2>3 DEF CallEntries, r, q
<1> QED
  BY <1>2, <1>3 DEF NoCallMore

(* One tool less, and its call in the output.                              *)
LEMMA ClosingKeepsCalls ==
  ASSUME NEW st, NEW new, st.output \in Seq(ItemRecords), st.tools \in [Calls -> ItemRecords],
         NEW c \in Calls, HasTool(st, c),
         new.tools = [st.tools EXCEPT ![c] = NoTool], new.output = Append(st.output, st.tools[c])
  PROVE  CallEntries(new) = CallEntries(st)
<1> DEFINE q == st.output
           t == st.tools[c]
           r == Append(q, t)
           n == Len(q)
<1>1. /\ n \in Nat /\ DOMAIN q = 1..n /\ DOMAIN r = 1..(n + 1) /\ r[n + 1] = t
      /\ \A k \in 1..n : r[k] = q[k]
  BY AppendProperties, LenProperties
<1>2. /\ ~HasTool(new, c)
      /\ \A d \in Calls : d # c => new.tools[d] = st.tools[d] /\ (HasTool(new, d) <=> HasTool(st, d))
  BY DEF HasTool
<1> HIDE DEF q, r, n, t
<1>3. \A x : (\E k \in DOMAIN r : r[k] = x) <=> (x = t \/ \E k \in DOMAIN q : q[k] = x)
  <2> TAKE x
  <2>1. ASSUME NEW k \in DOMAIN r, r[k] = x
        PROVE  x = t \/ \E l \in DOMAIN q : q[l] = x
    <3>1. k = n + 1 \/ k \in 1..n
      BY <1>1
    <3> QED
      BY <1>1, <2>1, <3>1
  <2>2. n + 1 \in DOMAIN r /\ 1..n \subseteq DOMAIN r
    BY <1>1
  <2>3. ASSUME NEW k \in DOMAIN q, q[k] = x
        PROVE  \E l \in DOMAIN r : r[l] = x
    BY <1>1, <2>2, <2>3
  <2> QED
    BY <1>1, <2>1, <2>2, <2>3
<1>4. \A x : (\E d \in Calls : HasTool(st, d) /\ st.tools[d] = x)
               <=> (x = t \/ \E d \in Calls : HasTool(new, d) /\ new.tools[d] = x)
  <2> TAKE x
  <2>1. ASSUME NEW d \in Calls, HasTool(st, d), st.tools[d] = x
        PROVE  x = t \/ \E e \in Calls : HasTool(new, e) /\ new.tools[e] = x
    <3>1. CASE d = c
      BY <2>1, <3>1 DEF t
    <3>2. CASE d # c
      BY <1>2, <2>1, <3>2
    <3> QED
      BY <3>1, <3>2
  <2>2. ASSUME NEW d \in Calls, HasTool(new, d), new.tools[d] = x
        PROVE  \E e \in Calls : HasTool(st, e) /\ st.tools[e] = x
    <3>1. d # c
      BY <1>2, <2>2
    <3> QED
      BY <1>2, <2>2, <3>1
  <2> QED
    BY <2>1, <2>2 DEF t
<1>5. new.output = r /\ st.output = q
  BY DEF r, q, t
<1>6. \A x \in ItemRecords : x \in CallEntries(new) <=> x \in CallEntries(st)
  BY <1>3, <1>4, <1>5 DEF CallEntries
<1>7. CallEntries(new) \subseteq ItemRecords /\ CallEntries(st) \subseteq ItemRecords
  BY DEF CallEntries
<1> QED
  BY <1>6, <1>7

(* No tool is left, and every call is in the output.                       *)
LEMMA ClosingAllKeepsCalls ==
  ASSUME NEW st, NEW new, NEW q \in Seq(Calls),
         st.output \in Seq(ItemRecords), st.tools \in [Calls -> ItemRecords],
         new.tools = [c \in Calls |-> NoTool],
         new.output = st.output \o CallItems(st, q, Len(q)),
         \A c \in Calls : HasTool(st, c) <=> \E k \in DOMAIN q : q[k] = c
  PROVE  CallEntries(new) = CallEntries(st)
<1> DEFINE a == st.output
           b == CallItems(st, q, Len(q))
           m == Len(a)
           n == Len(q)
           r == a \o b
<1>1. /\ n \in Nat /\ DOMAIN q = 1..n /\ DOMAIN b = 1..n
      /\ \A k \in 1..n : q[k] \in Calls /\ b[k] = st.tools[q[k]]
  BY DEF CallItems
<1>2. b \in Seq(ItemRecords) /\ Len(b) = n
  <2>1. b = [k \in 1..n |-> b[k]]
    BY <1>1 DEF CallItems
  <2>2. \A k \in 1..n : b[k] \in ItemRecords
    BY <1>1
  <2> HIDE DEF b
  <2>3. b \in [1..n -> ItemRecords]
    BY <2>1, <2>2
  <2> HIDE DEF n
  <2> QED
    BY <1>1, <2>3
<1> HIDE DEF a, b, m, n, r
<1>3. /\ m \in Nat /\ DOMAIN a = 1..m /\ DOMAIN r = 1..(m + n)
      /\ \A k \in 1..(m + n) : r[k] = IF k <= m THEN a[k] ELSE b[k - m]
  <2>1. a \in Seq(ItemRecords)
    BY DEF a
  <2>2. /\ r \in Seq(ItemRecords) /\ Len(r) = Len(a) + Len(b)
        /\ \A k \in 1..(Len(a) + Len(b)) : r[k] = IF k <= Len(a) THEN a[k] ELSE b[k - Len(a)]
    BY <1>2, <2>1, ConcatProperties DEF r
  <2>3. DOMAIN r = 1..Len(r) /\ Len(a) \in Nat /\ DOMAIN a = 1..Len(a)
    BY <2>1, <2>2
  <2> QED
    BY <1>2, <2>2, <2>3 DEF m
<1>4. \A x : (\E k \in DOMAIN r : r[k] = x)
               <=> ((\E k \in DOMAIN a : a[k] = x) \/ \E k \in 1..n : b[k] = x)
  <2> TAKE x
  <2>1. ASSUME NEW k \in DOMAIN r, r[k] = x
        PROVE  (\E l \in DOMAIN a : a[l] = x) \/ \E l \in 1..n : b[l] = x
    <3>1. CASE k <= m
      BY <1>3, <2>1, <3>1
    <3>2. CASE ~(k <= m)
      <4>1. k - m \in 1..n /\ b[k - m] = x
        BY <1>1, <1>3, <2>1, <3>2
      <4> QED
        BY <4>1
    <3> QED
      BY <3>1, <3>2
  <2>2. ASSUME NEW k \in DOMAIN a, a[k] = x
        PROVE  \E l \in DOMAIN r : r[l] = x
    <3>1. k \in 1..(m + n) /\ k <= m
      BY <1>1, <1>3
    <3> QED
      BY <1>3, <2>2, <3>1
  <2>3. ASSUME NEW k \in 1..n, b[k] = x
        PROVE  \E l \in DOMAIN r : r[l] = x
    <3>1. m + k \in 1..(m + n) /\ ~(m + k <= m) /\ (m + k) - m = k
      BY <1>1, <1>3
    <3> QED
      BY <1>3, <2>3, <3>1
  <2> QED
    BY <2>1, <2>2, <2>3
<1>5. \A x : (\E k \in 1..n : b[k] = x) <=> \E c \in Calls : HasTool(st, c) /\ st.tools[c] = x
  <2> TAKE x
  <2>1. ASSUME NEW k \in 1..n, b[k] = x
        PROVE  HasTool(st, q[k]) /\ st.tools[q[k]] = x
    BY <1>1, <2>1
  <2>2. ASSUME NEW c \in Calls, HasTool(st, c), st.tools[c] = x
        PROVE  \E k \in 1..n : b[k] = x
    <3>1. PICK k \in DOMAIN q : q[k] = c
      BY <2>2
    <3> QED
      BY <1>1, <2>2, <3>1
  <2> QED
    BY <1>1, <2>1, <2>2
<1>6. \A c \in Calls : ~HasTool(new, c)
  BY DEF HasTool
<1>7. new.output = r /\ st.output = a
  BY DEF r, a, b, n
<1>8. \A x \in ItemRecords : x \in CallEntries(new) <=> x \in CallEntries(st)
  BY <1>4, <1>5, <1>6, <1>7 DEF CallEntries
<1>9. CallEntries(new) \subseteq ItemRecords /\ CallEntries(st) \subseteq ItemRecords
  BY DEF CallEntries
<1> QED
  BY <1>8, <1>9

(* A chunk of thoughts, whatever is open.                                  *)
LEMMA ThoughtsAreSaid ==
  ASSUME NEW st, NEW v, Sound(st, v), Busy(st)
  PROVE  LET new == RespReasoning(st)
         IN  Sound(new, v) /\ Busy(new) /\ new.tools = st.tools /\ new.output = st.output
<1> DEFINE more == [Added(st, <<"reasoning", "part.added">>) EXCEPT !.reasoning = st.next_oi]
           opened == IF Idle(st) THEN more ELSE st
<1>1. RespReasoning(st) = IF opened.reasoning = NoItem THEN st
                          ELSE Built(opened, <<"delta">>, opened.reasoning)
  BY DEF RespReasoning, Idle, HasTool
<1>2. CASE Idle(st)
  <2>1. st.next_oi = 0
    BY <1>2 DEF Busy
  <2>2. /\ Sound(more, v) /\ more.reasoning = st.next_oi /\ more.reasoning # NoItem
        /\ more.tools = st.tools /\ more.output = st.output
    <3>1. /\ Sound(more, v) /\ more.reasoning = st.next_oi /\ st.next_oi \in Nat
          /\ more.tools = st.tools /\ more.output = st.output
      BY <1>2, <2>1, ReasoningOpens DEF Idle
    <3> HIDE DEF more
    <3> QED
      BY <3>1 DEF NoItem
  <2> DEFINE new == Built(more, <<"delta">>, more.reasoning)
  <2> HIDE DEF more
  <2>3. /\ Sound(new, v) /\ new.reasoning = more.reasoning
        /\ new.tools = more.tools /\ new.output = more.output
    BY <2>2, DeltaIsSent
  <2> HIDE DEF new
  <2>4. RespReasoning(st) = new
    BY <1>1, <1>2, <2>2 DEF new
  <2> QED
    BY <2>2, <2>3, <2>4 DEF Busy, Idle
<1>3. CASE ~Idle(st) /\ st.reasoning = NoItem
  BY <1>1, <1>3
<1>4. CASE st.reasoning # NoItem
  <2> DEFINE new == Built(st, <<"delta">>, st.reasoning)
  <2>1. /\ Sound(new, v) /\ new.reasoning = st.reasoning
        /\ new.tools = st.tools /\ new.output = st.output
    BY <1>4, DeltaIsSent
  <2>2. RespReasoning(st) = new
    BY <1>1, <1>4 DEF Idle
  <2> HIDE DEF new
  <2> QED
    BY <1>4, <2>1, <2>2 DEF Busy, Idle
<1> QED
  BY <1>2, <1>3, <1>4

(* Thoughts and text are closed; with them what may be in the output.      *)
LEMMA SpeechCloses ==
  ASSUME NEW st, NEW v, Sound(st, v)
  PROVE  /\ LET new == CloseReasoning(st)
            IN  /\ Sound(new, v) /\ new.reasoning = NoItem /\ new.text = st.text /\ new.kind = st.kind
                /\ new.tools = st.tools /\ CallEntries(new) = CallEntries(st)
                /\ new.next_oi = st.next_oi
         /\ LET new == CloseText(st)
            IN  /\ Sound(new, v) /\ new.reasoning = st.reasoning /\ new.text = NoItem /\ new.kind = st.kind
                /\ new.tools = st.tools /\ CallEntries(new) = CallEntries(st)
                /\ new.next_oi = st.next_oi
<1>1. st.output \in Seq(ItemRecords)
  BY DEF Sound, RespStates
<1>2. LET new == CloseReasoning(st)
      IN  /\ Sound(new, v) /\ new.reasoning = NoItem /\ new.text = st.text /\ new.kind = st.kind
          /\ new.tools = st.tools /\ CallEntries(new) = CallEntries(st)
          /\ new.next_oi = st.next_oi
  <2> DEFINE new == CloseReasoning(st)
  <2>1. /\ Sound(new, v) /\ new.reasoning = NoItem /\ new.text = st.text /\ new.kind = st.kind
        /\ new.tools = st.tools /\ NoCallMore(st.output, new.output) /\ new.next_oi = st.next_oi
    BY ReasoningCloses
  <2> HIDE DEF new
  <2>2. CallEntries(new) = CallEntries(st)
    BY <1>1, <2>1, NoCallMoreKeepsCalls
  <2> QED
    BY <2>1, <2>2 DEF new
<1>3. LET new == CloseText(st)
      IN  /\ Sound(new, v) /\ new.reasoning = st.reasoning /\ new.text = NoItem /\ new.kind = st.kind
          /\ new.tools = st.tools /\ CallEntries(new) = CallEntries(st)
          /\ new.next_oi = st.next_oi
  <2> DEFINE new == CloseText(st)
  <2>1. /\ Sound(new, v) /\ new.reasoning = st.reasoning /\ new.text = NoItem /\ new.kind = st.kind
        /\ new.tools = st.tools /\ NoCallMore(st.output, new.output) /\ new.next_oi = st.next_oi
    BY TextCloses
  <2> HIDE DEF new
  <2>2. CallEntries(new) = CallEntries(st)
    BY <1>1, <2>1, NoCallMoreKeepsCalls
  <2> QED
    BY <2>1, <2>2 DEF new
<1> QED
  BY <1>2, <1>3

(* The tools are closed; the calls stay.                                   *)
LEMMA ToolsClose ==
  ASSUME NEW st, NEW v, Sound(st, v)
  PROVE  LET new == CloseAllTools(st)
         IN  /\ Sound(new, v) /\ new.reasoning = st.reasoning /\ new.text = st.text
             /\ new.kind = st.kind /\ (\A c \in Calls : ~HasTool(new, c))
             /\ CallEntries(new) = CallEntries(st)
<1> DEFINE new == CloseAllTools(st)
           q == OpenTools(st)
<1>1. st.output \in Seq(ItemRecords) /\ st.tools \in [Calls -> ItemRecords]
  BY DEF Sound, RespStates
<1>2. /\ Sound(new, v) /\ new.next_oi = st.next_oi
      /\ new.reasoning = st.reasoning /\ new.text = st.text /\ new.kind = st.kind
      /\ new.tools = [c \in Calls |-> NoTool]
      /\ q \in Seq(Calls) /\ new.output = st.output \o CallItems(st, q, Len(q))
      /\ \A c \in Calls : HasTool(st, c) <=> \E k \in DOMAIN q : q[k] = c
  BY AllToolsClose
<1> HIDE DEF new, q
<1>3. CallEntries(new) = CallEntries(st)
  BY <1>1, <1>2, ClosingAllKeepsCalls
<1>4. \A c \in Calls : ~HasTool(new, c)
  BY <1>2 DEF HasTool
<1> QED
  BY <1>2, <1>3, <1>4 DEF new

(* A chunk of text or of a refusal, whatever is open.                      *)
LEMMA SpeechIsSaid ==
  ASSUME NEW st, NEW v, Sound(st, v), NEW kind \in {"text", "refusal"}
  PROVE  LET new == SpeechOf(st, kind)
         IN  /\ Sound(new, v) /\ Busy(new) /\ (\A c \in Calls : ~HasTool(new, c))
             /\ CallEntries(new) = CallEntries(st)
<1> DEFINE thought == CloseReasoning(st)
           closed == CloseAllTools(thought)
           ready == IF closed.text # NoItem /\ closed.kind # kind THEN CloseText(closed) ELSE closed
           more == [Added(ready, <<"message", "part.added">>) EXCEPT !.text = ready.next_oi, !.kind = kind]
           opened == IF ready.text # NoItem THEN ready ELSE more
           new == Built(opened, <<"delta">>, opened.text)
<1>1. SpeechOf(st, kind) = new
  BY DEF SpeechOf
<1>2. Sound(thought, v) /\ thought.reasoning = NoItem /\ CallEntries(thought) = CallEntries(st)
  BY SpeechCloses
<1> HIDE DEF thought
<1>3. /\ Sound(closed, v) /\ closed.reasoning = NoItem /\ (\A c \in Calls : ~HasTool(closed, c))
      /\ CallEntries(closed) = CallEntries(st)
  BY <1>2, ToolsClose
<1> HIDE DEF closed
<1>4. /\ Sound(ready, v) /\ ready.reasoning = NoItem /\ (\A c \in Calls : ~HasTool(ready, c))
      /\ CallEntries(ready) = CallEntries(st)
  <2> DEFINE r == CloseText(closed)
  <2>1. /\ Sound(r, v) /\ r.reasoning = NoItem /\ r.tools = closed.tools
        /\ CallEntries(r) = CallEntries(st)
    BY <1>3, SpeechCloses
  <2> HIDE DEF r
  <2>2. \A c \in Calls : ~HasTool(r, c)
    BY <1>3, <2>1 DEF HasTool
  <2>3. ready = r \/ ready = closed
    BY DEF r
  <2> HIDE DEF ready
  <2> QED
    BY <1>3, <2>1, <2>2, <2>3
<1> HIDE DEF ready
<1>5. /\ Sound(opened, v) /\ opened.text # NoItem /\ (\A c \in Calls : ~HasTool(opened, c))
      /\ CallEntries(opened) = CallEntries(st)
  <2>1. CASE ready.text # NoItem
    <3>1. opened = ready
      BY <2>1
    <3> HIDE DEF opened
    <3> QED
      BY <1>4, <2>1, <3>1
  <2>2. CASE ready.text = NoItem
    <3>1. /\ Sound(more, v) /\ more.text = ready.next_oi /\ ready.next_oi \in Nat
          /\ more.tools = ready.tools /\ more.output = ready.output
      BY <1>4, <2>2, MessageOpens
    <3>2. opened = more
      BY <2>2
    <3> HIDE DEF more, opened
    <3>3. \A c \in Calls : ~HasTool(more, c)
      BY <1>4, <3>1 DEF HasTool
    <3>4. CallEntries(more) = CallEntries(ready)
      BY <3>1 DEF CallEntries, HasTool
    <3> QED
      BY <1>4, <3>1, <3>2, <3>3, <3>4 DEF NoItem
  <2> QED
    BY <2>1, <2>2
<1> HIDE DEF opened
<1>6. /\ Sound(new, v) /\ new.text = opened.text /\ new.tools = opened.tools /\ new.output = opened.output
  BY <1>5, DeltaIsSent
<1> HIDE DEF new
<1>7. /\ \A c \in Calls : ~HasTool(new, c)
      /\ CallEntries(new) = CallEntries(st)
  BY <1>5, <1>6 DEF HasTool, CallEntries
<1>8. Busy(new)
  BY <1>5, <1>6 DEF Busy, Idle
<1> QED
  BY <1>1, <1>6, <1>7, <1>8

(* The end of the chunks closes everything.                                *)
LEMMA EverythingCloses ==
  ASSUME NEW st, NEW v, Sound(st, v)
  PROVE  LET new == RespClosed(st)
         IN  Sound(new, v) /\ Idle(new) /\ CallEntries(new) = CallEntries(st)
<1> DEFINE thought == CloseReasoning(st)
           text == CloseText(thought)
           new == CloseAllTools(text)
<1>1. RespClosed(st) = new
  BY DEF RespClosed
<1>2. Sound(thought, v) /\ thought.reasoning = NoItem /\ CallEntries(thought) = CallEntries(st)
  BY SpeechCloses
<1> HIDE DEF thought
<1>3. Sound(text, v) /\ text.reasoning = NoItem /\ text.text = NoItem /\ CallEntries(text) = CallEntries(st)
  BY <1>2, SpeechCloses
<1> HIDE DEF text
<1>4. /\ Sound(new, v) /\ new.reasoning = NoItem /\ new.text = NoItem
      /\ (\A c \in Calls : ~HasTool(new, c)) /\ CallEntries(new) = CallEntries(st)
  BY <1>3, ToolsClose
<1> HIDE DEF new
<1> QED
  BY <1>1, <1>4 DEF Idle

(* An open call after a fragment.                                          *)
LEMMA FilledIs ==
  ASSUME NEW t \in ItemRecords, t.args # "thought", NEW f \in Fragment
  PROVE  LET new == Filled(t, f)
         IN  /\ new \in ItemRecords /\ new.oi = t.oi /\ new.of = t.of \cup {f.of}
             /\ new.args = Grown(t.args, f.args) /\ new.args # "thought"
             /\ new.upstream_id = IF t.upstream_id = NoName THEN f.id ELSE t.upstream_id
<1> DEFINE u == IF t.upstream_id = NoName THEN f.id ELSE t.upstream_id
           o == t.of \cup {f.of}
           a == Grown(t.args, f.args)
           new == [t EXCEPT !.upstream_id = u, !.of = o, !.args = a]
<1>1. /\ f.of \in Calls /\ f.id \in Calls \cup {NoName}
      /\ f.args \in {"none", "part", "rest", "whole"}
  BY DEF Fragment
<1>2. t.upstream_id \in Calls \cup {NoName} /\ t.of \in SUBSET Calls /\ t.args \in ItemArgs
  BY DEF ItemRecords
<1>3. Filled(t, f) = new
  BY DEF Filled
<1>4. u \in Calls \cup {NoName} /\ o \in SUBSET Calls
  BY <1>1, <1>2
<1>5. a \in ItemArgs /\ a # "thought"
  BY <1>1, <1>2 DEF Grown, ItemArgs
<1> HIDE DEF u, o, a
<1>6. new \in ItemRecords /\ new.oi = t.oi /\ new.of = o /\ new.args = a /\ new.upstream_id = u
  BY <1>4, <1>5 DEF ItemRecords
<1> QED
  BY <1>3, <1>5, <1>6 DEF u, o, a

(* The record of an open call is of that call only, and not in the output. *)
LEMMA OpenCallsAreApart ==
  ASSUME NEW st, NEW v, Sound(st, v), NEW c \in Calls, HasTool(st, c)
  PROVE  /\ st.tools[c] \in ItemRecords /\ st.tools[c].args # "thought"
         /\ \A k \in DOMAIN st.output : st.output[k] # st.tools[c]
         /\ \A d \in Calls : HasTool(st, d) /\ d # c => st.tools[d] # st.tools[c]
<1>1. PICK w : Agrees(st, w)
  BY DEF Sound
<1>2. ToolsAgree(st, w.items) /\ OutputAgrees(st.output, w.items)
  BY <1>1 DEF Agrees
<1>3. st.tools[c] \in ItemRecords /\ st.tools[c].args # "thought"
  BY <1>2 DEF Sound, RespStates, ToolsAgree
<1>4. w.items[st.tools[c].oi + 1].part # "done"
  BY <1>2 DEF ToolsAgree
<1>5. \A k \in DOMAIN st.output : w.items[st.output[k].oi + 1].part = "done"
  BY <1>2 DEF OutputAgrees
<1>6. \A k \in DOMAIN st.output : st.output[k] # st.tools[c]
  BY <1>4, <1>5
<1> QED
  BY <1>2, <1>3, <1>6 DEF ToolsAgree

(* What one tool changes of the calls.                                     *)
LEMMA OneToolChanges ==
  ASSUME NEW st, NEW new, NEW c \in Calls, st.tools \in [Calls -> ItemRecords], NEW t \in ItemRecords,
         new.tools = [st.tools EXCEPT ![c] = t], new.output = st.output, HasTool(new, c)
  PROVE  /\ ~HasTool(st, c) /\ t.of = {} => CallEntries(new) = CallEntries(st)
         /\ /\ HasTool(st, c) /\ t.of # {}
            /\ \A k \in DOMAIN st.output : st.output[k] # st.tools[c]
            /\ \A d \in Calls : HasTool(st, d) /\ d # c => st.tools[d] # st.tools[c]
            => CallEntries(new) = (CallEntries(st) \ {st.tools[c]}) \cup {t}
<1>1. new.tools[c] = t /\ \A d \in Calls : d # c => new.tools[d] = st.tools[d]
  OBVIOUS
<1>2. \A d \in Calls : d # c => (HasTool(new, d) <=> HasTool(st, d))
  BY <1>1 DEF HasTool
<1> DEFINE rest(x) == \/ \E d \in Calls : d # c /\ HasTool(st, d) /\ st.tools[d] = x
                      \/ \E k \in DOMAIN st.output : st.output[k] = x
<1>3. \A x : (\/ \E d \in Calls : HasTool(new, d) /\ new.tools[d] = x
              \/ \E k \in DOMAIN new.output : new.output[k] = x) <=> (x = t \/ rest(x))
  <2> TAKE x
  <2>1. (\E d \in Calls : HasTool(new, d) /\ new.tools[d] = x)
          <=> (x = t \/ \E d \in Calls : d # c /\ HasTool(st, d) /\ st.tools[d] = x)
    BY <1>1, <1>2
  <2> QED
    BY <2>1
<1>4. \A x : (\/ \E d \in Calls : HasTool(st, d) /\ st.tools[d] = x
              \/ \E k \in DOMAIN st.output : st.output[k] = x)
               <=> ((HasTool(st, c) /\ x = st.tools[c]) \/ rest(x))
  OBVIOUS
<1>5. CASE ~HasTool(st, c) /\ t.of = {}
  <2>1. \A x \in ItemRecords : x \in CallEntries(new) <=> x \in CallEntries(st)
    BY <1>3, <1>4, <1>5 DEF CallEntries
  <2>2. CallEntries(new) \subseteq ItemRecords /\ CallEntries(st) \subseteq ItemRecords
    BY DEF CallEntries
  <2> HIDE DEF rest
  <2> QED
    BY <1>5, <2>1, <2>2
<1>6. CASE /\ HasTool(st, c) /\ t.of # {}
           /\ \A k \in DOMAIN st.output : st.output[k] # st.tools[c]
           /\ \A d \in Calls : HasTool(st, d) /\ d # c => st.tools[d] # st.tools[c]
  <2>1. ~rest(st.tools[c])
    BY <1>6
  <2> HIDE DEF rest
  <2>2. \A x \in ItemRecords : x \in CallEntries(new) <=> (x = t \/ (x.of # {} /\ rest(x)))
    BY <1>3, <1>6 DEF CallEntries
  <2>3. \A x \in ItemRecords : (x \in CallEntries(st) /\ x # st.tools[c]) <=> (x.of # {} /\ rest(x))
    BY <1>4, <1>6, <2>1 DEF CallEntries
  <2>4. CallEntries(new) \subseteq ItemRecords /\ CallEntries(st) \subseteq ItemRecords
    BY DEF CallEntries
  <2> QED
    BY <1>6, <2>2, <2>3, <2>4
<1> QED
  BY <1>5, <1>6

(* A fragment of a call: of a new one, or of the one that is open.         *)
IsFirst(st, f) == st.tools[f.index] = NoTool \/ RespIsNewCall(st.tools[f.index], f)

(* A fragment of a call, whatever is open: of the stream, the tools and    *)
(* the calls.                                                              *)
LEMMA CallIsSaid ==
  ASSUME NEW st, NEW v, Sound(st, v), NEW f \in Fragment, f.index # Missing
  PROVE  LET new == ToolCall(st, f)
             i == f.index
         IN  /\ Sound(new, v) /\ Busy(new) /\ i \in Calls /\ HasTool(new, i)
             /\ \A d \in Calls : d # i => new.tools[d] = st.tools[d]
             /\ IsFirst(st, f) =>
                  /\ \E n \in Nat : new.tools[i] = Filled(NewCall(n, f), f)
                  /\ CallEntries(new) = CallEntries(st) \cup {new.tools[i]}
             /\ ~IsFirst(st, f) =>
                  /\ new.tools[i] = Filled(st.tools[i], f)
                  /\ CallEntries(new) = (CallEntries(st) \ {st.tools[i]}) \cup {new.tools[i]}
<1> DEFINE i == f.index
           fresh == RespIsNewCall(st.tools[i], f)
           free == IF fresh THEN CloseTool(st, i) ELSE st
           thought == CloseReasoning(free)
           before == CloseText(thought)
           more == OpenCall(before, i, f)
           opened == IF IsFirst(st, f) THEN more ELSE st
           t == Filled(opened.tools[i], f)
           filled == [opened EXCEPT !.tools[i] = t]
           sent == Built(filled, <<"delta">>, filled.tools[i].oi)
           new == IF f.args = "none" THEN filled ELSE sent
<1>1. ToolCall(st, f) = new
  BY DEF ToolCall, IsFirst
<1>2. i \in Calls /\ f.id \in Calls \cup {NoName} /\ f.of \in Calls
  BY DEF Fragment
<1>3. st.tools \in [Calls -> ItemRecords] /\ st.output \in Seq(ItemRecords)
  BY DEF Sound, RespStates
<1>4. ASSUME IsFirst(st, f)
      PROVE  /\ Sound(more, v) /\ HasTool(more, i)
             /\ \A d \in Calls : d # i => more.tools[d] = st.tools[d]
             /\ \E n \in Nat : more.tools[i] = NewCall(n, f)
             /\ more.tools[i] \in ItemRecords /\ more.tools[i].of = {} /\ more.tools[i].args = "none"
             /\ CallEntries(more) = CallEntries(st)
  <2>1. /\ Sound(free, v) /\ ~HasTool(free, i) /\ CallEntries(free) = CallEntries(st)
        /\ \A d \in Calls : d # i => free.tools[d] = st.tools[d]
    <3>1. CASE fresh
      <4> DEFINE r == CloseTool(st, i)
      <4>1. HasTool(st, i)
        BY <3>1 DEF RespIsNewCall, HasTool
      <4>2. /\ Sound(r, v) /\ r.tools = [st.tools EXCEPT ![i] = NoTool]
            /\ r.output = Append(st.output, st.tools[i])
        BY <1>2, <4>1, ToolCloses
      <4>3. free = r
        BY <3>1
      <4> HIDE DEF r, free, i
      <4>4. CallEntries(r) = CallEntries(st)
        BY <1>2, <1>3, <4>1, <4>2, ClosingKeepsCalls
      <4>5. ~HasTool(r, i) /\ \A d \in Calls : d # i => r.tools[d] = st.tools[d]
        BY <1>2, <1>3, <4>2 DEF HasTool
      <4> QED
        BY <4>2, <4>3, <4>4, <4>5
    <3>2. CASE ~fresh
      <4>1. free = st /\ ~HasTool(st, i)
        BY <1>4, <3>2 DEF IsFirst, HasTool
      <4> HIDE DEF free, i
      <4> QED
        BY <4>1
    <3> QED
      BY <3>1, <3>2
  <2> HIDE DEF free
  <2>2. /\ Sound(thought, v) /\ thought.reasoning = NoItem /\ thought.tools = free.tools
        /\ CallEntries(thought) = CallEntries(free)
    BY <2>1, SpeechCloses
  <2> HIDE DEF thought
  <2>3. /\ Sound(before, v) /\ before.reasoning = NoItem /\ before.text = NoItem
        /\ before.tools = free.tools /\ CallEntries(before) = CallEntries(st)
    BY <2>1, <2>2, SpeechCloses
  <2> HIDE DEF before, i
  <2>4. ~HasTool(before, i)
    BY <2>1, <2>3 DEF HasTool
  <2> DEFINE u == NewCall(before.next_oi, f)
  <2>5. /\ Sound(more, v) /\ more.tools = [before.tools EXCEPT ![i] = u] /\ more.output = before.output
        /\ HasTool(more, i) /\ u \in ItemRecords /\ u.of = {} /\ u.args = "none"
    BY <1>2, <2>3, <2>4, CallOpens
  <2>6. before.next_oi \in Nat /\ before.tools \in [Calls -> ItemRecords]
    BY <2>3 DEF Sound, RespStates
  <2>7. \E n \in Nat : u = NewCall(n, f)
    BY <2>6
  <2> HIDE DEF more, u
  <2>8. more.tools[i] = u /\ \A d \in Calls : d # i => more.tools[d] = before.tools[d]
    BY <1>2, <2>5, <2>6
  <2>9. CallEntries(more) = CallEntries(before)
    BY <1>2, <2>4, <2>5, <2>6, OneToolChanges
  <2> QED
    BY <2>1, <2>3, <2>5, <2>7, <2>8, <2>9
<1>5. /\ Sound(opened, v) /\ HasTool(opened, i) /\ opened.tools[i].args # "thought"
      /\ opened.tools[i] \in ItemRecords
      /\ \A d \in Calls : d # i => opened.tools[d] = st.tools[d]
      /\ CallEntries(opened) = CallEntries(st)
      /\ IsFirst(st, f) => /\ opened.tools[i].of = {}
                           /\ \E n \in Nat : opened.tools[i] = NewCall(n, f)
      /\ ~IsFirst(st, f) => opened = st
  <2>1. CASE IsFirst(st, f)
    <3>1. opened = more
      BY <2>1
    <3> HIDE DEF opened, more, i
    <3>2. more.tools[i].args # "thought"
      BY <1>4, <2>1
    <3> QED
      BY <1>4, <2>1, <3>1, <3>2
  <2>2. CASE ~IsFirst(st, f)
    <3>1. opened = st /\ HasTool(st, i)
      BY <2>2 DEF IsFirst, HasTool
    <3> HIDE DEF opened, i
    <3>2. st.tools[i].args # "thought" /\ st.tools[i] \in ItemRecords
      BY <1>2, <3>1, OpenCallsAreApart
    <3> QED
      BY <2>2, <3>1, <3>2
  <2> QED
    BY <2>1, <2>2
<1> HIDE DEF opened, more, before, thought, free, i
<1>6. /\ t \in ItemRecords /\ t.oi = opened.tools[i].oi /\ t.of = opened.tools[i].of \cup {f.of}
      /\ t.args # "thought" /\ t.of # {}
  <2> DEFINE o == opened.tools[i]
  <2>1. o \in ItemRecords /\ o.args # "thought"
    BY <1>5
  <2> HIDE DEF o
  <2>2. LET x == Filled(o, f)
        IN  x \in ItemRecords /\ x.oi = o.oi /\ x.of = o.of \cup {f.of} /\ x.args # "thought"
    BY <2>1, FilledIs
  <2> QED
    BY <2>2 DEF o
<1>7. t = Filled(opened.tools[i], f)
  OBVIOUS
<1> HIDE DEF t
<1>8. /\ Sound(filled, v) /\ HasTool(filled, i)
      /\ filled.tools = [opened.tools EXCEPT ![i] = t] /\ filled.output = opened.output
  BY <1>2, <1>5, <1>6, CallIsFilled
<1> HIDE DEF filled
<1>9. opened.tools \in [Calls -> ItemRecords]
  BY <1>5 DEF Sound, RespStates
<1>10. filled.tools[i] = t /\ \A d \in Calls : d # i => filled.tools[d] = st.tools[d]
  BY <1>2, <1>5, <1>8, <1>9
<1>11. CallEntries(filled) = (CallEntries(opened) \ {opened.tools[i]}) \cup {t}
  <2>1. /\ \A k \in DOMAIN opened.output : opened.output[k] # opened.tools[i]
        /\ \A d \in Calls : HasTool(opened, d) /\ d # i => opened.tools[d] # opened.tools[i]
    BY <1>2, <1>5, OpenCallsAreApart
  <2> QED
    BY <1>2, <1>5, <1>6, <1>8, <1>9, <2>1, OneToolChanges
<1>12. /\ Sound(new, v) /\ new.tools = filled.tools /\ new.output = filled.output
  <2>1. /\ Sound(sent, v) /\ sent.tools = filled.tools /\ sent.output = filled.output
    BY <1>2, <1>8, DeltaIsSent
  <2>2. new = filled \/ new = sent
    OBVIOUS
  <2> HIDE DEF new, sent
  <2> QED
    BY <1>8, <2>1, <2>2
<1> HIDE DEF new
<1>13. /\ HasTool(new, i) /\ new.tools[i] = t
       /\ \A d \in Calls : d # i => new.tools[d] = st.tools[d]
       /\ CallEntries(new) = (CallEntries(opened) \ {opened.tools[i]}) \cup {t}
  BY <1>8, <1>10, <1>11, <1>12 DEF HasTool, CallEntries
<1>14. Busy(new)
  BY <1>2, <1>13 DEF Busy, Idle
<1>15. ASSUME IsFirst(st, f)
       PROVE  /\ \E n \in Nat : new.tools[i] = Filled(NewCall(n, f), f)
              /\ CallEntries(new) = CallEntries(st) \cup {new.tools[i]}
  <2>1. opened.tools[i] \notin CallEntries(opened)
    BY <1>5, <1>15 DEF CallEntries
  <2> QED
    BY <1>5, <1>7, <1>13, <1>15, <2>1
<1>16. ASSUME ~IsFirst(st, f)
       PROVE  /\ new.tools[i] = Filled(st.tools[i], f)
              /\ CallEntries(new) = (CallEntries(st) \ {st.tools[i]}) \cup {new.tools[i]}
  BY <1>5, <1>7, <1>13, <1>16
<1> QED
  BY <1>1, <1>2, <1>12, <1>13, <1>14, <1>15, <1>16 DEF i

(* Records of items the client knows, each once; and the items they are of. *)
Fits(q, its) ==
  /\ \A k \in DOMAIN q : /\ q[k].oi \in Places(its)
                         /\ q[k].args = "thought" <=> its[q[k].oi + 1].kind = "reasoning"
  /\ \A k, l \in DOMAIN q : q[k].oi = q[l].oi => k = l

(* The items of the records q.                                             *)
Of(q) == {q[k].oi : k \in DOMAIN q}

(* Records of different items, one after the other.                        *)
LEMMA FitsJoined ==
  ASSUME NEW a \in Seq(ItemRecords), NEW b \in Seq(ItemRecords), NEW its, Fits(a, its), Fits(b, its),
         Of(a) \cap Of(b) = {}
  PROVE  a \o b \in Seq(ItemRecords) /\ Fits(a \o b, its) /\ Of(a \o b) = Of(a) \cup Of(b)
<1> DEFINE r == a \o b
           m == Len(a)
           n == Len(b)
<1>1. /\ m \in Nat /\ n \in Nat /\ DOMAIN a = 1..m /\ DOMAIN b = 1..n /\ r \in Seq(ItemRecords)
      /\ DOMAIN r = 1..(m + n)
      /\ \A k \in 1..(m + n) : r[k] = IF k <= m THEN a[k] ELSE b[k - m]
  <2>1. /\ r \in Seq(ItemRecords) /\ Len(r) = Len(a) + Len(b)
        /\ \A k \in 1..(Len(a) + Len(b)) : r[k] = IF k <= Len(a) THEN a[k] ELSE b[k - Len(a)]
    BY ConcatProperties
  <2> HIDE DEF r
  <2>2. DOMAIN r = 1..Len(r)
    BY <2>1
  <2> QED
    BY <2>1, <2>2, LenProperties
<1> HIDE DEF r, m, n
<1>2. ASSUME NEW k \in DOMAIN r
      PROVE  \/ k \in DOMAIN a /\ r[k] = a[k]
             \/ k - m \in DOMAIN b /\ r[k] = b[k - m]
  BY <1>1
<1>3. /\ \A k \in DOMAIN a : k \in DOMAIN r /\ r[k] = a[k]
      /\ \A k \in DOMAIN b : m + k \in DOMAIN r /\ r[m + k] = b[k]
  <2>1. ASSUME NEW k \in DOMAIN a
        PROVE  k \in DOMAIN r /\ r[k] = a[k]
    BY <1>1
  <2>2. ASSUME NEW k \in DOMAIN b
        PROVE  m + k \in DOMAIN r /\ r[m + k] = b[k]
    <3>1. m + k \in 1..(m + n) /\ ~(m + k <= m) /\ (m + k) - m = k
      BY <1>1
    <3> QED
      BY <1>1, <3>1
  <2> QED
    BY <2>1, <2>2
<1>4. Of(r) = Of(a) \cup Of(b)
  <2>1. ASSUME NEW x \in Of(r) PROVE x \in Of(a) \cup Of(b)
    BY <1>2 DEF Of
  <2>2. ASSUME NEW x \in Of(a) \cup Of(b) PROVE x \in Of(r)
    BY <1>3 DEF Of
  <2> QED
    BY <2>1, <2>2
<1>5. \A k \in DOMAIN r : /\ r[k].oi \in Places(its)
                          /\ r[k].args = "thought" <=> its[r[k].oi + 1].kind = "reasoning"
  BY <1>2 DEF Fits
<1>6. ASSUME NEW k \in DOMAIN r, NEW l \in DOMAIN r, r[k].oi = r[l].oi
      PROVE  k = l
  <2>1. CASE k \in DOMAIN a /\ r[k] = a[k] /\ l \in DOMAIN a /\ r[l] = a[l]
    BY <1>6, <2>1 DEF Fits
  <2>2. CASE k - m \in DOMAIN b /\ r[k] = b[k - m] /\ l - m \in DOMAIN b /\ r[l] = b[l - m]
    <3>1. k - m = l - m
      BY <1>6, <2>2 DEF Fits
    <3> QED
      BY <1>1, <3>1
  <2>3. CASE k \in DOMAIN a /\ r[k] = a[k] /\ l - m \in DOMAIN b /\ r[l] = b[l - m]
    <3>1. r[k].oi \in Of(a) /\ r[l].oi \in Of(b)
      BY <2>3 DEF Of
    <3> QED
      BY <1>6, <3>1
  <2>4. CASE l \in DOMAIN a /\ r[l] = a[l] /\ k - m \in DOMAIN b /\ r[k] = b[k - m]
    <3>1. r[l].oi \in Of(a) /\ r[k].oi \in Of(b)
      BY <2>4 DEF Of
    <3> QED
      BY <1>6, <3>1
  <2> QED
    BY <1>2, <2>1, <2>2, <2>3, <2>4
<1>7. Fits(r, its)
  BY <1>5, <1>6 DEF Fits
<1> QED
  BY <1>1, <1>4, <1>7 DEF r

(* What finalize_holder makes of records of every item but the thoughts.   *)
IsSent(h, its) ==
  /\ {h[j].oi : j \in DOMAIN h} = {i \in 0..(Len(its) - 1) : its[i + 1].kind # "reasoning"}
  /\ \A j, k \in DOMAIN h : j < k => h[j].oi < h[k].oi

(* Sorted and without thoughts they are what was sent.                     *)
LEMMA FittingIsSent ==
  ASSUME NEW q \in Seq(ItemRecords), NEW its \in Seq(ItemStates), Fits(q, its),
         \A i \in Places(its) : its[i + 1].kind # "reasoning" => i \in Of(q)
  PROVE  IsSent(Transcript(q), its)
<1> DEFINE kept == {k \in DOMAIN q : q[k].args # "thought"}
           n == Cardinality(kept)
           h == Transcript(q)
<1>1. PICK at \in [1..n -> kept] :
        /\ \A k \in kept : \E j \in 1..n : at[j] = k
        /\ \A i, j \in 1..n : at[i] = at[j] => i = j
        /\ \A i, j \in 1..n : i < j => q[at[i]].oi <= q[at[j]].oi
        /\ h = [j \in 1..n |-> q[at[j]]]
  BY TranscriptOnce
<1>2. n \in Nat
  BY TranscriptOnce
<1>3. \A k \in DOMAIN q : q[k].oi \in Places(its) /\ q[k].oi \in Int
  BY DEF Fits, Places
<1> HIDE DEF h, n
<1>4. DOMAIN h = 1..n /\ \A j \in 1..n : h[j] = q[at[j]] /\ at[j] \in kept
  BY <1>1
<1>5. {h[j].oi : j \in DOMAIN h} = {i \in Places(its) : its[i + 1].kind # "reasoning"}
  <2>1. ASSUME NEW j \in DOMAIN h
        PROVE  h[j].oi \in Places(its) /\ its[h[j].oi + 1].kind # "reasoning"
    BY <1>4 DEF Fits
  <2>2. ASSUME NEW i \in Places(its), its[i + 1].kind # "reasoning"
        PROVE  \E j \in DOMAIN h : h[j].oi = i
    <3>1. PICK k \in DOMAIN q : q[k].oi = i
      BY <2>2 DEF Of
    <3>2. k \in kept
      BY <2>2, <3>1 DEF Fits
    <3>3. PICK j \in 1..n : at[j] = k
      BY <1>1, <3>2
    <3> QED
      BY <1>4, <3>1, <3>3
  <2> QED
    BY <2>1, <2>2
<1>6. ASSUME NEW j \in DOMAIN h, NEW k \in DOMAIN h, j < k
      PROVE  h[j].oi < h[k].oi
  <2>1. q[at[j]].oi <= q[at[k]].oi /\ at[j] # at[k] /\ at[j] \in DOMAIN q /\ at[k] \in DOMAIN q
    BY <1>1, <1>2, <1>4, <1>6
  <2>2. q[at[j]].oi # q[at[k]].oi
    BY <2>1 DEF Fits
  <2> QED
    BY <1>3, <1>4, <2>1, <2>2
<1> QED
  BY <1>5, <1>6 DEF IsSent, h, Places

(* Of a stream that ended, and of one the client left.                     *)
LEMMA EndIsSent ==
  ASSUME NEW st \in RespStates, NEW w, Agrees(st, w), Idle(st)
  PROVE  /\ IsSent(Transcript(st.output), w.items)
         /\ \A i \in Places(w.items) : w.items[i + 1].part = "done"
<1>1. /\ w.items \in Seq(ItemStates) /\ st.output \in Seq(ItemRecords)
      /\ OutputAgrees(st.output, w.items) /\ PartsAgree(st, w.items)
  BY DEF Agrees, Tellings, RespStates
<1>2. \A i \in Places(w.items) : i # NoItem
  BY DEF Places, NoItem
<1>3. \A i \in Places(w.items) : w.items[i + 1].part = "done"
  BY <1>1, <1>2 DEF PartsAgree, Idle
<1>4. Fits(st.output, w.items) /\ \A i \in Places(w.items) : i \in Of(st.output)
  BY <1>1, <1>3 DEF Fits, OutputAgrees, Of
<1> QED
  BY <1>1, <1>3, <1>4, FittingIsSent

(* What is stored of a stream the client left has the open items as well.  *)
LEMMA PartialIsSent ==
  ASSUME NEW st \in RespStates, NEW w, Agrees(st, w),
         rs.text = st.text, rs.tools = st.tools, rs.tool_order = st.tool_order, rs.output = st.output
  PROVE  IsSent(Partial, w.items)
<1> DEFINE its == w.items
           q == OpenTools(rs)
           a == rs.output
           b == IF rs.text = NoItem THEN <<>> ELSE <<Entry(rs.text)>>
           c == CallItems(rs, q, Len(q))
<1>1. /\ its \in Seq(ItemStates) /\ a \in Seq(ItemRecords) /\ rs.tools \in [Calls -> ItemRecords]
      /\ rs.tool_order \in Seq(Calls) /\ rs.text \in Nat \cup {NoItem}
      /\ OutputAgrees(a, its) /\ PartsAgree(st, its) /\ ToolsAgree(st, its) /\ OneAtATimeIn(st)
  BY DEF Agrees, Tellings, RespStates
<1>2. /\ q \in Seq(Calls)
      /\ \A i, j \in DOMAIN q : q[i] = q[j] => i = j
      /\ \A d \in Calls : (\E j \in DOMAIN q : q[j] = d) <=>
           /\ rs.tools[d] # NoTool
           /\ \E k \in DOMAIN rs.tool_order : rs.tool_order[k] = d
  BY <1>1, OpenToolsOnce
<1>3. Partial = Transcript((a \o b) \o c)
  <2>1. DOMAIN q = 1..Len(q)
    BY <1>2
  <2>2. c = [n \in DOMAIN q |-> rs.tools[q[n]]]
    BY <2>1 DEF CallItems
  <2> HIDE DEF c
  <2> QED
    BY <2>2 DEF Partial
<1> HIDE DEF q, its
<1>4. \A d \in Calls : HasTool(st, d) <=> \E j \in DOMAIN q : q[j] = d
  BY <1>1, <1>2, SMTT(30) DEF HasTool, ToolsAgree
<1>5. /\ b \in Seq(ItemRecords) /\ Fits(b, its) /\ Of(b) = {rs.text} \ {NoItem}
  <2>1. CASE rs.text = NoItem
    BY <2>1 DEF Fits, Of
  <2>2. CASE rs.text # NoItem
    <3> DEFINE e == Entry(rs.text)
    <3>1. e \in ItemRecords /\ e.oi = rs.text /\ e.args = "none"
      BY <1>1, <2>2 DEF Entry, NoTool, NoName, ItemRecords, ItemArgs
    <3>2. rs.text \in Places(its) /\ its[rs.text + 1].kind = "message"
      BY <1>1, <2>2 DEF PartsAgree
    <3>3. b = <<e>>
      BY <2>2
    <3> HIDE DEF e
    <3>4. <<e>> \in Seq(ItemRecords) /\ DOMAIN <<e>> = {1} /\ <<e>>[1] = e
      BY <3>1
    <3>5. Fits(<<e>>, its)
      BY <3>1, <3>2, <3>4 DEF Fits
    <3>6. Of(<<e>>) = {rs.text}
      BY <3>1, <3>4 DEF Of
    <3> QED
      BY <2>2, <3>3, <3>4, <3>5, <3>6
  <2> QED
    BY <2>1, <2>2
<1>6. /\ c \in Seq(ItemRecords) /\ Fits(c, its) /\ Of(c) = {st.tools[d].oi : d \in {e \in Calls : HasTool(st, e)}}
  <2> DEFINE n == Len(q)
  <2>1. /\ n \in Nat /\ DOMAIN q = 1..n /\ DOMAIN c = 1..n
        /\ \A k \in 1..n : q[k] \in Calls /\ c[k] = st.tools[q[k]] /\ c[k] \in ItemRecords
    BY <1>1, <1>2 DEF CallItems
  <2>2. c = [k \in 1..n |-> c[k]]
    BY DEF CallItems
  <2> HIDE DEF n, c
  <2>3. c \in [1..n -> ItemRecords]
    BY <2>1, <2>2
  <2>4. c \in Seq(ItemRecords)
    BY <2>1, <2>3
  <2>5. \A k \in 1..n : HasTool(st, q[k])
    BY <1>4, <2>1
  <2>6. \A k \in DOMAIN c : /\ c[k].oi \in Places(its)
                            /\ c[k].args # "thought" /\ its[c[k].oi + 1].kind = "call"
    BY <1>1, <2>1, <2>5 DEF ToolsAgree
  <2>7. \A k, l \in DOMAIN c : c[k].oi = c[l].oi => k = l
    BY <1>1, <1>2, <2>1, <2>5 DEF ToolsAgree
  <2>8. Fits(c, its)
    BY <2>6, <2>7 DEF Fits
  <2>9. ASSUME NEW d \in Calls, HasTool(st, d)
        PROVE  \E k \in DOMAIN c : c[k].oi = st.tools[d].oi
    BY <1>4, <2>1, <2>9
  <2>10. Of(c) = {st.tools[d].oi : d \in {e \in Calls : HasTool(st, e)}}
    BY <2>1, <2>5, <2>9 DEF Of
  <2> QED
    BY <2>4, <2>8, <2>10
<1>7. /\ Fits(a, its)
      /\ \A i \in Places(its) : its[i + 1].part = "done" => i \in Of(a)
      /\ \A i \in Of(a) : i \in Places(its) /\ its[i + 1].part = "done"
  BY <1>1 DEF OutputAgrees, Fits, Of
<1> HIDE DEF a, b, c
<1>8. Of(a) \cap Of(b) = {}
  BY <1>1, <1>5, <1>7 DEF PartsAgree
<1>9. a \o b \in Seq(ItemRecords) /\ Fits(a \o b, its) /\ Of(a \o b) = Of(a) \cup Of(b)
  BY <1>1, <1>5, <1>7, <1>8, FitsJoined
<1>10. Of(a \o b) \cap Of(c) = {}
  <2>1. \A i \in Of(c) : i \in Places(its) /\ its[i + 1].part = "none"
    BY <1>1, <1>6 DEF ToolsAgree
  <2>2. \A i \in Of(b) : its[i + 1].part = "open"
    BY <1>1, <1>5 DEF PartsAgree
  <2>3. \A i \in Of(a \o b) : its[i + 1].part \in {"done", "open"}
    BY <1>7, <1>9, <2>2
  <2> QED
    BY <2>1, <2>3
<1> DEFINE ab == a \o b
           all == ab \o c
<1>11. all \in Seq(ItemRecords) /\ Fits(all, its) /\ Of(all) = Of(ab) \cup Of(c)
  <2> HIDE DEF ab
  <2>1. ab \in Seq(ItemRecords) /\ Fits(ab, its) /\ Of(ab) \cap Of(c) = {}
    BY <1>9, <1>10 DEF ab
  <2> QED
    BY <1>6, <2>1, FitsJoined
<1>12. ASSUME NEW i \in Places(its), its[i + 1].kind # "reasoning"
       PROVE  i \in Of(all)
  <2>1. i # NoItem
    BY DEF Places, NoItem
  <2>2. CASE its[i + 1].part = "done"
    BY <1>7, <1>9, <1>11, <2>2
  <2>3. CASE its[i + 1].part # "done"
    <3>1. i = st.reasoning \/ i = st.text \/ \E d \in Calls : HasTool(st, d) /\ st.tools[d].oi = i
      BY <1>1, <2>3 DEF PartsAgree
    <3>2. i # st.reasoning
      BY <1>1, <1>12, <2>1 DEF PartsAgree
    <3> QED
      BY <1>5, <1>6, <1>9, <1>11, <2>1, <3>1, <3>2
  <2> QED
    BY <2>2, <2>3
<1> HIDE DEF all
<1>13. IsSent(Transcript(all), its)
  BY <1>1, <1>11, <1>12, FittingIsSent
<1> QED
  BY <1>3, <1>13 DEF all, its, ab

(* The generator between two steps: its state, and what it has built of the *)
(* stream that the client has not heard yet.                               *)
Standing == [seq |-> rs.seq, next_oi |-> rs.next_oi, reasoning |-> rs.reasoning, text |-> rs.text,
             kind |-> rs.kind, tools |-> rs.tools, tool_order |-> rs.tool_order,
             output |-> rs.output, out |-> rtodo]

(* The inductive invariant of the reading: the way from what the client    *)
(* has heard to where the bridge believes it to be, and what is open at    *)
(* each stage.                                                             *)
ReadInv ==
  /\ gen \in {"run", "close", "ended", "failed", "cancelled"}
  /\ rtodo \in Seq(EventRecords)
  /\ \E w : Brings(rtodo, Hearing, w)
  /\ gen \in {"run", "close"} => Sound(Standing, Hearing)
  /\ gen = "run" => Busy(Standing)
  /\ gen = "close" => Idle(Standing)
  /\ gen = "cancelled" => rtodo = <<>>
  /\ gen = "ended" => \A k \in DOMAIN rtodo : rtodo[k].type = "completed"
  /\ gen \in {"ended", "cancelled"} => IsSent(holder, items)

(* The fields of what the client has heard.                                *)
LEMMA HearingIs == /\ Hearing.phase = phase /\ Hearing.items = items /\ Hearing.number = heard.number
                   /\ Hearing \in Tellings => items \in Seq(ItemStates)
  BY DEF Hearing, Told, Tellings

(* A handler of the generator leaves a state and what it has built.        *)
LEMMA StandingBecomes ==
  ASSUME NEW st, st \in RespStates, RespBecame(st)
  PROVE  Standing' = st /\ rtodo' = st.out /\ Hearing' = Hearing /\ items' = items
<1> DEFINE new == [seq |-> st.seq, next_oi |-> st.next_oi, reasoning |-> st.reasoning, text |-> st.text,
                   kind |-> st.kind, tools |-> st.tools, tool_order |-> st.tool_order,
                   output |-> st.output, out |-> st.out]
<1>1. Standing' = new
  BY DEF Standing, RespBecame
<1>2. new = st
  BY DEF RespStates
<1>3. rtodo' = st.out /\ Hearing' = Hearing /\ items' = items
  BY DEF RespBecame, Hearing, Told
<1> QED
  BY <1>1, <1>2, <1>3

(* What a sound state holds is typed.                                      *)
LEMMA SoundBrings ==
  ASSUME NEW st, NEW v, Sound(st, v)
  PROVE  st \in RespStates /\ st.out \in Seq(EventRecords) /\ v \in Tellings /\ \E w : Brings(st.out, v, w)
<1>1. PICK w : Brings(st.out, v, w)
  BY DEF Sound
<1>2. st \in RespStates /\ st.out \in Seq(EventRecords)
  BY DEF Sound, RespStates
<1>3. v \in Tellings
  BY <1>1, <1>2, BringsTypes
<1> QED
  BY <1>1, <1>2, <1>3

(* When nothing is left to send, the client is where the bridge believes.  *)
LEMMA NothingLeft ==
  ASSUME ReadInv, rtodo = <<>>, gen \in {"run", "close"}
  PROVE  /\ RespStarted = Standing /\ Sound(RespStarted, Hearing)
         /\ Standing \in RespStates /\ Agrees(Standing, Hearing)
<1>1. RespStarted = Standing
  BY DEF RespStarted, Standing
<1>2. Sound(Standing, Hearing)
  BY DEF ReadInv
<1>3. PICK w : Agrees(Standing, w) /\ Brings(Standing.out, Hearing, w)
  BY <1>2 DEF Sound
<1>4. Standing.out = <<>>
  BY DEF Standing
<1>5. Hearing = w
  <2>1. Standing.out \in Seq(EventRecords)
    BY <1>2, SoundBrings
  <2> QED
    BY <1>3, <1>4, <2>1, BringsTypes
<1> QED
  BY <1>1, <1>2, <1>3, <1>5 DEF Sound

(* Every step keeps it: a chunk of speech,                                 *)
LEMMA SaysReads ==
  ASSUME ReadInv, NEW kind \in {"reasoning", "text", "refusal"}, RespSays(kind)
  PROVE  ReadInv' /\ Hearing' = Hearing
<1> DEFINE st == IF kind = "reasoning" THEN RespReasoning(RespStarted) ELSE SpeechOf(RespStarted, kind)
<1>1. /\ gen = "run" /\ rtodo = <<>> /\ RespBecame(st) /\ gen' = gen /\ holder' = holder
  BY DEF RespSays, RespPulling
<1>2. RespStarted = Standing /\ Sound(RespStarted, Hearing) /\ Busy(RespStarted)
  BY <1>1, NothingLeft DEF ReadInv
<1>3. Sound(st, Hearing) /\ Busy(st)
  <2>1. CASE kind = "reasoning"
    BY <1>2, <2>1, ThoughtsAreSaid
  <2>2. CASE kind \in {"text", "refusal"}
    BY <1>2, <2>2, SpeechIsSaid
  <2> QED
    BY <2>1, <2>2
<1> HIDE DEF st
<1>4. st \in RespStates /\ st.out \in Seq(EventRecords) /\ \E w : Brings(st.out, Hearing, w)
  BY <1>3, SoundBrings
<1>5. Standing' = st /\ rtodo' = st.out /\ Hearing' = Hearing
  BY <1>1, <1>4, StandingBecomes
<1> QED
  BY <1>1, <1>3, <1>4, <1>5 DEF ReadInv

(* a fragment of a call,                                                   *)
LEMMA CallChunkReads ==
  ASSUME ReadInv, NEW f \in Fragment, RespCallChunk(f)
  PROVE  ReadInv' /\ Hearing' = Hearing
<1> DEFINE st == IF f.index = Missing THEN RespStarted ELSE ToolCall(RespStarted, f)
<1>1. /\ gen = "run" /\ rtodo = <<>> /\ RespBecame(st) /\ gen' = gen /\ holder' = holder
  BY DEF RespCallChunk, RespPulling
<1>2. RespStarted = Standing /\ Sound(RespStarted, Hearing) /\ Busy(RespStarted)
  BY <1>1, NothingLeft DEF ReadInv
<1>3. Sound(st, Hearing) /\ Busy(st)
  BY <1>2, CallIsSaid
<1> HIDE DEF st
<1>4. st \in RespStates /\ st.out \in Seq(EventRecords) /\ \E w : Brings(st.out, Hearing, w)
  BY <1>3, SoundBrings
<1>5. Standing' = st /\ rtodo' = st.out /\ Hearing' = Hearing
  BY <1>1, <1>4, StandingBecomes
<1> QED
  BY <1>1, <1>3, <1>4, <1>5 DEF ReadInv

(* the end of the chunks,                                                  *)
LEMMA ExhaustedReads ==
  ASSUME ReadInv, RespExhausted
  PROVE  ReadInv' /\ Hearing' = Hearing
<1> DEFINE st == RespClosed(RespStarted)
<1>1. /\ gen = "run" /\ rtodo = <<>> /\ RespBecame(st) /\ gen' = "close" /\ holder' = holder
  BY DEF RespExhausted, RespPulling
<1>2. Sound(RespStarted, Hearing)
  BY <1>1, NothingLeft
<1>3. Sound(st, Hearing) /\ Idle(st)
  BY <1>2, EverythingCloses
<1> HIDE DEF st
<1>4. st \in RespStates /\ st.out \in Seq(EventRecords) /\ \E w : Brings(st.out, Hearing, w)
  BY <1>3, SoundBrings
<1>5. Standing' = st /\ rtodo' = st.out /\ Hearing' = Hearing
  BY <1>1, <1>4, StandingBecomes
<1> QED
  BY <1>1, <1>3, <1>4, <1>5 DEF ReadInv

(* The last event.                                                         *)
LEMMA LastEvent ==
  ASSUME NEW st, st \in RespStates, st.out = <<>>, NEW type \in {"completed", "failed"},
         NEW w, Agrees(st, w),
         type = "completed" => \A i \in Places(w.items) : w.items[i + 1].part = "done"
  PROVE  LET new == Built(st, <<type>>, -1)
             e == Reader!Event(type, -1, st.seq)
         IN  /\ new.out = <<e>> /\ e.type = type /\ <<e>> \in Seq(EventRecords)
             /\ new \in RespStates /\ \E z : Brings(<<e>>, w, z)
<1> DEFINE e == Reader!Event(type, -1, st.seq)
           new == [st EXCEPT !.seq = st.seq + 1, !.out = <<e>>]
           z == Told("over", w.items, st.seq)
<1>1. st.seq \in Nat /\ w \in Tellings /\ w.phase = "running" /\ w.number = st.seq - 1
  BY DEF RespStates, Agrees
<1>2. e \in EventRecords /\ e.type = type /\ e.item = -1 /\ e.number = st.seq
  BY <1>1 DEF EventRecords, Types, Reader!Event
<1>3. Built(st, <<type>>, -1) = new
  <2>1. [j \in DOMAIN <<type>> |-> Reader!Event(<<type>>[j], -1, st.seq + j - 1)] = <<e>>
    BY <1>1
  <2>2. Len(<<type>>) = 1 /\ <<>> \o <<e>> = <<e>>
    OBVIOUS
  <2> HIDE DEF e
  <2> QED
    BY <2>1, <2>2 DEF Built
<1>4. /\ z \in Tellings /\ z.phase = "over" /\ z.items = w.items /\ z.number = st.seq
  BY <1>1 DEF Told, Tellings
<1> HIDE DEF e, z
<1>5. TellsPhase(w, e, z)
  BY <1>1, <1>2, <1>4 DEF TellsPhase
<1>6. Tells(w, e, z)
  BY <1>1, <1>2, <1>4, <1>5 DEF Tells
<1>7. Brings(<<e>>, w, z)
  BY <1>1, <1>2, <1>4, <1>6, BringsBy
<1>8. new \in RespStates /\ new.out = <<e>>
  <2>1. <<e>> \in Seq(EventRecords) /\ st.seq + 1 \in Nat
    BY <1>1, <1>2
  <2> QED
    BY <2>1 DEF RespStates
<1>9. <<e>> \in Seq(EventRecords)
  BY <1>2
<1> QED
  BY <1>2, <1>3, <1>7, <1>8, <1>9 DEF e

(* the end of the stream,                                                  *)
LEMMA FinishReads ==
  ASSUME ReadInv, RespFinish
  PROVE  ReadInv' /\ Hearing' = Hearing
<1> DEFINE st == Built(RespStarted, <<"completed">>, -1)
           e == Reader!Event("completed", -1, RespStarted.seq)
<1>1. /\ gen = "close" /\ rtodo = <<>> /\ RespBecame(st) /\ gen' = "ended"
      /\ holder' = Transcript(rs.output)
  BY DEF RespFinish
<1>2. /\ RespStarted = Standing /\ Standing \in RespStates /\ Agrees(Standing, Hearing) /\ Idle(Standing)
      /\ Standing.out = <<>> /\ Standing.output = rs.output
  <2>1. Standing.out = <<>> /\ Standing.output = rs.output
    BY <1>1 DEF Standing
  <2> QED
    BY <1>1, <2>1, NothingLeft DEF ReadInv
<1>3. IsSent(holder', items) /\ \A i \in Places(Hearing.items) : Hearing.items[i + 1].part = "done"
  BY <1>1, <1>2, EndIsSent, HearingIs
<1>4. /\ st.out = <<e>> /\ e.type = "completed" /\ <<e>> \in Seq(EventRecords)
      /\ st \in RespStates /\ \E z : Brings(<<e>>, Hearing, z)
  BY <1>2, <1>3, LastEvent
<1> HIDE DEF st, e
<1>5. rtodo' = st.out /\ Hearing' = Hearing /\ items' = items
  BY <1>1, <1>4, StandingBecomes
<1>6. \A k \in DOMAIN rtodo' : rtodo'[k].type = "completed"
  BY <1>4, <1>5
<1> QED
  BY <1>1, <1>3, <1>4, <1>5, <1>6 DEF ReadInv

(* an error of the upstream,                                               *)
LEMMA UpstreamErrorReads ==
  ASSUME ReadInv, RespUpstreamError
  PROVE  ReadInv' /\ Hearing' = Hearing
<1> DEFINE st == Built(RespStarted, <<"failed">>, -1)
           e == Reader!Event("failed", -1, RespStarted.seq)
<1>1. /\ gen = "run" /\ rtodo = <<>> /\ RespBecame(st) /\ gen' = "failed"
  BY DEF RespUpstreamError, RespPulling
<1>2. /\ RespStarted = Standing /\ Standing \in RespStates /\ Agrees(Standing, Hearing)
      /\ Standing.out = <<>>
  <2>1. Standing.out = <<>>
    BY <1>1 DEF Standing
  <2> QED
    BY <1>1, <2>1, NothingLeft
<1>3. /\ st.out = <<e>> /\ <<e>> \in Seq(EventRecords)
      /\ st \in RespStates /\ \E z : Brings(<<e>>, Hearing, z)
  BY <1>2, LastEvent
<1> HIDE DEF st, e
<1>4. rtodo' = st.out /\ Hearing' = Hearing
  BY <1>1, <1>3, StandingBecomes
<1> QED
  BY <1>1, <1>3, <1>4 DEF ReadInv

(* a client that goes away,                                                *)
LEMMA CancelledReads ==
  ASSUME ReadInv, RespCancelled
  PROVE  ReadInv' /\ Hearing' = Hearing
<1>1. /\ gen = "run" /\ rtodo = <<>> /\ gen' = "cancelled" /\ holder' = Partial
      /\ UNCHANGED <<rtodo, items>>
  BY DEF RespCancelled, RespPulling
<1>2. Hearing' = Hearing
  BY DEF RespCancelled, Hearing, Told
<1>3. Standing \in RespStates /\ Agrees(Standing, Hearing)
  BY <1>1, NothingLeft
<1>4. IsSent(Partial, items)
  <2>1. rs.text = Standing.text /\ rs.tools = Standing.tools /\ rs.tool_order = Standing.tool_order
        /\ rs.output = Standing.output
    BY DEF Standing
  <2> QED
    BY <1>3, <2>1, PartialIsSent, HearingIs
<1> QED
  BY <1>1, <1>2, <1>4 DEF ReadInv

(* an exception,                                                           *)
LEMMA RaisedReads ==
  ASSUME ReadInv, RespRaised
  PROVE  ReadInv' /\ Hearing' = Hearing
<1> DEFINE e == Reader!Event("failed", -1, NextNumber)
           z == Told("over", items, NextNumber)
<1>1. gen \in {"run", "close"} /\ gen' = "failed" /\ rtodo' = <<e>>
  BY DEF RespRaised
<1>2. Hearing' = Hearing
  BY DEF RespRaised, Hearing, Told
<1>3. PICK w : Agrees(Standing, w) /\ Brings(Standing.out, Hearing, w)
  BY <1>1 DEF ReadInv, Sound
<1>4. Standing.out = rtodo /\ rtodo \in Seq(EventRecords) /\ Hearing \in Tellings
  <2>1. Standing.out = rtodo
    BY DEF Standing
  <2> QED
    BY <1>3, <2>1, BringsTypes DEF ReadInv
<1>5. Hearing.phase # "over"
  <2>1. CASE rtodo = <<>>
    BY <1>3, <1>4, <2>1, BringsTypes DEF Agrees
  <2>2. CASE rtodo # <<>>
    <3>1. PICK u \in Tellings : Tells(Hearing, Head(rtodo), u)
      BY <1>3, <1>4, <2>2, BringsFirst
    <3> QED
      BY <3>1 DEF Tells, TellsPhase, TellsNew, TellsOf
  <2> QED
    BY <2>1, <2>2
<1>6. NextNumber = Hearing.number + 1 /\ Hearing.number \in Int /\ Hearing.items = items
      /\ items \in Seq(ItemStates)
  BY <1>4, HearingIs DEF NextNumber, Tellings
<1>7. /\ e \in EventRecords /\ e.type = "failed" /\ e.item = -1 /\ e.number = NextNumber
      /\ z \in Tellings /\ z.phase = "over" /\ z.items = items /\ z.number = NextNumber
  BY <1>6 DEF EventRecords, Types, Reader!Event, Told, Tellings
<1> HIDE DEF e, z
<1>8. Tells(Hearing, e, z)
  BY <1>5, <1>6, <1>7 DEF Tells, TellsPhase
<1>9. Brings(<<e>>, Hearing, z) /\ <<e>> \in Seq(EventRecords)
  BY <1>4, <1>7, <1>8, BringsBy
<1> QED
  BY <1>1, <1>2, <1>9 DEF ReadInv

(* and the yield of an event, a step of the client.                        *)
LEMMA YieldReads ==
  ASSUME ReadInv, RespYield
  PROVE  ReadInv' /\ Reader!Next
<1> DEFINE e == Head(rtodo)
           q == Tail(rtodo)
<1>1. /\ rtodo # <<>> /\ rtodo' = q /\ gen' = gen /\ holder' = holder /\ rs' = rs /\ heard' = e
      /\ items' = CASE e.type \in Reader!Kinds -> Append(items, [kind |-> e.type, part |-> "none"])
                    [] e.type = "part.added" -> [items EXCEPT ![e.item + 1].part = "open"]
                    [] e.type = "part.done" -> [items EXCEPT ![e.item + 1].part = "closed"]
                    [] e.type = "item.done" -> [items EXCEPT ![e.item + 1].part = "done"]
                    [] OTHER -> items
      /\ phase' = CASE e.type = "created" -> "created" [] e.type \in {"completed", "failed"} -> "over"
                     [] OTHER -> "running"
  BY DEF RespYield
<1>2. rtodo \in Seq(EventRecords) /\ e \in EventRecords /\ q \in Seq(EventRecords)
  <2>1. rtodo \in Seq(EventRecords)
    BY DEF ReadInv
  <2> QED
    BY <1>1, <2>1, HeadTailProperties
<1> HIDE DEF e, q
<1>3. ASSUME NEW w, Brings(rtodo, Hearing, w)
      PROVE  Brings(q, Hearing', w) /\ Reader!Next
  <2>1. PICK u \in Tellings : Tells(Hearing, e, u) /\ Brings(q, u, w)
    BY <1>1, <1>2, <1>3, BringsFirst DEF e, q
  <2>2. Hearing \in Tellings
    BY <1>2, <1>3, BringsTypes
  <2>3. Reader!Next /\ Hearing' = u
    BY <1>1, <1>2, <2>1, <2>2, YieldedIsRead
  <2> QED
    BY <2>1, <2>3
<1>4. PICK w : Brings(rtodo, Hearing, w)
  BY DEF ReadInv
<1>5. Brings(q, Hearing', w) /\ Reader!Next
  BY <1>3, <1>4
<1>6. ASSUME gen \in {"run", "close"}
      PROVE  /\ Sound(Standing', Hearing')
             /\ Busy(Standing) => Busy(Standing')
             /\ Idle(Standing) => Idle(Standing')
  <2> DEFINE old == Standing
             new == [old EXCEPT !.out = q]
  <2>1. Standing' = new
    BY <1>1 DEF Standing
  <2>2. PICK x : Agrees(old, x) /\ Brings(old.out, Hearing, x)
    BY <1>6 DEF ReadInv, Sound
  <2>3. old \in RespStates /\ old.out = rtodo
    BY <1>6 DEF ReadInv, Sound, Standing
  <2> HIDE DEF old
  <2>4. /\ new \in RespStates /\ new.out = q /\ new.seq = old.seq /\ new.next_oi = old.next_oi
        /\ new.reasoning = old.reasoning /\ new.text = old.text /\ new.kind = old.kind
        /\ new.tools = old.tools /\ new.tool_order = old.tool_order /\ new.output = old.output
    BY <1>2, <2>3 DEF RespStates
  <2> HIDE DEF new
  <2>5. Agrees(new, x)
    BY <2>2, <2>4 DEF Agrees, OneAtATimeIn, ToolsAgree, PartsAgree, HasTool
  <2>6. Brings(q, Hearing', x)
    BY <1>3, <2>2, <2>3
  <2>7. (Busy(old) => Busy(new)) /\ (Idle(old) => Idle(new))
    BY <2>4 DEF Busy, Idle, HasTool
  <2>8. Sound(new, Hearing')
    BY <2>4, <2>5, <2>6 DEF Sound
  <2> QED
    BY <2>1, <2>7, <2>8 DEF old
<1>7. gen # "cancelled"
  BY <1>1 DEF ReadInv
<1>8. ASSUME gen = "ended"
      PROVE  items' = items /\ \A k \in DOMAIN q : q[k].type = "completed"
  <2>1. \A k \in DOMAIN rtodo : rtodo[k].type = "completed"
    BY <1>8 DEF ReadInv
  <2>2. /\ Len(rtodo) \in Nat /\ Len(rtodo) > 0 /\ DOMAIN rtodo = 1..Len(rtodo) /\ e = rtodo[1]
        /\ DOMAIN q = 1..(Len(rtodo) - 1) /\ \A k \in 1..(Len(rtodo) - 1) : q[k] = rtodo[k + 1]
    <3>1. Len(rtodo) \in Nat /\ Len(rtodo) > 0 /\ DOMAIN rtodo = 1..Len(rtodo)
      BY <1>1, <1>2, EmptySeq, LenProperties
    <3>2. e = rtodo[1]
      BY <1>1, <1>2 DEF e
    <3>3. Len(q) = Len(rtodo) - 1 /\ \A k \in 1..(Len(rtodo) - 1) : q[k] = rtodo[k + 1]
      BY <1>1, <1>2, <3>1, HeadTailProperties DEF q
    <3>4. DOMAIN q = 1..Len(q)
      BY <1>2
    <3> QED
      BY <3>1, <3>2, <3>3, <3>4
  <2>3. e.type = "completed"
    BY <2>1, <2>2
  <2>4. items' = items
    BY <1>1, <2>3 DEF Reader!Kinds
  <2>5. \A k \in 1..(Len(rtodo) - 1) : k + 1 \in 1..Len(rtodo)
    BY <2>2
  <2>6. \A k \in DOMAIN q : q[k].type = "completed"
    BY <2>1, <2>2, <2>5
  <2> QED
    BY <2>4, <2>6
<1>9. /\ gen' \in {"run", "close", "ended", "failed", "cancelled"} /\ rtodo' \in Seq(EventRecords)
      /\ \E x : Brings(rtodo', Hearing', x)
  BY <1>1, <1>2, <1>5 DEF ReadInv
<1>10. ReadInv'
  BY <1>1, <1>6, <1>7, <1>8, <1>9 DEF ReadInv
<1> QED
  BY <1>5, <1>10

(* Two events are one after the other.                                     *)
LEMMA TwoInARow ==
  ASSUME NEW S, NEW a \in S, NEW b \in S
  PROVE  <<a>> \o <<b>> = <<a, b>>
<1>1. <<a>> \in Seq(S) /\ <<b>> \in Seq(S) /\ Len(<<a>>) = 1 /\ Len(<<b>>) = 1
  OBVIOUS
<1>2. (<<a>> \o <<b>>)[1] = a /\ (<<a>> \o <<b>>)[2] = b
  BY <1>1, ConcatProperties
<1>3. <<a>> \o <<b>> \in Seq(S) /\ Len(<<a>> \o <<b>>) = 2
  BY <1>1, ConcatProperties
<1>4. <<a, b>> \in Seq(S) /\ Len(<<a, b>>) = 2 /\ <<a, b>>[1] = a /\ <<a, b>>[2] = b
  OBVIOUS
<1> DEFINE r == <<a>> \o <<b>>
           t == <<a, b>>
<1>5. \A i \in 1..Len(r) : r[i] = t[i]
  <2>1. \A i \in 1..2 : i = 1 \/ i = 2
    OBVIOUS
  <2> HIDE DEF r, t
  <2> QED
    BY <1>2, <1>3, <1>4, <2>1 DEF r, t
<1> HIDE DEF r, t
<1>6. r = t
  BY <1>3, <1>4, <1>5, SeqEqual DEF r, t
<1> QED
  BY <1>6 DEF r, t

(* created and in_progress are on the way.                                 *)
LEMMA StartReads == RespInit => ReadInv /\ Reader!Init
<1> SUFFICES ASSUME RespInit PROVE ReadInv /\ Reader!Init
  OBVIOUS
<1> DEFINE e1 == Reader!Event("created", -1, 0)
           e2 == Reader!Event("in_progress", -1, 1)
           a == Told("new", <<>>, -1)
           b == Told("created", <<>>, 0)
           c == Told("running", <<>>, 1)
<1>1. /\ rs = [seq |-> 2, next_oi |-> 0, reasoning |-> NoItem, text |-> NoItem, kind |-> "-",
               tools |-> [i \in Calls |-> NoTool], tool_order |-> <<>>, output |-> <<>>]
      /\ rtodo = <<e1, e2>> /\ gen = "run" /\ Reader!Init
      /\ phase = "new" /\ items = <<>> /\ heard = Reader!Event("nothing", -1, -1)
  BY DEF RespInit, Reader!Init
<1>2. Hearing = a
  BY <1>1 DEF Hearing, Reader!Event
<1>3. {e1, e2} \subseteq EventRecords /\ {a, b, c} \subseteq Tellings
  BY DEF EventRecords, Types, Reader!Event, Told, Tellings
<1>4. Tells(a, e1, b) /\ Tells(b, e2, c)
  BY DEF Tells, TellsPhase, Reader!Event, Told
<1>5. c.phase = "running" /\ c.items = <<>> /\ c.number = 1
  BY DEF Told
<1> HIDE DEF e1, e2, a, b, c
<1>6. rtodo \in Seq(EventRecords) /\ Brings(rtodo, a, c)
  <2>1. <<e1>> \in Seq(EventRecords) /\ Brings(<<e1>>, a, b)
    BY <1>3, <1>4, BringsBy
  <2>2. <<e1>> \o <<e2>> \in Seq(EventRecords) /\ Brings(<<e1>> \o <<e2>>, a, c)
    BY <1>3, <1>4, <2>1, BringsMore
  <2>3. <<e1>> \o <<e2>> = rtodo
    <3>1. <<e1>> \o <<e2>> = <<e1, e2>>
      BY <1>3, TwoInARow
    <3> QED
      BY <1>1, <3>1
  <2> QED
    BY <2>2, <2>3
<1> DEFINE st == Standing
           tools == [i \in Calls |-> NoTool]
<1>7. /\ st = [seq |-> 2, next_oi |-> 0, reasoning |-> NoItem, text |-> NoItem, kind |-> "-",
               tools |-> tools, tool_order |-> <<>>, output |-> <<>>, out |-> rtodo]
      /\ tools \in [Calls -> ItemRecords] /\ \A i \in Calls : tools[i] = NoTool
  <2>1. NoTool \in ItemRecords
    BY DEF NoTool, ItemRecords, ItemArgs, NoName
  <2> QED
    BY <1>1, <2>1 DEF Standing
<1> HIDE DEF st, tools
<1>8. /\ st.seq = 2 /\ st.next_oi = 0 /\ st.reasoning = NoItem /\ st.text = NoItem /\ st.kind = "-"
      /\ st.tools = tools /\ st.tool_order = <<>> /\ st.output = <<>> /\ st.out = rtodo
  BY <1>7
<1>9. st \in RespStates
  BY <1>6, <1>7 DEF RespStates
<1>10. \A i \in Calls : ~HasTool(st, i)
  BY <1>7, <1>8 DEF HasTool
<1>11. Places(c.items) = {} /\ Len(c.items) = 0
  BY <1>5 DEF Places
<1>12. Agrees(st, c)
  <2>1. OneAtATimeIn(st)
    BY <1>8, <1>10 DEF OneAtATimeIn
  <2>2. ToolsAgree(st, c.items)
    BY <1>10 DEF ToolsAgree
  <2>3. PartsAgree(st, c.items)
    BY <1>8, <1>11 DEF PartsAgree
  <2>4. OutputAgrees(st.output, c.items)
    BY <1>8, <1>11 DEF OutputAgrees
  <2> QED
    BY <1>3, <1>5, <1>8, <1>11, <2>1, <2>2, <2>3, <2>4 DEF Agrees
<1>13. Sound(st, Hearing) /\ Busy(st)
  BY <1>2, <1>6, <1>8, <1>9, <1>12 DEF Sound, Busy
<1> QED
  BY <1>1, <1>2, <1>6, <1>13 DEF ReadInv, st

(* A step of the bridge is a step of the client or leaves it alone.        *)
LEMMA EveryStepReads ==
  ASSUME ReadInv, [RespNext]_respVars
  PROVE  ReadInv' /\ [Reader!Next]_(Reader!vars)
<1>1. ASSUME UNCHANGED respVars
      PROVE  ReadInv' /\ [Reader!Next]_(Reader!vars)
  <2>1. UNCHANGED <<rs, rtodo, gen, holder, phase, items, heard>>
    BY <1>1 DEF respVars, bridgeVars
  <2>2. Standing' = Standing /\ Hearing' = Hearing
    BY <2>1 DEF Standing, Hearing, Told
  <2> QED
    BY <2>1, <2>2 DEF ReadInv, Reader!vars
<1>2. ASSUME RespNext, ~RespYield
      PROVE  ReadInv' /\ UNCHANGED Reader!vars
  <2>1. ReadInv'
    BY <1>2, SaysReads, CallChunkReads, ExhaustedReads, FinishReads, UpstreamErrorReads, CancelledReads,
       RaisedReads DEF RespNext
  <2>2. UNCHANGED <<phase, items, heard>>
    BY <1>2 DEF RespNext, RespSays, RespCallChunk, RespExhausted, RespFinish, RespUpstreamError,
       RespCancelled, RespRaised, RespBecame
  <2> QED
    BY <2>1, <2>2 DEF Reader!vars
<1> QED
  BY <1>1, <1>2, YieldReads

(* The stored transcript is part of it.                                    *)
LEMMA ReadIsWhatWasSent == ReadInv => TranscriptIsWhatWasSent
  BY DEF ReadInv, IsSent, TranscriptIsWhatWasSent

(* In every dialect, also in one that states arguments again, and however  *)
(* the stream ends, the client reads a well-formed Responses stream (the   *)
(* bridge implements ResponsesStream), and what the route may store is     *)
(* what was sent.                                                          *)
THEOREM ResponsesRead == RespSpec => Reader!Spec /\ []TranscriptIsWhatWasSent
<1>1. RespInit => ReadInv /\ Reader!Init
  BY StartReads
<1>2. ReadInv /\ [RespNext]_respVars => ReadInv' /\ [Reader!Next]_(Reader!vars)
  BY EveryStepReads
<1>3. ReadInv => TranscriptIsWhatWasSent
  BY ReadIsWhatWasSent
<1> QED
  BY <1>1, <1>2, <1>3, PTL DEF RespSpec, Reader!Spec

(* How far the arguments of a call that is going on may be.                *)
Coming == {"none", "part", "whole"}

(* The calls are numbered in turn.                                         *)
LEMMA LatestIsLast ==
  ASSUME NEW n \in Nat, n > 0, Born = 0..(n - 1)
  PROVE  Latest = n - 1
<1>1. n - 1 \in Born /\ \A y \in Born : n - 1 >= y
  OBVIOUS
<1>2. \A x \in Born : (\A y \in Born : x >= y) => x = n - 1
  BY <1>1
<1> QED
  BY <1>1, <1>2 DEF Latest, Max

(* Entries of the calls B: one for each, of that call alone and untorn.    *)
Apart(E, B) ==
  /\ \A e \in E : \E c \in B : e.of = {c} /\ e.args \notin {"torn", "thought"}
  /\ \A c \in B : \E e \in E : e.of = {c}
  /\ \A e, d \in E : e.of = d.of => e = d

(* A new call.                                                             *)
LEMMA ApartWithOneMore ==
  ASSUME NEW E, NEW B, Apart(E, B), NEW c, c \notin B,
         NEW t, t.of = {c}, t.args \notin {"torn", "thought"}
  PROVE  Apart(E \cup {t}, B \cup {c})
<1>1. \A e \in E : e.of # {c}
  BY DEF Apart
<1>2. \A e \in E \cup {t} : \E x \in B \cup {c} : e.of = {x} /\ e.args \notin {"torn", "thought"}
  BY DEF Apart
<1>3. \A x \in B \cup {c} : \E e \in E \cup {t} : e.of = {x}
  BY DEF Apart
<1>4. \A e, d \in E \cup {t} : e.of = d.of => e = d
  BY <1>1 DEF Apart
<1> QED
  BY <1>2, <1>3, <1>4 DEF Apart

(* The entry of one call grows.                                            *)
LEMMA ApartWhenOneGrows ==
  ASSUME NEW E, NEW B, Apart(E, B), NEW old \in E,
         NEW t, t.of = old.of, t.args \notin {"torn", "thought"}
  PROVE  Apart((E \ {old}) \cup {t}, B)
<1> DEFINE F == (E \ {old}) \cup {t}
<1>1. \A e \in E : e.of = t.of => e = old
  BY DEF Apart
<1>2. \A e \in F : \E x \in B : e.of = {x} /\ e.args \notin {"torn", "thought"}
  BY DEF Apart
<1>3. ASSUME NEW x \in B
      PROVE  \E e \in F : e.of = {x}
  <2>1. PICK e \in E : e.of = {x}
    BY DEF Apart
  <2>2. CASE e = old
    BY <2>1, <2>2
  <2>3. CASE e # old
    BY <2>1, <2>3
  <2> QED
    BY <2>2, <2>3
<1>4. \A e, d \in F : e.of = d.of => e = d
  BY <1>1 DEF Apart
<1> QED
  BY <1>2, <1>3, <1>4 DEF Apart

(* A stored transcript of calls that are apart keeps them apart.           *)
LEMMA TranscriptKeepsApart ==
  ASSUME NEW st \in RespStates, NEW w, Agrees(st, w), Idle(st), NEW B,
         Apart(CallEntries(st), B)
  PROVE  LET h == Transcript(st.output)
             found == {j \in DOMAIN h : h[j].of # {}}
         IN  /\ \A c \in B : \E j \in found : h[j].of = {c}
             /\ Cardinality(found) = Cardinality(B)
             /\ \A j \in found : h[j].args # "torn"
<1> DEFINE q == st.output
           E == CallEntries(st)
           kept == {k \in DOMAIN q : q[k].args # "thought"}
           n == Cardinality(kept)
           h == Transcript(q)
           found == {j \in DOMAIN h : h[j].of # {}}
<1>1. q \in Seq(ItemRecords) /\ OutputAgrees(q, w.items)
  BY DEF RespStates, Agrees
<1>2. n \in Nat /\ \E at \in [1..n -> kept] :
        /\ \A k \in kept : \E j \in 1..n : at[j] = k
        /\ \A i, j \in 1..n : at[i] = at[j] => i = j
        /\ \A i, j \in 1..n : i < j => q[at[i]].oi <= q[at[j]].oi
        /\ h = [j \in 1..n |-> q[at[j]]]
  BY <1>1, TranscriptOnce
<1>3. PICK at \in [1..n -> kept] :
        /\ \A k \in kept : \E j \in 1..n : at[j] = k
        /\ \A i, j \in 1..n : at[i] = at[j] => i = j
        /\ h = [j \in 1..n |-> q[at[j]]]
  BY <1>2
<1>4. \A e \in ItemRecords : e \in E <=> (e.of # {} /\ \E k \in DOMAIN q : q[k] = e)
  BY DEF CallEntries, Idle
<1>5. \A k \in DOMAIN q : q[k] \in ItemRecords
  BY <1>1
<1> HIDE DEF h, n, E, q
<1>6. DOMAIN h = 1..n /\ \A j \in 1..n : h[j] = q[at[j]] /\ at[j] \in kept
  BY <1>3
<1>7. \A j \in found : h[j] \in E
  BY <1>4, <1>5, <1>6
<1>8. \A j, k \in found : h[j].of = h[k].of => j = k
  <2> TAKE j \in found, k \in found
  <2> HAVE h[j].of = h[k].of
  <2>1. h[j] = h[k]
    BY <1>7 DEF Apart, E
  <2>2. q[at[j]].oi = q[at[k]].oi /\ at[j] \in DOMAIN q /\ at[k] \in DOMAIN q
    BY <1>6, <2>1
  <2>3. at[j] = at[k]
    BY <1>1, <2>2 DEF OutputAgrees
  <2> QED
    BY <1>3, <1>6, <2>3
<1>9. ASSUME NEW c \in B
      PROVE  \E j \in found : h[j].of = {c}
  <2>1. PICK e \in E : e.of = {c}
    BY DEF Apart, E
  <2>2. e.args # "thought" /\ e \in ItemRecords
    BY DEF Apart, E, CallEntries
  <2>3. PICK k \in DOMAIN q : q[k] = e
    BY <1>4, <2>2
  <2>4. k \in kept
    BY <2>2, <2>3
  <2>5. PICK j \in 1..n : at[j] = k
    BY <1>3, <2>4
  <2>6. h[j] = e /\ j \in DOMAIN h
    BY <1>6, <2>3, <2>5
  <2>7. j \in found
    BY <2>1, <2>6
  <2> QED
    BY <2>1, <2>6, <2>7
<1>10. \A j \in found : \E c \in B : h[j].of = {c} /\ h[j].args # "torn"
  BY <1>7 DEF Apart, E
<1>11. Cardinality(found) = Cardinality(B)
  <2> DEFINE g == [j \in found |-> CHOOSE c \in B : h[j].of = {c}]
  <2>1. \A j \in found : g[j] \in B /\ h[j].of = {g[j]}
    BY <1>10
  <2>2. g \in [found -> B] /\ DOMAIN g = found
    BY <2>1
  <2> HIDE DEF g, found
  <2>3. g \in Injection(found, B)
    BY <1>8, <2>1, <2>2, ZenonT(40) DEF Injection, IsInjective
  <2>4. \A c \in B : \E j \in found : g[j] = c
    <3> TAKE c \in B
    <3>1. PICK j \in found : h[j].of = {c}
      BY <1>9
    <3>2. {g[j]} = {c}
      BY <2>1, <3>1
    <3> QED
      BY <3>2
  <2>5. g \in Surjection(found, B)
    BY <2>2, <2>4 DEF Surjection
  <2>6. IsFiniteSet(found)
    <3>1. IsFiniteSet(1..n)
      BY <1>2, FS_Interval
    <3>2. found \in SUBSET (1..n)
      BY <1>6 DEF found
    <3> QED
      BY <3>1, <3>2, FS_Subset
  <2> QED
    BY <2>3, <2>5, <2>6, FS_Surjection
<1> QED
  BY <1>9, <1>10, <1>11 DEF h, q

(* The index under which a call may be open, and what is known of it then. *)
Slot(c) == IF dialect = "reusing" THEN 0 ELSE c

(* An open tool of the call c: it takes a later fragment for one of c, and *)
(* has of its arguments what was sent.                                     *)
IsToolOf(t, i, c) ==
  /\ t.of = {c} /\ i = Slot(c)
  /\ dialect = "reusing" => c = Latest /\ t.upstream_id = c
  /\ t.upstream_id \in {c, NoName}
  /\ dialect # "unindexed" /\ progress[c] \in {"none", "part"} => t.args = progress[c]

(* The calls of the upstream come in turn.                                 *)
BornInTurn ==
  /\ dialect \in {"indexed", "reusing", "unindexed"}
  /\ progress \in [Calls -> Coming \cup {"unborn", "over"}]
  /\ \E n \in Nat : Born = 0..(n - 1)

(* The open tools are calls that were begun, and a call that may go on is  *)
(* open.                                                                   *)
OpenOnesAreCalls ==
  /\ \A i \in Calls : HasTool(rs, i) => \E c \in Born : IsToolOf(rs.tools[i], i, c)
  /\ \A c \in Born : /\ dialect # "unindexed" /\ progress[c] \in {"none", "part"}
                     /\ dialect = "reusing" => c = Latest
                     => HasTool(rs, Slot(c))

(* The inductive invariant of the calls.                                   *)
ApartInv ==
  /\ BornInTurn
  /\ gen \in {"run", "close"} => Apart(CallEntries(rs), Born)
  /\ gen = "run" => OpenOnesAreCalls
  /\ CallsAreKeptApart

(* Events that are not yielded yet have no entries.                        *)
LEMMA EntriesStand ==
  /\ CallEntries(Standing) = CallEntries(rs)
  /\ \A c \in Calls : HasTool(Standing, c) <=> HasTool(rs, c)
<1>1. Standing.tools = rs.tools /\ Standing.output = rs.output
  BY DEF Standing
<1> QED
  BY <1>1 DEF CallEntries, HasTool

(* Thoughts, text and refusals: the calls so far are over.                 *)
LEMMA SpeechKeepsBorn ==
  ASSUME BornInTurn, Speech
  PROVE  /\ BornInTurn' /\ Born' = Born /\ Latest' = Latest /\ dialect' = dialect
         /\ \A c \in Born : progress'[c] = "over"
<1>1. progress' = [c \in Calls |-> IF c \in Born THEN "over" ELSE progress[c]] /\ dialect' = dialect
  BY DEF Speech
<1>2. \A c \in Calls : progress[c] \in Coming \cup {"unborn", "over"}
  BY DEF BornInTurn
<1>3. progress' \in [Calls -> Coming \cup {"unborn", "over"}]
  BY <1>1, <1>2
<1>4. Born' = Born
  <2>1. \A c \in Calls : progress'[c] # "unborn" <=> progress[c] # "unborn"
    BY <1>1 DEF Born
  <2> QED
    BY <2>1 DEF Born
<1>5. Latest' = Latest
  BY <1>4 DEF Latest, Max
<1>6. \A c \in Born : progress'[c] = "over"
  BY <1>1 DEF Born
<1> QED
  BY <1>1, <1>3, <1>4, <1>5, <1>6 DEF BornInTurn

(* Speech closes the calls and keeps them.                                 *)
LEMMA SaysKeepsApart ==
  ASSUME ReadInv, ApartInv, NEW kind \in {"reasoning", "text", "refusal"}, RespSays(kind)
  PROVE  ApartInv'
<1> DEFINE st == IF kind = "reasoning" THEN RespReasoning(RespStarted) ELSE SpeechOf(RespStarted, kind)
<1>1. /\ gen = "run" /\ rtodo = <<>> /\ RespBecame(st) /\ gen' = gen /\ holder' = holder /\ Speech
  BY DEF RespSays, RespPulling
<1>2. RespStarted = Standing /\ Sound(RespStarted, Hearing) /\ Busy(RespStarted)
  BY <1>1, NothingLeft DEF ReadInv
<1>3. rs'.tools = st.tools /\ rs'.output = st.output
  BY <1>1 DEF RespBecame
<1>4. CallEntries(rs)' = CallEntries(st) /\ \A c \in Calls : HasTool(rs, c)' <=> HasTool(st, c)
  BY <1>3 DEF CallEntries, HasTool
<1>5. /\ BornInTurn' /\ Born' = Born /\ Latest' = Latest /\ dialect' = dialect
      /\ \A c \in Born : progress'[c] = "over"
  BY <1>1, SpeechKeepsBorn DEF ApartInv
<1>6. \A c \in Born' : progress'[c] \notin {"none", "part"}
  BY <1>5
<1>7. CallEntries(st) = CallEntries(rs) /\ (\A i \in Calls : HasTool(st, i) => HasTool(rs, i) /\ st.tools[i] = rs.tools[i])
  <2>1. CASE kind = "reasoning"
    <3>1. st.tools = RespStarted.tools /\ st.output = RespStarted.output
      BY <1>2, <2>1, ThoughtsAreSaid
    <3>2. st.tools = rs.tools /\ st.output = rs.output
      BY <3>1 DEF RespStarted
    <3> HIDE DEF st
    <3> QED
      BY <3>2 DEF CallEntries, HasTool
  <2>2. CASE kind # "reasoning"
    <3>1. kind \in {"text", "refusal"} /\ st = SpeechOf(RespStarted, kind)
      BY <2>2
    <3> HIDE DEF st
    <3>2. (\A c \in Calls : ~HasTool(st, c)) /\ CallEntries(st) = CallEntries(RespStarted)
      BY <1>2, <3>1, SpeechIsSaid
    <3> QED
      BY <1>2, <3>2, EntriesStand
  <2> QED
    BY <2>1, <2>2
<1> HIDE DEF st
<1>8. Apart(CallEntries(rs)', Born')
  BY <1>1, <1>4, <1>5, <1>7 DEF ApartInv
<1>9. OpenOnesAreCalls'
  <2>1. ASSUME NEW i \in Calls, HasTool(rs, i)'
        PROVE  \E c \in Born' : IsToolOf(rs.tools[i], i, c)'
    <3>1. HasTool(rs, i) /\ rs'.tools[i] = rs.tools[i]
      BY <1>3, <1>4, <1>7, <2>1
    <3>2. PICK c \in Born : IsToolOf(rs.tools[i], i, c)
      BY <1>1, <3>1 DEF ApartInv, OpenOnesAreCalls
    <3>3. IsToolOf(rs.tools[i], i, c)'
      BY <1>5, <1>6, <3>1, <3>2 DEF IsToolOf, Slot
    <3> QED
      BY <1>5, <3>3
  <2> QED
    BY <1>6, <2>1 DEF OpenOnesAreCalls
<1>10. CallsAreKeptApart'
  BY <1>1 DEF CallsAreKeptApart
<1> QED
  BY <1>1, <1>5, <1>8, <1>9, <1>10 DEF ApartInv

(* The chunks are over, and the transcript is stored.                      *)
LEMMA ExhaustedKeepsApart ==
  ASSUME ReadInv, ApartInv, RespExhausted
  PROVE  ApartInv'
<1> DEFINE st == RespClosed(RespStarted)
<1>1. /\ gen = "run" /\ rtodo = <<>> /\ RespBecame(st) /\ gen' = "close" /\ UNCHANGED chunkVars
  BY DEF RespExhausted, RespPulling
<1>2. RespStarted = Standing /\ Sound(RespStarted, Hearing)
  BY <1>1, NothingLeft
<1>3. CallEntries(st) = CallEntries(RespStarted)
  BY <1>2, EverythingCloses
<1> HIDE DEF st
<1>4. rs'.tools = st.tools /\ rs'.output = st.output
  BY <1>1 DEF RespBecame
<1>5. CallEntries(rs)' = CallEntries(rs)
  <2>1. CallEntries(rs)' = CallEntries(st)
    BY <1>4 DEF CallEntries, HasTool
  <2> QED
    BY <1>2, <1>3, <2>1, EntriesStand
<1>6. BornInTurn' /\ Born' = Born
  BY <1>1 DEF ApartInv, BornInTurn, Born, chunkVars
<1> QED
  BY <1>1, <1>5, <1>6 DEF ApartInv, CallsAreKeptApart

(* The transcript of the calls that are apart is stored.                   *)
LEMMA FinishKeepsApart ==
  ASSUME ReadInv, ApartInv, RespFinish
  PROVE  ApartInv'
<1>1. /\ gen = "close" /\ rtodo = <<>> /\ gen' = "ended" /\ UNCHANGED chunkVars
      /\ holder' = Transcript(rs.output)
  BY DEF RespFinish
<1>2. /\ Standing \in RespStates /\ Agrees(Standing, Hearing) /\ Idle(Standing)
      /\ Standing.output = rs.output
  <2>1. Standing.output = rs.output
    BY DEF Standing
  <2> QED
    BY <1>1, <2>1, NothingLeft DEF ReadInv
<1>3. Apart(CallEntries(Standing), Born)
  BY <1>1, EntriesStand DEF ApartInv
<1>4. BornInTurn' /\ Born' = Born
  BY <1>1 DEF ApartInv, BornInTurn, Born, chunkVars
<1>5. LET h == Transcript(rs.output)
          found == {j \in DOMAIN h : h[j].of # {}}
      IN  /\ \A c \in Born : \E j \in found : h[j].of = {c}
          /\ Cardinality(found) = Cardinality(Born)
          /\ \A j \in found : h[j].args # "torn"
  <2> DEFINE st == Standing
             h == Transcript(st.output)
             found == {j \in DOMAIN h : h[j].of # {}}
  <2> HIDE DEF st
  <2>1. /\ \A c \in Born : \E j \in found : h[j].of = {c}
        /\ Cardinality(found) = Cardinality(Born)
        /\ \A j \in found : h[j].args # "torn"
    BY <1>2, <1>3, TranscriptKeepsApart DEF st
  <2>2. st.output = rs.output
    BY <1>2 DEF st
  <2> QED
    BY <2>1, <2>2
<1>6. CallsAreKeptApart'
  BY <1>1, <1>4, <1>5 DEF CallsAreKeptApart
<1> QED
  BY <1>1, <1>4, <1>6 DEF ApartInv

(* A stream that ends early stores no complete turn; a yield changes no    *)
(* call.                                                                   *)
LEMMA OthersKeepApart ==
  ASSUME ApartInv, RespUpstreamError \/ RespCancelled \/ RespRaised \/ RespYield \/ UNCHANGED respVars
  PROVE  ApartInv'
<1>1. UNCHANGED chunkVars
  BY DEF RespUpstreamError, RespCancelled, RespRaised, RespYield, respVars
<1>2. BornInTurn' /\ Born' = Born
  BY <1>1 DEF ApartInv, BornInTurn, Born, chunkVars
<1>3. CASE RespUpstreamError \/ RespCancelled \/ RespRaised
  <2>1. gen' \in {"failed", "cancelled"}
    BY <1>3 DEF RespUpstreamError, RespCancelled, RespRaised
  <2> QED
    BY <1>2, <2>1 DEF ApartInv, CallsAreKeptApart
<1>4. CASE RespYield \/ UNCHANGED respVars
  <2>1. UNCHANGED <<rs, gen, holder, dialect, progress>>
    BY <1>4 DEF RespYield, respVars, chunkVars, bridgeVars
  <2>2. CallEntries(rs)' = CallEntries(rs) /\ Latest' = Latest
    BY <2>1 DEF CallEntries, HasTool, Latest, Born
  <2>3. OpenOnesAreCalls' = OpenOnesAreCalls
    BY <1>2, <2>1, <2>2 DEF OpenOnesAreCalls, IsToolOf, Slot, HasTool
  <2>4. CallsAreKeptApart' = CallsAreKeptApart
    BY <1>2, <2>1 DEF CallsAreKeptApart
  <2> QED
    BY <1>2, <2>1, <2>2, <2>3, <2>4 DEF ApartInv
<1> QED
  BY <1>3, <1>4

(* A fragment of the upstream: its index and its id.                       *)
LEMMA FragmentIs ==
  ASSUME NEW f \in Fragment, f \in FragmentsOf(f.of), dialect \in {"indexed", "reusing", "unindexed"}
  PROVE  /\ f.of \in Calls /\ InTurn(f.of) /\ f.id \in IdsOf(f.of) /\ f.args \in ArgsOf(f.of)
         /\ f.index = IF dialect = "unindexed" /\ f.of \in Born THEN Missing ELSE Slot(f.of)
<1> DEFINE c == f.of
<1>1. InTurn(c)
  BY DEF FragmentsOf
<1>2. f \in {[of |-> c, index |-> IndexOf(c), id |-> i, args |-> a] : i \in IdsOf(c), a \in ArgsOf(c)}
  BY <1>1 DEF FragmentsOf
<1>3. f.index = IndexOf(c) /\ f.id \in IdsOf(c) /\ f.args \in ArgsOf(c)
  BY <1>2
<1>4. c \in Calls
  BY DEF Fragment
<1> QED
  BY <1>1, <1>3, <1>4 DEF IndexOf, Slot

(* The first fragment of a call.                                           *)
LEMMA FirstFragment ==
  ASSUME BornInTurn, OpenOnesAreCalls, NEW f \in Fragment, CallFragment(f), f.of \notin Born
  PROVE  /\ f.index = Slot(f.of) /\ f.index # Missing /\ IsFirst(rs, f)
         /\ f.id \in {f.of, NoName} /\ (dialect = "reusing" => f.id = f.of)
         /\ f.args \in Coming /\ progress' = [progress EXCEPT ![f.of] = f.args] /\ dialect' = dialect
         /\ BornInTurn' /\ Born' = Born \cup {f.of} /\ Latest' = f.of
<1> DEFINE c == f.of
<1>1. PICK n \in Nat : Born = 0..(n - 1)
  BY DEF BornInTurn
<1>2. f \in FragmentsOf(c) /\ progress' = [progress EXCEPT ![c] = Now(f.args)] /\ dialect' = dialect
  BY DEF CallFragment
<1>3. /\ c \in Calls /\ InTurn(c) /\ f.id \in IdsOf(c) /\ f.args \in ArgsOf(c) /\ f.index = Slot(c)
  BY <1>2, FragmentIs DEF BornInTurn
<1>4. c = n
  <2>1. Cardinality(0..(n - 1)) = n
    <3>1. Cardinality(0..(n - 1)) = IF 0 > n - 1 THEN 0 ELSE (n - 1) - 0 + 1
      BY FS_Interval
    <3> QED
      BY <3>1
  <2> QED
    BY <1>1, <1>3, <2>1 DEF InTurn
<1>5. f.args \in Coming /\ Now(f.args) = f.args
  <2>1. progress[c] = "unborn"
    BY <1>3 DEF Born
  <2> QED
    BY <1>3, <2>1 DEF ArgsOf, Coming, Now, BornInTurn
<1>6. f.id \in {c, NoName} /\ (dialect = "reusing" => f.id = c)
  BY <1>3 DEF IdsOf
<1>7. f.index # Missing
  BY <1>3 DEF Slot, Missing, Calls
<1>8. IsFirst(rs, f)
  <2>1. SUFFICES ASSUME HasTool(rs, f.index) PROVE RespIsNewCall(rs.tools[f.index], f)
    BY DEF IsFirst, HasTool
  <2>2. f.index \in Calls
    BY <1>7 DEF Fragment
  <2>3. PICK d \in Born : IsToolOf(rs.tools[f.index], f.index, d)
    BY <2>1, <2>2 DEF OpenOnesAreCalls
  <2>4. dialect = "reusing"
    BY <1>3, <2>3 DEF IsToolOf, Slot
  <2>5. f.id = c /\ rs.tools[f.index].upstream_id = d /\ d # c
    BY <1>6, <2>3, <2>4 DEF IsToolOf
  <2>6. c # NoName /\ d # NoName
    BY <1>3 DEF Calls, NoName, Born
  <2> QED
    BY <2>1, <2>5, <2>6 DEF RespIsNewCall, HasTool
<1>9. progress' = [progress EXCEPT ![c] = f.args]
  BY <1>2, <1>5
<1>10. /\ progress'[c] = f.args /\ \A x \in Calls : x # c => progress'[x] = progress[x]
       /\ progress' \in [Calls -> Coming \cup {"unborn", "over"}]
  BY <1>3, <1>5, <1>9 DEF BornInTurn
<1>11. Born' = Born \cup {c}
  <2>1. \A x \in Calls : progress'[x] # "unborn" <=> (progress[x] # "unborn" \/ x = c)
    BY <1>5, <1>10 DEF Coming
  <2> QED
    BY <1>3, <2>1 DEF Born
<1>12. Born' = 0..((n + 1) - 1) /\ n + 1 \in Nat
  BY <1>1, <1>4, <1>11
<1>13. Latest' = n
  <2>1. n \in Born' /\ \A y \in Born' : n >= y
    BY <1>12
  <2>2. \A x \in Born' : (\A y \in Born' : x >= y) => x = n
    BY <1>12, <2>1
  <2> QED
    BY <2>1, <2>2 DEF Latest, Max
<1>14. BornInTurn'
  BY <1>2, <1>10, <1>12 DEF BornInTurn
<1> QED
  BY <1>2, <1>3, <1>4, <1>5, <1>6, <1>7, <1>8, <1>9, <1>11, <1>13, <1>14

(* A later one: of the call that is open, or passed over.                  *)
LEMMA LaterFragment ==
  ASSUME BornInTurn, OpenOnesAreCalls, NEW f \in Fragment, CallFragment(f), f.of \in Born
  PROVE  /\ BornInTurn' /\ Born' = Born /\ Latest' = Latest /\ dialect' = dialect
         /\ \A x \in Calls : x # f.of => progress'[x] = progress[x]
         /\ dialect = "unindexed" => f.index = Missing
         /\ dialect # "unindexed" =>
              /\ f.index = Slot(f.of) /\ f.index # Missing /\ ~IsFirst(rs, f) /\ HasTool(rs, f.index)
              /\ f.id \in {f.of, NoName}
              /\ IsToolOf(rs.tools[f.index], f.index, f.of)
              /\ Grown(rs.tools[f.index].args, f.args) = progress'[f.of]
              /\ progress'[f.of] \in Coming
<1> DEFINE c == f.of
<1>1. f \in FragmentsOf(c) /\ progress' = [progress EXCEPT ![c] = Now(f.args)] /\ dialect' = dialect
  BY DEF CallFragment
<1>2. /\ c \in Calls /\ InTurn(c) /\ f.id \in IdsOf(c) /\ f.args \in ArgsOf(c)
      /\ f.index = IF dialect = "unindexed" THEN Missing ELSE Slot(c)
  BY <1>1, FragmentIs DEF BornInTurn
<1>3. /\ progress[c] \in {"none", "part"}
      /\ progress[c] = "none" => f.args \in {"part", "whole"}
      /\ progress[c] = "part" => f.args = "rest"
  BY <1>2 DEF ArgsOf, Born, BornInTurn, Coming
<1>4. Now(f.args) \in Coming
  BY <1>3 DEF Now, Coming
<1>5. /\ progress'[c] = Now(f.args) /\ \A x \in Calls : x # c => progress'[x] = progress[x]
      /\ progress' \in [Calls -> Coming \cup {"unborn", "over"}]
  BY <1>1, <1>2, <1>4 DEF BornInTurn
<1>6. Born' = Born
  <2>1. \A x \in Calls : progress'[x] # "unborn" <=> progress[x] # "unborn"
    BY <1>3, <1>4, <1>5 DEF Coming
  <2> QED
    BY <2>1 DEF Born
<1>7. Latest' = Latest
  BY <1>6 DEF Latest, Max
<1>8. BornInTurn'
  BY <1>1, <1>5, <1>6 DEF BornInTurn
<1>9. ASSUME dialect # "unindexed"
      PROVE  /\ f.index = Slot(c) /\ f.index # Missing /\ ~IsFirst(rs, f) /\ HasTool(rs, f.index)
             /\ f.id \in {c, NoName}
             /\ IsToolOf(rs.tools[f.index], f.index, c)
             /\ Grown(rs.tools[f.index].args, f.args) = progress'[c]
  <2>1. f.index = Slot(c) /\ f.index # Missing
    BY <1>2, <1>9 DEF Slot, Missing, Calls
  <2>2. f.index \in Calls
    BY <2>1 DEF Fragment
  <2>3. dialect = "reusing" => c = Latest
    BY <1>2 DEF InTurn
  <2>4. HasTool(rs, f.index)
    BY <1>3, <1>9, <2>1, <2>3 DEF OpenOnesAreCalls
  <2>5. PICK d \in Born : IsToolOf(rs.tools[f.index], f.index, d)
    BY <2>2, <2>4 DEF OpenOnesAreCalls
  <2>6. d = c
    BY <2>1, <2>3, <2>5 DEF IsToolOf, Slot
  <2>7. f.id \in {c, NoName} /\ rs.tools[f.index].upstream_id \in {c, NoName}
    BY <1>2, <2>5, <2>6 DEF IdsOf, IsToolOf
  <2>8. ~IsFirst(rs, f)
    BY <2>4, <2>7 DEF IsFirst, RespIsNewCall, HasTool
  <2>9. rs.tools[f.index].args = progress[c]
    BY <1>3, <1>9, <2>5, <2>6 DEF IsToolOf
  <2>10. Grown(progress[c], f.args) = Now(f.args)
    BY <1>3 DEF Grown, Now
  <2> QED
    BY <1>5, <2>1, <2>4, <2>5, <2>6, <2>7, <2>8, <2>9, <2>10
<1> QED
  BY <1>1, <1>2, <1>4, <1>5, <1>6, <1>7, <1>8, <1>9

(* The tool of a new call, before its first fragment is put in.            *)
LEMMA NewCallIs ==
  ASSUME NEW n \in Nat, NEW f, f.id \in Calls \cup {NoName}
  PROVE  LET t == NewCall(n, f)
         IN  t \in ItemRecords /\ t.of = {} /\ t.args = "none" /\ t.upstream_id = f.id
<1> DEFINE x == Entry(n)
           t == NewCall(n, f)
<1>1. x = [oi |-> n, upstream_id |-> NoName, of |-> {}, args |-> "none"]
  BY DEF Entry, NoTool
<1>2. t = [x EXCEPT !.upstream_id = f.id]
  BY DEF NewCall
<1> HIDE DEF x, t
<1>3. DOMAIN x = {"oi", "upstream_id", "of", "args"}
  BY <1>1
<1>4. t = [k \in {"oi", "upstream_id", "of", "args"} |-> IF k = "upstream_id" THEN f.id ELSE x[k]]
  BY <1>2, <1>3
<1>5. t = [oi |-> n, upstream_id |-> f.id, of |-> {}, args |-> "none"]
  BY <1>1, <1>4
<1>6. t \in ItemRecords
  BY <1>5 DEF ItemRecords, ItemArgs
<1> QED
  BY <1>5, <1>6 DEF t

(* A new call: its tool, and its entry.                                    *)
LEMMA FirstIsApart ==
  ASSUME NEW f \in Fragment, NEW n \in Nat, f.args \in Coming
  PROVE  LET t == Filled(NewCall(n, f), f)
         IN  t.of = {f.of} /\ t.args = f.args /\ t.upstream_id = f.id /\ t.args \notin {"torn", "thought"}
<1> DEFINE u == NewCall(n, f)
           t == Filled(u, f)
<1>1. f.id \in Calls \cup {NoName}
  BY DEF Fragment
<1>2. u \in ItemRecords /\ u.of = {} /\ u.args = "none" /\ u.upstream_id = f.id
  BY <1>1, NewCallIs
<1> HIDE DEF u
<1>3. /\ t.of = u.of \cup {f.of} /\ t.args = Grown(u.args, f.args)
      /\ t.upstream_id = IF u.upstream_id = NoName THEN f.id ELSE u.upstream_id
  BY <1>2, FilledIs
<1> HIDE DEF t
<1>4. t.of = {f.of} /\ t.upstream_id = f.id /\ t.args = f.args
  BY <1>2, <1>3 DEF Grown
<1>5. t.args \notin {"torn", "thought"}
  BY <1>4 DEF Coming
<1> QED
  BY <1>4, <1>5 DEF t, u

(* The open tools after a fragment of the call c, at its index.            *)
LEMMA OpenOnesAfter ==
  ASSUME OpenOnesAreCalls, BornInTurn, NEW c \in Calls, NEW i \in Calls, i = Slot(c), c \in Born',
         dialect' = dialect, dialect = "reusing" => c = Latest',
         Born' = Born \/ Born' = Born \cup {c}, dialect # "reusing" => Born \subseteq Born',
         \A x \in Calls : x # c => progress'[x] = progress[x],
         HasTool(rs, i)', \A d \in Calls : d # i => rs'.tools[d] = rs.tools[d],
         IsToolOf(rs.tools[i], i, c)'
  PROVE  OpenOnesAreCalls'
<1>1. Slot(c)' = Slot(c) /\ \A d \in Calls : Slot(d)' = Slot(d)
  BY DEF Slot
<1>2. \A d \in Calls : d # i => (HasTool(rs, d)' <=> HasTool(rs, d))
  BY DEF HasTool
<1>3. ASSUME NEW d \in Calls, HasTool(rs, d)'
      PROVE  \E x \in Born' : IsToolOf(rs.tools[d], d, x)'
  <2>1. CASE d = i
    BY <2>1
  <2>2. CASE d # i
    <3>1. HasTool(rs, d) /\ rs'.tools[d] = rs.tools[d]
      BY <1>2, <1>3, <2>2
    <3>2. PICK x \in Born : IsToolOf(rs.tools[d], d, x)
      BY <3>1 DEF OpenOnesAreCalls
    <3>3. d = Slot(x) /\ x # c /\ x \in Calls
      BY <2>2, <3>2 DEF IsToolOf, Born
    <3>4. dialect # "reusing"
      BY <2>2, <3>3 DEF Slot
    <3>5. progress'[x] = progress[x]
      BY <3>3
    <3>6. IsToolOf(rs.tools[d], d, x)'
      BY <1>1, <3>1, <3>2, <3>3, <3>4, <3>5 DEF IsToolOf
    <3>7. x \in Born'
      BY <3>2
    <3> QED
      BY <3>6, <3>7
  <2> QED
    BY <2>1, <2>2
<1>4. ASSUME NEW d \in Born', dialect' # "unindexed", progress'[d] \in {"none", "part"},
             dialect' = "reusing" => d = Latest'
      PROVE  HasTool(rs, Slot(d))'
  <2>1. CASE d = c
    BY <1>1, <2>1
  <2>2. CASE d # c
    <3>1. dialect # "reusing" /\ d \in Born /\ d \in Calls /\ progress'[d] = progress[d]
      BY <1>4, <2>2 DEF Born
    <3>2. HasTool(rs, Slot(d))
      BY <1>4, <3>1 DEF OpenOnesAreCalls
    <3>3. Slot(d) = d /\ Slot(d) # i
      BY <2>2, <3>1 DEF Slot
    <3> QED
      BY <1>1, <1>2, <3>1, <3>2, <3>3
  <2> QED
    BY <2>1, <2>2
<1> QED
  BY <1>3, <1>4 DEF OpenOnesAreCalls

(* A fragment is added to its own call, or begins it.                      *)
LEMMA CallChunkKeepsApart ==
  ASSUME ReadInv, ApartInv, NEW f \in Fragment, RespCallChunk(f)
  PROVE  ApartInv'
<1> DEFINE st == IF f.index = Missing THEN RespStarted ELSE ToolCall(RespStarted, f)
           i == f.index
           c == f.of
<1>1. /\ gen = "run" /\ rtodo = <<>> /\ RespBecame(st) /\ gen' = gen /\ holder' = holder /\ CallFragment(f)
  BY DEF RespCallChunk, RespPulling
<1>2. RespStarted = Standing /\ Sound(RespStarted, Hearing)
  BY <1>1, NothingLeft
<1>3. /\ BornInTurn /\ OpenOnesAreCalls /\ Apart(CallEntries(rs), Born) /\ c \in Calls
  BY <1>1 DEF ApartInv, Fragment
<1>4. rs'.tools = st.tools /\ rs'.output = st.output
  BY <1>1 DEF RespBecame
<1>5. CallEntries(rs)' = CallEntries(st) /\ \A d \in Calls : HasTool(rs, d)' <=> HasTool(st, d)
  BY <1>4 DEF CallEntries, HasTool
<1>6. CallsAreKeptApart'
  BY <1>1 DEF CallsAreKeptApart
<1>7. RespStarted.tools = rs.tools /\ CallEntries(RespStarted) = CallEntries(rs)
  BY <1>2, EntriesStand DEF RespStarted
<1>8. IsFirst(RespStarted, f) <=> IsFirst(rs, f)
  BY <1>7 DEF IsFirst
<1>9. ASSUME i # Missing
      PROVE  /\ i \in Calls /\ HasTool(rs, i)' /\ \A d \in Calls : d # i => rs'.tools[d] = rs.tools[d]
             /\ IsFirst(rs, f) =>
                  /\ \E n \in Nat : rs'.tools[i] = Filled(NewCall(n, f), f)
                  /\ CallEntries(rs)' = CallEntries(rs) \cup {rs'.tools[i]}
             /\ ~IsFirst(rs, f) =>
                  /\ rs'.tools[i] = Filled(rs.tools[i], f)
                  /\ CallEntries(rs)' = (CallEntries(rs) \ {rs.tools[i]}) \cup {rs'.tools[i]}
  <2> DEFINE s == RespStarted
             new == ToolCall(s, f)
  <2>1. st = new
    BY <1>9
  <2> HIDE DEF st
  <2>2. s.tools = rs.tools /\ CallEntries(s) = CallEntries(rs) /\ (IsFirst(s, f) <=> IsFirst(rs, f))
    BY <1>7, <1>8
  <2> HIDE DEF s
  <2>3. /\ i \in Calls /\ HasTool(new, i)
        /\ \A d \in Calls : d # i => new.tools[d] = s.tools[d]
        /\ IsFirst(s, f) =>
             /\ \E n \in Nat : new.tools[i] = Filled(NewCall(n, f), f)
             /\ CallEntries(new) = CallEntries(s) \cup {new.tools[i]}
        /\ ~IsFirst(s, f) =>
             /\ new.tools[i] = Filled(s.tools[i], f)
             /\ CallEntries(new) = (CallEntries(s) \ {s.tools[i]}) \cup {new.tools[i]}
    BY <1>2, <1>9, CallIsSaid DEF s
  <2> HIDE DEF new, i
  <2>4. rs'.tools = new.tools /\ CallEntries(rs)' = CallEntries(new) /\ HasTool(rs, i)'
    BY <1>4, <1>5, <2>1, <2>3
  <2> QED
    BY <2>2, <2>3, <2>4
<1>10. CASE c \notin Born
  <2>1. /\ i = Slot(c) /\ i # Missing /\ IsFirst(rs, f)
        /\ f.id \in {c, NoName} /\ (dialect = "reusing" => f.id = c)
        /\ f.args \in Coming /\ progress' = [progress EXCEPT ![c] = f.args] /\ dialect' = dialect
        /\ BornInTurn' /\ Born' = Born \cup {c} /\ Latest' = c
    BY <1>1, <1>3, <1>10, FirstFragment
  <2> DEFINE t == rs'.tools[i]
  <2>2. PICK n \in Nat : t = Filled(NewCall(n, f), f)
    BY <1>9, <2>1
  <2>3. CallEntries(rs)' = CallEntries(rs) \cup {t}
    BY <1>9, <2>1
  <2>4. t.of = {c} /\ t.args = f.args /\ t.upstream_id = f.id /\ t.args \notin {"torn", "thought"}
    BY <2>1, <2>2, FirstIsApart
  <2>5. /\ i \in Calls /\ HasTool(rs, i)' /\ \A d \in Calls : d # i => rs'.tools[d] = rs.tools[d]
    BY <1>9, <2>1
  <2>6. progress'[c] = f.args /\ \A x \in Calls : x # c => progress'[x] = progress[x]
    BY <1>3, <2>1 DEF BornInTurn
  <2> HIDE DEF st
  <2>7. IsToolOf(rs.tools[i], i, c)'
    <3>1. Slot(c)' = Slot(c)
      BY <2>1 DEF Slot
    <3> QED
      BY <2>1, <2>4, <2>6, <3>1 DEF IsToolOf
  <2> HIDE DEF t, i, c
  <2>8. Apart(CallEntries(rs), Born)'
    <3>1. Apart(CallEntries(rs) \cup {t}, Born \cup {c})
      BY <1>3, <1>10, <2>4, ApartWithOneMore
    <3> QED
      BY <2>1, <2>3, <3>1
  <2>9. OpenOnesAreCalls'
    BY <1>3, <2>1, <2>5, <2>6, <2>7, OpenOnesAfter
  <2> QED
    BY <1>1, <1>6, <2>1, <2>8, <2>9 DEF ApartInv
<1>11. CASE c \in Born /\ dialect = "unindexed"
  <2>1. /\ BornInTurn' /\ Born' = Born /\ Latest' = Latest /\ dialect' = dialect
        /\ i = Missing
    BY <1>1, <1>3, <1>11, LaterFragment
  <2>2. st = RespStarted
    BY <2>1
  <2> HIDE DEF st
  <2>3. rs'.tools = rs.tools /\ CallEntries(rs)' = CallEntries(rs)
    BY <1>4, <1>5, <1>7, <2>2
  <2>4. OpenOnesAreCalls' 
    <3>1. \A d \in Calls : HasTool(rs, d)' <=> HasTool(rs, d)
      BY <2>3 DEF HasTool
    <3>2. ASSUME NEW d \in Calls, HasTool(rs, d)'
          PROVE  \E x \in Born' : IsToolOf(rs.tools[d], d, x)'
      <4>1. PICK x \in Born : IsToolOf(rs.tools[d], d, x)
        BY <1>3, <3>1, <3>2 DEF OpenOnesAreCalls
      <4>2. IsToolOf(rs.tools[d], d, x)'
        BY <1>11, <2>1, <2>3, <4>1 DEF IsToolOf, Slot
      <4> QED
        BY <2>1, <4>1, <4>2
    <3> QED
      BY <1>11, <2>1, <3>2 DEF OpenOnesAreCalls
  <2>5. Apart(CallEntries(rs), Born)'
    BY <1>3, <2>1, <2>3
  <2> QED
    BY <1>1, <1>6, <2>1, <2>4, <2>5 DEF ApartInv
<1>12. CASE c \in Born /\ dialect # "unindexed"
  <2> DEFINE old == rs.tools[i]
             t == rs'.tools[i]
  <2>1. /\ BornInTurn' /\ Born' = Born /\ Latest' = Latest /\ dialect' = dialect
        /\ \A x \in Calls : x # c => progress'[x] = progress[x]
        /\ i = Slot(c) /\ i # Missing /\ ~IsFirst(rs, f) /\ HasTool(rs, i)
        /\ f.id \in {c, NoName}
        /\ IsToolOf(old, i, c)
        /\ Grown(old.args, f.args) = progress'[c]
        /\ progress'[c] \in Coming
    BY <1>1, <1>3, <1>12, LaterFragment
  <2>2. /\ i \in Calls /\ HasTool(rs, i)' /\ \A d \in Calls : d # i => rs'.tools[d] = rs.tools[d]
        /\ t = Filled(old, f) /\ CallEntries(rs)' = (CallEntries(rs) \ {old}) \cup {t}
    BY <1>9, <2>1
  <2> HIDE DEF st
  <2>3. old \in ItemRecords /\ old.args # "thought"
    <3> DEFINE s == RespStarted
    <3>1. s.tools = rs.tools /\ Sound(s, Hearing)
      BY <1>2, <1>7
    <3> HIDE DEF s
    <3>2. HasTool(s, i)
      BY <2>1, <3>1 DEF HasTool
    <3> QED
      BY <2>2, <3>1, <3>2, OpenCallsAreApart
  <2>4. old.of = {c} /\ old.upstream_id \in {c, NoName} /\ (dialect = "reusing" => c = Latest /\ old.upstream_id = c)
    BY <2>1 DEF IsToolOf
  <2>5. old \in CallEntries(rs)
    BY <2>1, <2>2, <2>3, <2>4 DEF CallEntries
  <2> HIDE DEF old
  <2>6. /\ t.of = {c} /\ t.args = progress'[c]
        /\ t.upstream_id = IF old.upstream_id = NoName THEN f.id ELSE old.upstream_id
    <3> DEFINE x == Filled(old, f)
    <3>1. /\ x.of = old.of \cup {f.of} /\ x.args = Grown(old.args, f.args)
          /\ x.upstream_id = IF old.upstream_id = NoName THEN f.id ELSE old.upstream_id
      BY <2>3, FilledIs
    <3>2. x = t
      BY <2>2
    <3> HIDE DEF x, t
    <3> QED
      BY <2>1, <2>4, <3>1, <3>2
  <2>7. t.args \notin {"torn", "thought"}
    BY <2>1, <2>6 DEF Coming
  <2>8. t.upstream_id \in {c, NoName} /\ (dialect = "reusing" => t.upstream_id = c)
    <3>1. c # NoName
      BY <1>3 DEF Calls, NoName
    <3> QED
      BY <2>1, <2>4, <2>6, <3>1
  <2>9. IsToolOf(rs.tools[i], i, c)'
    <3>1. Slot(c)' = Slot(c)
      BY <2>1 DEF Slot
    <3> QED
      BY <2>1, <2>4, <2>6, <2>8, <3>1 DEF IsToolOf
  <2> HIDE DEF t, i, c
  <2>10. Apart(CallEntries(rs), Born)'
    <3>1. Apart((CallEntries(rs) \ {old}) \cup {t}, Born)
      BY <1>3, <2>4, <2>5, <2>6, <2>7, ApartWhenOneGrows
    <3> QED
      BY <2>1, <2>2, <3>1
  <2>11. OpenOnesAreCalls'
    BY <1>3, <1>12, <2>1, <2>2, <2>4, <2>9, OpenOnesAfter
  <2> QED
    BY <1>1, <1>6, <2>1, <2>10, <2>11 DEF ApartInv
<1> QED
  BY <1>10, <1>11, <1>12

(* No call was begun.                                                      *)
LEMMA StartsApart == RespInit /\ dialect # "restating" => ApartInv
<1> SUFFICES ASSUME RespInit, dialect # "restating" PROVE ApartInv
  OBVIOUS
<1>1. /\ dialect \in Dialects /\ progress = [c \in Calls |-> "unborn"] /\ gen = "run"
      /\ rs.tools = [i \in Calls |-> NoTool] /\ rs.output = <<>>
  BY DEF RespInit, ChunksInit
<1>2. Born = {}
  BY <1>1 DEF Born
<1>3. BornInTurn
  <2>1. Born = 0..(0 - 1)
    BY <1>2
  <2>2. progress \in [Calls -> Coming \cup {"unborn", "over"}]
    BY <1>1
  <2>3. dialect \in {"indexed", "reusing", "unindexed"}
    BY <1>1, ChunksAssumption
  <2> QED
    BY <2>1, <2>2, <2>3 DEF BornInTurn
<1>4. \A i \in Calls : ~HasTool(rs, i)
  BY <1>1 DEF HasTool
<1>5. CallEntries(rs) = {}
  BY <1>1, <1>4 DEF CallEntries
<1>6. Apart(CallEntries(rs), Born)
  BY <1>2, <1>5 DEF Apart
<1>7. OpenOnesAreCalls
  BY <1>2, <1>4 DEF OpenOnesAreCalls
<1> QED
  BY <1>1, <1>3, <1>6, <1>7 DEF ApartInv, CallsAreKeptApart

(* Every step keeps the calls apart.                                       *)
LEMMA EveryStepKeepsApart ==
  ASSUME ReadInv, ApartInv, [RespNext]_respVars
  PROVE  ApartInv'
<1>1. CASE UNCHANGED respVars
  BY <1>1, OthersKeepApart
<1>2. CASE RespNext
  BY <1>2, SaysKeepsApart, CallChunkKeepsApart, ExhaustedKeepsApart, FinishKeepsApart, OthersKeepApart DEF RespNext
<1> QED
  BY <1>1, <1>2

(* Calls of any number, in any order the dialect allows, under indexes     *)
(* that are used again or left out and with ids that come late, are each   *)
(* one call of the transcript with its own arguments; the stream is read   *)
(* as ResponsesRead says. The bridge appends what it is sent, so an        *)
(* upstream that states arguments again is left out.                       *)
THEOREM ResponsesStayFaithful == RespSpec /\ dialect # "restating" => ResponsesAreFaithful
<1>1. RespInit => ReadInv /\ Reader!Init
  BY StartReads
<1>2. RespInit /\ dialect # "restating" => ApartInv
  BY StartsApart
<1>3. ReadInv /\ [RespNext]_respVars => ReadInv' /\ [Reader!Next]_(Reader!vars)
  BY EveryStepReads
<1>4. ReadInv /\ ApartInv /\ [RespNext]_respVars => ApartInv'
  BY EveryStepKeepsApart
<1>5. ReadInv => TranscriptIsWhatWasSent
  BY ReadIsWhatWasSent
<1>6. ApartInv => CallsAreKeptApart
  BY DEF ApartInv
<1> QED
  BY <1>1, <1>2, <1>3, <1>4, <1>5, <1>6, PTL DEF RespSpec, ResponsesAreFaithful, ResponsesAreRead, Reader!Spec
================================================================================
