------------------------------- MODULE LruCache -------------------------------
(***************************************************************************)
(* common/lru.rs: the cache behind the DNS answers and the fake-IP leases. *)
(* Entries live in an arena of slots chained by index into a recency list; *)
(* freed slots are recycled.  The cache is shown to be RecencyList.        *)
(***************************************************************************)
EXTENDS Integers, Sequences, FiniteSets, FiniteSetTheorems, SequenceTheorems, NaturalsInduction,
        WellFoundedInduction, TLAPS

CONSTANTS Keys, Values, Capacity, Absent

ASSUME CapacityAssumption == Capacity \in Nat \ {0}

Nil == 0   \* no slot

VARIABLES
  cache,   \* [map, slots, free, head, tail, len]
  answer   \* what the last operation returned

cacheVars == <<cache, answer>>

EmptySlot == [key |-> Absent, value |-> Absent, prev |-> Nil, next |-> Nil]
Fresh == [map |-> [k \in Keys |-> Nil], slots |-> <<>>, free |-> <<>>, head |-> Nil, tail |-> Nil,
          len |-> 0]

-----------------------------------------------------------------------------
(* The list, as functions of the cache                                     *)

LinkFront(c, i) ==
  LET h == c.head
      s1 == [c.slots EXCEPT ![i].prev = Nil, ![i].next = h]
  IN  [c EXCEPT !.slots = IF h = Nil THEN s1 ELSE [s1 EXCEPT ![h].prev = i],
                !.tail = IF h = Nil THEN i ELSE @,
                !.head = i]

Unlink(c, i) ==
  LET p == c.slots[i].prev
      n == c.slots[i].next
      s1 == IF p = Nil THEN c.slots ELSE [c.slots EXCEPT ![p].next = n]
      s2 == IF n = Nil THEN s1 ELSE [s1 EXCEPT ![n].prev = p]
  IN  [c EXCEPT !.slots = [s2 EXCEPT ![i].prev = Nil, ![i].next = Nil],
                !.head = IF p = Nil THEN n ELSE @,
                !.tail = IF n = Nil THEN p ELSE @]

\* An entry that is looked up stays where it is.
StayInPlace(c, i) == c
MoveToFront(c, i) == IF c.head = i THEN c ELSE LinkFront(Unlink(c, i), i)

RemoveAt(c, i) == [Unlink(c, i) EXCEPT !.len = @ - 1, !.free = Append(@, i)]

Empty(c, i) == [c EXCEPT !.slots[i].key = Absent, !.slots[i].value = Absent]

EvictLru(c) ==
  LET i == c.tail
      k == c.slots[i].key
  IN  [Empty(RemoveAt(c, i), i) EXCEPT !.map[k] = Nil]

\* alloc_slot: the free list is a stack.
AllocSlot(c) ==
  IF c.free # <<>> THEN [c EXCEPT !.free = SubSeq(@, 1, Len(@) - 1)]
                   ELSE [c EXCEPT !.slots = Append(@, EmptySlot)]
Allocated(c) == IF c.free # <<>> THEN c.free[Len(c.free)] ELSE Len(c.slots) + 1

-----------------------------------------------------------------------------

Init == cache = Fresh /\ answer = Absent

Value(c, k) == IF c.map[k] = Nil THEN Absent ELSE c.slots[c.map[k]].value

Put(k, v) ==
  IF cache.map[k] # Nil
  THEN LET i == cache.map[k] IN
       /\ cache' = MoveToFront([cache EXCEPT !.slots[i].value = v], i)
       /\ answer' = Value(cache, k)
  ELSE LET full == cache.len = Capacity
           room == IF full THEN EvictLru(cache) ELSE cache
           i == Allocated(room)
           filled == [AllocSlot(room) EXCEPT !.slots[i].key = k, !.slots[i].value = v,
                                             !.map[k] = i, !.len = @ + 1]
       IN /\ cache' = LinkFront(filled, i)
          /\ answer' = IF full THEN cache.slots[cache.tail].value ELSE Absent

\* get and get_mut.
Get(k) ==
  /\ answer' = Value(cache, k)
  /\ cache' = IF cache.map[k] = Nil THEN cache ELSE MoveToFront(cache, cache.map[k])

Peek(k) == answer' = Value(cache, k) /\ UNCHANGED cache

\* pop leaves the key's copy in the freed slot.
Pop(k) ==
  /\ answer' = Value(cache, k)
  /\ cache' = IF cache.map[k] = Nil THEN cache
              ELSE LET i == cache.map[k] IN
                   [RemoveAt(cache, i) EXCEPT !.slots[i].value = Absent, !.map[k] = Nil]

PopLru ==
  /\ answer' = IF cache.tail = Nil THEN Absent ELSE cache.slots[cache.tail].value
  /\ cache' = IF cache.tail = Nil THEN cache ELSE EvictLru(cache)

Clear == cache' = Fresh /\ UNCHANGED answer

Next ==
  \/ \E k \in Keys : Get(k) \/ Peek(k) \/ Pop(k) \/ \E v \in Values : Put(k, v)
  \/ PopLru \/ Clear

Spec == Init /\ [][Next]_cacheVars

-----------------------------------------------------------------------------

\* iter(): the slot it stands at after n steps from the head.
Trail(c) ==
  LET at[n \in 0 .. Capacity] ==
        IF n = 0 THEN c.head ELSE IF at[n - 1] = Nil THEN Nil ELSE c.slots[at[n - 1]].next
  IN  at

\* What it yields, up to one entry more than there may be.
Walk(c) ==
  LET at == Trail(c)
  IN  [j \in 1 .. Cardinality({n \in 0 .. Capacity : at[n] # Nil}) |->
         [key |-> c.slots[at[j - 1]].key, value |-> c.slots[at[j - 1]].value]]

Recency == INSTANCE RecencyList WITH entries <- Walk(cache), result <- answer

\* Whatever is put, read, popped and evicted, with slots recycled in whatever
\* order, the arena and its index list are a recency list: the same entries in
\* the same order, the same answers, and never more than the capacity.
LruIsRecencyList == Recency!LSpec

-----------------------------------------------------------------------------
(* LruIsRecencyList for every set of keys and values and every capacity.   *)
(* Behind each cache there is a list q of n slots, the most recently used  *)
(* first, that the links, the index and the free list agree on.            *)

Slot == [key : Keys \cup {Absent}, value : Values \cup {Absent}, prev : Nat, next : Nat]

Shape(c) ==
  c \in [map : [Keys -> Nat], slots : Seq(Slot), free : Seq(Nat), head : Nat, tail : Nat, len : Nat]

\* q is a list of n different slots of an arena of l.
List(q, n, l) == n \in Nat /\ q \in [1 .. n -> 1 .. l] /\ \A a, b \in 1 .. n : q[a] = q[b] => a = b
Chain(c, q, n) == List(q, n, Len(c.slots))

\* Head, tail and links follow it.
Links(c, q, n) ==
  /\ c.head = IF n = 0 THEN Nil ELSE q[1]
  /\ c.tail = IF n = 0 THEN Nil ELSE q[n]
  /\ \A a \in 1 .. n : /\ c.slots[q[a]].prev = IF a = 1 THEN Nil ELSE q[a - 1]
                       /\ c.slots[q[a]].next = IF a = n THEN Nil ELSE q[a + 1]

\* The map finds the slot of a key in it, and nothing else.
Index(c, q, n) ==
  /\ \A a \in 1 .. n : c.slots[q[a]].key \in Keys /\ c.map[c.slots[q[a]].key] = q[a]
  /\ \A k \in Keys : c.map[k] # Nil => \E a \in 1 .. n : q[a] = c.map[k] /\ c.slots[q[a]].key = k

\* The free slots are the others, each of them once.
Slab(c, q, n) ==
  /\ c.len = n /\ n <= Capacity
  /\ Len(c.slots) = n + Len(c.free) /\ Len(c.slots) <= Capacity
  /\ \A a \in 1 .. Len(c.free) : c.free[a] \in 1 .. Len(c.slots)
  /\ \A a, b \in 1 .. Len(c.free) : c.free[a] = c.free[b] => a = b
  /\ \A a \in 1 .. Len(c.free), b \in 1 .. n : c.free[a] # q[b]

Holds(c, q, n) == Shape(c) /\ Chain(c, q, n) /\ Links(c, q, n) /\ Index(c, q, n) /\ Slab(c, q, n)

Kept(c) == \E n \in Nat : \E q : Holds(c, q, n)

LruInv == Kept(cache)

\* Setting one field of one slot.
LEMMA SetField ==
  ASSUME NEW s \in Seq(Slot), NEW i \in 1 .. Len(s), NEW r \in Slot
  PROVE  /\ [s EXCEPT ![i] = r] \in Seq(Slot) /\ Len([s EXCEPT ![i] = r]) = Len(s)
         /\ \A j \in 1 .. Len(s) : [s EXCEPT ![i] = r][j] = IF j = i THEN r ELSE s[j]
  BY ExceptSeq

LEMMA SlotFields ==
  ASSUME NEW e \in Slot
  PROVE  /\ e.key \in Keys \cup {Absent} /\ e.value \in Values \cup {Absent} /\ e.prev \in Nat /\ e.next \in Nat
         /\ \A x : /\ [e EXCEPT !.key = x] = [key |-> x, value |-> e.value, prev |-> e.prev, next |-> e.next]
                   /\ [e EXCEPT !.value = x] = [key |-> e.key, value |-> x, prev |-> e.prev, next |-> e.next]
                   /\ [e EXCEPT !.prev = x] = [key |-> e.key, value |-> e.value, prev |-> x, next |-> e.next]
                   /\ [e EXCEPT !.next = x] = [key |-> e.key, value |-> e.value, prev |-> e.prev, next |-> x]
  BY DEF Slot

\* t is s with the prev of slot i set to x, where i may be no slot.
PrevSet(s, t, i, x) ==
  /\ t \in Seq(Slot) /\ Len(t) = Len(s)
  /\ \A j \in 1 .. Len(s) :
       /\ t[j].key = s[j].key /\ t[j].value = s[j].value /\ t[j].next = s[j].next
       /\ t[j].prev = IF j = i THEN x ELSE s[j].prev

LEMMA SetPrev ==
  ASSUME NEW s \in Seq(Slot), NEW i \in 0 .. Len(s), NEW x \in Nat,
         NEW t, t = IF i = Nil THEN s ELSE [s EXCEPT ![i].prev = x]
  PROVE  PrevSet(s, t, i, x)
  <1>0. CASE i = Nil
    BY <1>0 DEF Nil, PrevSet
  <1> SUFFICES ASSUME i \in 1 .. Len(s), t = [s EXCEPT ![i].prev = x] PROVE PrevSet(s, t, i, x)
    BY <1>0 DEF Nil
  <1>1. PICK e \in Slot : e = s[i]
    BY ElementOfSeq
  <1>2. PICK r : r = [key |-> e.key, value |-> e.value, prev |-> x, next |-> e.next]
    OBVIOUS
  <1>3. r \in Slot
    BY <1>2, SlotFields DEF Slot
  <1>4. t = [s EXCEPT ![i] = r]
    BY <1>1, <1>2, SlotFields
  <1>5. t \in Seq(Slot) /\ Len(t) = Len(s) /\ \A j \in 1 .. Len(s) : t[j] = IF j = i THEN r ELSE s[j]
    BY <1>3, <1>4, SetField, SMTT(60)
  <1> QED
    BY <1>1, <1>2, <1>5 DEF PrevSet

\* t is s with the next of slot i set to x, where i may be no slot.
NextSet(s, t, i, x) ==
  /\ t \in Seq(Slot) /\ Len(t) = Len(s)
  /\ \A j \in 1 .. Len(s) :
       /\ t[j].key = s[j].key /\ t[j].value = s[j].value /\ t[j].prev = s[j].prev
       /\ t[j].next = IF j = i THEN x ELSE s[j].next

LEMMA SetNext ==
  ASSUME NEW s \in Seq(Slot), NEW i \in 0 .. Len(s), NEW x \in Nat,
         NEW t, t = IF i = Nil THEN s ELSE [s EXCEPT ![i].next = x]
  PROVE  NextSet(s, t, i, x)
  <1>0. CASE i = Nil
    BY <1>0 DEF Nil, NextSet
  <1> SUFFICES ASSUME i \in 1 .. Len(s), t = [s EXCEPT ![i].next = x] PROVE NextSet(s, t, i, x)
    BY <1>0 DEF Nil
  <1>1. PICK e \in Slot : e = s[i]
    BY ElementOfSeq
  <1>2. PICK r : r = [key |-> e.key, value |-> e.value, prev |-> e.prev, next |-> x]
    OBVIOUS
  <1>3. r \in Slot
    BY <1>2, SlotFields DEF Slot
  <1>4. t = [s EXCEPT ![i] = r]
    BY <1>1, <1>2, SlotFields
  <1>5. t \in Seq(Slot) /\ Len(t) = Len(s) /\ \A j \in 1 .. Len(s) : t[j] = IF j = i THEN r ELSE s[j]
    BY <1>3, <1>4, SetField, SMTT(60)
  <1> QED
    BY <1>1, <1>2, <1>5 DEF NextSet

\* t is s with the key of slot i set to x, where i may be no slot.
KeySet(s, t, i, x) ==
  /\ t \in Seq(Slot) /\ Len(t) = Len(s)
  /\ \A j \in 1 .. Len(s) :
       /\ t[j].value = s[j].value /\ t[j].prev = s[j].prev /\ t[j].next = s[j].next
       /\ t[j].key = IF j = i THEN x ELSE s[j].key

LEMMA SetKey ==
  ASSUME NEW s \in Seq(Slot), NEW i \in 0 .. Len(s), NEW x \in Keys \cup {Absent},
         NEW t, t = IF i = Nil THEN s ELSE [s EXCEPT ![i].key = x]
  PROVE  KeySet(s, t, i, x)
  <1>0. CASE i = Nil
    BY <1>0 DEF Nil, KeySet
  <1> SUFFICES ASSUME i \in 1 .. Len(s), t = [s EXCEPT ![i].key = x] PROVE KeySet(s, t, i, x)
    BY <1>0 DEF Nil
  <1>1. PICK e \in Slot : e = s[i]
    BY ElementOfSeq
  <1>2. PICK r : r = [key |-> x, value |-> e.value, prev |-> e.prev, next |-> e.next]
    OBVIOUS
  <1>3. r \in Slot
    BY <1>2, SlotFields DEF Slot
  <1>4. t = [s EXCEPT ![i] = r]
    BY <1>1, <1>2, SlotFields
  <1>5. t \in Seq(Slot) /\ Len(t) = Len(s) /\ \A j \in 1 .. Len(s) : t[j] = IF j = i THEN r ELSE s[j]
    BY <1>3, <1>4, SetField, SMTT(60)
  <1> QED
    BY <1>1, <1>2, <1>5 DEF KeySet

\* t is s with the value of slot i set to x, where i may be no slot.
ValueSet(s, t, i, x) ==
  /\ t \in Seq(Slot) /\ Len(t) = Len(s)
  /\ \A j \in 1 .. Len(s) :
       /\ t[j].key = s[j].key /\ t[j].prev = s[j].prev /\ t[j].next = s[j].next
       /\ t[j].value = IF j = i THEN x ELSE s[j].value

LEMMA SetValue ==
  ASSUME NEW s \in Seq(Slot), NEW i \in 0 .. Len(s), NEW x \in Values \cup {Absent},
         NEW t, t = IF i = Nil THEN s ELSE [s EXCEPT ![i].value = x]
  PROVE  ValueSet(s, t, i, x)
  <1>0. CASE i = Nil
    BY <1>0 DEF Nil, ValueSet
  <1> SUFFICES ASSUME i \in 1 .. Len(s), t = [s EXCEPT ![i].value = x] PROVE ValueSet(s, t, i, x)
    BY <1>0 DEF Nil
  <1>1. PICK e \in Slot : e = s[i]
    BY ElementOfSeq
  <1>2. PICK r : r = [key |-> e.key, value |-> x, prev |-> e.prev, next |-> e.next]
    OBVIOUS
  <1>3. r \in Slot
    BY <1>2, SlotFields DEF Slot
  <1>4. t = [s EXCEPT ![i] = r]
    BY <1>1, <1>2, SlotFields
  <1>5. t \in Seq(Slot) /\ Len(t) = Len(s) /\ \A j \in 1 .. Len(s) : t[j] = IF j = i THEN r ELSE s[j]
    BY <1>3, <1>4, SetField, SMTT(60)
  <1> QED
    BY <1>1, <1>2, <1>5 DEF ValueSet

LEMMA CacheFields ==
  ASSUME NEW c, Shape(c)
  PROVE  /\ c.map \in [Keys -> Nat] /\ c.slots \in Seq(Slot) /\ c.free \in Seq(Nat)
         /\ c.head \in Nat /\ c.tail \in Nat /\ c.len \in Nat /\ Len(c.slots) \in Nat
  BY DEF Shape

\* What link_front and unlink set, and what they leave.
Fronted(c, d, i) ==
  /\ Shape(d) /\ d.map = c.map /\ d.free = c.free /\ d.len = c.len /\ Len(d.slots) = Len(c.slots)
  /\ d.head = i /\ d.tail = IF c.head = Nil THEN i ELSE c.tail
  /\ \A j \in 1 .. Len(c.slots) :
       /\ d.slots[j].key = c.slots[j].key /\ d.slots[j].value = c.slots[j].value
       /\ d.slots[j].prev = IF j = i THEN Nil ELSE IF j = c.head THEN i ELSE c.slots[j].prev
       /\ d.slots[j].next = IF j = i THEN c.head ELSE c.slots[j].next

LEMMA LinkFrontIs ==
  ASSUME NEW c, Shape(c), NEW i \in 1 .. Len(c.slots), c.head \in 0 .. Len(c.slots), c.head # i,
         NEW d, d = LinkFront(c, i)
  PROVE  Fronted(c, d, i)
  <1>1. PICK s \in Seq(Slot), h \in Nat : s = c.slots /\ h = c.head
    BY CacheFields
  <1>2. i \in 0 .. Len(s) /\ i # Nil /\ h \in 0 .. Len(s) /\ i \in Nat /\ h # i /\ Len(s) \in Nat /\ Nil \in Nat
    BY <1>1 DEF Nil
  <1>3. PICK s1 : s1 = [s EXCEPT ![i].prev = Nil]
    OBVIOUS
  <1>4. PrevSet(s, s1, i, Nil)
    BY <1>2, <1>3, SetPrev
  <1>5. PICK s2 : s2 = [s1 EXCEPT ![i].next = h]
    OBVIOUS
  <1>6. s1 \in Seq(Slot) /\ Len(s1) = Len(s)
    BY <1>4 DEF PrevSet
  <1>7. NextSet(s1, s2, i, h)
    BY <1>2, <1>5, <1>6, SetNext
  <1>8. PICK s3 : s3 = IF h = Nil THEN s2 ELSE [s2 EXCEPT ![h].prev = i]
    OBVIOUS
  <1>9. s2 \in Seq(Slot) /\ Len(s2) = Len(s)
    BY <1>6, <1>7 DEF NextSet
  <1>10. PrevSet(s2, s3, h, i)
    BY <1>2, <1>8, <1>9, SetPrev
  <1>11. s3 \in Seq(Slot) /\ Len(s3) = Len(s)
    BY <1>9, <1>10 DEF PrevSet
  <1>12. d = [c EXCEPT !.slots = s3, !.tail = IF h = Nil THEN i ELSE @, !.head = i]
    BY <1>1, <1>3, <1>5, <1>8 DEF LinkFront
  <1>13. /\ Shape(d) /\ d.map = c.map /\ d.free = c.free /\ d.len = c.len /\ d.slots = s3
         /\ d.head = i /\ d.tail = IF h = Nil THEN i ELSE c.tail
    BY <1>2, <1>11, <1>12 DEF Shape
  <1>14. ASSUME NEW j \in 1 .. Len(s)
         PROVE  /\ s3[j].key = s[j].key /\ s3[j].value = s[j].value
                /\ s3[j].prev = IF j = i THEN Nil ELSE IF j = h THEN i ELSE s[j].prev
                /\ s3[j].next = IF j = i THEN h ELSE s[j].next
    BY <1>2, <1>4, <1>6, <1>7, <1>9, <1>10 DEF PrevSet, NextSet
  <1> QED
    BY <1>1, <1>11, <1>13, <1>14 DEF Fronted

Unlinked(c, d, i, p, m) ==
  /\ Shape(d) /\ d.map = c.map /\ d.free = c.free /\ d.len = c.len /\ Len(d.slots) = Len(c.slots)
  /\ d.head = (IF p = Nil THEN m ELSE c.head) /\ d.tail = (IF m = Nil THEN p ELSE c.tail)
  /\ \A j \in 1 .. Len(c.slots) :
       /\ d.slots[j].key = c.slots[j].key /\ d.slots[j].value = c.slots[j].value
       /\ d.slots[j].prev = IF j = i THEN Nil ELSE IF j = m THEN p ELSE c.slots[j].prev
       /\ d.slots[j].next = IF j = i THEN Nil ELSE IF j = p THEN m ELSE c.slots[j].next

LEMMA UnlinkIs ==
  ASSUME NEW c, Shape(c), NEW i \in 1 .. Len(c.slots), NEW p \in 0 .. Len(c.slots), NEW m \in 0 .. Len(c.slots),
         p = c.slots[i].prev, m = c.slots[i].next, NEW d, d = Unlink(c, i)
  PROVE  Unlinked(c, d, i, p, m)
  <1>1. PICK s \in Seq(Slot) : s = c.slots
    BY CacheFields
  <1>2. /\ i \in 0 .. Len(s) /\ i # Nil /\ p \in 0 .. Len(s) /\ m \in 0 .. Len(s) /\ p \in Nat /\ m \in Nat
        /\ Len(s) \in Nat /\ Nil \in Nat
    BY <1>1 DEF Nil
  <1>3. PICK s1 : s1 = IF p = Nil THEN s ELSE [s EXCEPT ![p].next = m]
    OBVIOUS
  <1>4. NextSet(s, s1, p, m)
    BY <1>2, <1>3, SetNext
  <1>5. s1 \in Seq(Slot) /\ Len(s1) = Len(s)
    BY <1>4 DEF NextSet
  <1>6. PICK s2 : s2 = IF m = Nil THEN s1 ELSE [s1 EXCEPT ![m].prev = p]
    OBVIOUS
  <1>7. PrevSet(s1, s2, m, p)
    BY <1>2, <1>5, <1>6, SetPrev
  <1>8. s2 \in Seq(Slot) /\ Len(s2) = Len(s)
    BY <1>5, <1>7 DEF PrevSet
  <1>9. PICK s3 : s3 = [s2 EXCEPT ![i].prev = Nil]
    OBVIOUS
  <1>10. PrevSet(s2, s3, i, Nil)
    BY <1>2, <1>8, <1>9, SetPrev
  <1>11. s3 \in Seq(Slot) /\ Len(s3) = Len(s)
    BY <1>8, <1>10 DEF PrevSet
  <1>12. PICK s4 : s4 = [s3 EXCEPT ![i].next = Nil]
    OBVIOUS
  <1>13. NextSet(s3, s4, i, Nil)
    BY <1>2, <1>11, <1>12, SetNext
  <1>14. s4 \in Seq(Slot) /\ Len(s4) = Len(s)
    BY <1>11, <1>13 DEF NextSet
  <1>15. d = [c EXCEPT !.slots = s4, !.head = IF p = Nil THEN m ELSE @, !.tail = IF m = Nil THEN p ELSE @]
    BY <1>1, <1>3, <1>6, <1>9, <1>12 DEF Unlink
  <1>16. /\ Shape(d) /\ d.map = c.map /\ d.free = c.free /\ d.len = c.len /\ d.slots = s4
         /\ d.head = (IF p = Nil THEN m ELSE c.head) /\ d.tail = (IF m = Nil THEN p ELSE c.tail)
    BY <1>2, <1>14, <1>15 DEF Shape
  <1>17. ASSUME NEW j \in 1 .. Len(s)
         PROVE  /\ s4[j].key = s[j].key /\ s4[j].value = s[j].value
                /\ s4[j].prev = IF j = i THEN Nil ELSE IF j = m THEN p ELSE s[j].prev
                /\ s4[j].next = IF j = i THEN Nil ELSE IF j = p THEN m ELSE s[j].next
    BY <1>2, <1>4, <1>5, <1>7, <1>8, <1>10, <1>11, <1>13 DEF PrevSet, NextSet
  <1> QED
    BY <1>1, <1>14, <1>16, <1>17 DEF Unlinked

\* A list without its p-th slot, and with a slot in front.
Minus(q, n, p) == [a \in 1 .. n - 1 |-> IF a < p THEN q[a] ELSE q[a + 1]]
Plus(i, q, n) == [a \in 1 .. n + 1 |-> IF a = 1 THEN i ELSE q[a - 1]]

\* d has the entries, the map, the counters and the free list of c.
SameEntries(c, d) ==
  /\ d.map = c.map /\ d.free = c.free /\ d.len = c.len /\ Len(d.slots) = Len(c.slots)
  /\ \A j \in 1 .. Len(c.slots) : d.slots[j].key = c.slots[j].key /\ d.slots[j].value = c.slots[j].value

\* r is q without its p-th slot.
IsMinus(r, q, n, p, l) ==
  /\ List(r, n - 1, l)
  /\ \A a \in 1 .. n - 1 : r[a] = (IF a < p THEN q[a] ELSE q[a + 1]) /\ r[a] # q[p]
  /\ \A b \in 1 .. n : b # p => \E a \in 1 .. n - 1 : r[a] = q[b]

LEMMA MinusIs ==
  ASSUME NEW l \in Nat, NEW n, NEW q, List(q, n, l), NEW p \in 1 .. n
  PROVE  IsMinus(Minus(q, n, p), q, n, p, l)
  <1>0. n \in Nat /\ q \in [1 .. n -> 1 .. l] /\ \A a, b \in 1 .. n : q[a] = q[b] => a = b
    BY DEF List
  <1>1. PICK r : r = Minus(q, n, p)
    OBVIOUS
  <1>2. \A a \in 1 .. n - 1 : r[a] = IF a < p THEN q[a] ELSE q[a + 1]
    BY <1>0, <1>1 DEF Minus
  <1>3. r \in [1 .. n - 1 -> 1 .. l]
    BY <1>0, <1>1 DEF Minus
  <1>4. \A a \in 1 .. n - 1 : r[a] # q[p]
    BY <1>0, <1>2
  <1>5. \A a, b \in 1 .. n - 1 : r[a] = r[b] => a = b
    BY <1>0, <1>2
  <1>6. ASSUME NEW b \in 1 .. n, b # p PROVE \E a \in 1 .. n - 1 : r[a] = q[b]
    <2>1. CASE b < p
      <3>1. b \in 1 .. n - 1
        BY <1>0, <2>1
      <3> QED
        BY <1>0, <1>2, <2>1, <3>1
    <2>2. CASE b > p
      <3>1. b - 1 \in 1 .. n - 1 /\ ~ (b - 1 < p) /\ b - 1 + 1 = b
        BY <1>0, <2>2
      <3> QED
        BY <1>0, <1>2, <3>1
    <2> QED
      BY <1>0, <1>6, <2>1, <2>2
  <1> QED
    <2>1. n - 1 \in Nat
      BY <1>0
    <2>2. List(r, n - 1, l)
      BY <1>3, <1>5, <2>1 DEF List
    <2> QED
      BY <1>1, <1>2, <1>4, <1>6, <2>2 DEF IsMinus

LEMMA UnlinkChain ==
  ASSUME NEW c, Shape(c), NEW n, NEW q, Chain(c, q, n), Links(c, q, n), NEW p \in 1 .. n,
         NEW d, d = Unlink(c, q[p]), NEW r, r = Minus(q, n, p)
  PROVE  Shape(d) /\ SameEntries(c, d) /\ Chain(d, r, n - 1) /\ Links(d, r, n - 1)
  <1>1. PICK l \in Nat : l = Len(c.slots)
    BY CacheFields
  <1>2. n \in Nat /\ p \in Nat /\ q \in [1 .. n -> 1 .. l] /\ \A a, b \in 1 .. n : q[a] = q[b] => a = b
    BY <1>1 DEF Chain, List
  <1>3. PICK i \in 1 .. l : i = q[p]
    BY <1>2
  <1>4. PICK u : u = IF p = 1 THEN Nil ELSE q[p - 1]
    OBVIOUS
  <1>5. PICK v : v = IF p = n THEN Nil ELSE q[p + 1]
    OBVIOUS
  <1>6. u \in 0 .. l /\ v \in 0 .. l
    BY <1>2, <1>4, <1>5 DEF Nil
  <1>7. c.slots[i].prev = u /\ c.slots[i].next = v
    BY <1>3, <1>4, <1>5 DEF Links
  <1>8. /\ Shape(d) /\ d.map = c.map /\ d.free = c.free /\ d.len = c.len /\ Len(d.slots) = l
        /\ d.head = (IF u = Nil THEN v ELSE c.head) /\ d.tail = (IF v = Nil THEN u ELSE c.tail)
        /\ \A j \in 1 .. l :
              /\ d.slots[j].key = c.slots[j].key /\ d.slots[j].value = c.slots[j].value
              /\ d.slots[j].prev = IF j = i THEN Nil ELSE IF j = v THEN u ELSE c.slots[j].prev
              /\ d.slots[j].next = IF j = i THEN Nil ELSE IF j = u THEN v ELSE c.slots[j].next
    <2>1. /\ i \in 1 .. Len(c.slots) /\ u \in 0 .. Len(c.slots) /\ v \in 0 .. Len(c.slots)
          /\ u = c.slots[i].prev /\ v = c.slots[i].next /\ d = Unlink(c, i)
      BY <1>1, <1>3, <1>6, <1>7
    <2>2. Unlinked(c, d, i, u, v)
      BY <2>1, UnlinkIs, Zenon
    <2> QED
      BY <1>1, <2>2 DEF Unlinked
  <1>9. SameEntries(c, d)
    BY <1>1, <1>8 DEF SameEntries
  <1>10. /\ r \in [1 .. n - 1 -> 1 .. l]
         /\ \A a \in 1 .. n - 1 : r[a] = (IF a < p THEN q[a] ELSE q[a + 1]) /\ r[a] # i
         /\ \A a, b \in 1 .. n - 1 : r[a] = r[b] => a = b
    <2>1. List(q, n, l)
      BY <1>1 DEF Chain
    <2>2. IsMinus(r, q, n, p, l)
      BY <1>1, <2>1, MinusIs, Zenon
    <2> QED
      BY <1>3, <2>2 DEF IsMinus, List
  <1>11. Chain(d, r, n - 1)
    BY <1>2, <1>8, <1>10 DEF Chain, List
  <1>12. /\ c.head = IF n = 0 THEN Nil ELSE q[1]
         /\ c.tail = IF n = 0 THEN Nil ELSE q[n]
         /\ \A a \in 1 .. n : /\ c.slots[q[a]].prev = IF a = 1 THEN Nil ELSE q[a - 1]
                              /\ c.slots[q[a]].next = IF a = n THEN Nil ELSE q[a + 1]
    BY DEF Links
  <1>13. /\ d.head = IF n - 1 = 0 THEN Nil ELSE r[1]
         /\ d.tail = IF n - 1 = 0 THEN Nil ELSE r[n - 1]
    BY <1>2, <1>4, <1>5, <1>8, <1>10, <1>12 DEF Nil
  <1>14. ASSUME NEW a \in 1 .. n - 1
         PROVE  /\ d.slots[r[a]].prev = IF a = 1 THEN Nil ELSE r[a - 1]
                /\ d.slots[r[a]].next = IF a = n - 1 THEN Nil ELSE r[a + 1]
    <2>1. CASE a < p
      <3>1. r[a] = q[a] /\ q[a] \in 1 .. l /\ q[a] # i /\ a \in 1 .. n /\ q[a] # v
        BY <1>2, <1>5, <1>10, <2>1 DEF Nil
      <3>2. q[a] = u <=> a = p - 1
        BY <1>2, <1>4, <2>1 DEF Nil
      <3>3. d.slots[q[a]].prev = c.slots[q[a]].prev
        BY <1>8, <3>1
      <3>4. a # 1 => r[a - 1] = q[a - 1]
        BY <1>2, <1>10, <2>1
      <3>5. d.slots[q[a]].next = IF a = p - 1 THEN v ELSE q[a + 1]
        BY <1>2, <1>8, <1>12, <2>1, <3>1, <3>2
      <3>6. a # n - 1 => r[a + 1] = IF a = p - 1 THEN q[p + 1] ELSE q[a + 1]
        BY <1>2, <1>10, <2>1
      <3>7. a = n - 1 => a = p - 1 /\ p = n
        BY <1>2, <2>1
      <3>8. a # n - 1 /\ a = p - 1 => p # n
        BY <1>2
      <3> QED
        BY <1>5, <1>12, <3>1, <3>3, <3>4, <3>5, <3>6, <3>7, <3>8
    <2>2. CASE ~ (a < p)
      <3>1. r[a] = q[a + 1] /\ a + 1 \in 1 .. n /\ q[a + 1] \in 1 .. l /\ q[a + 1] # i /\ q[a + 1] # u
        BY <1>2, <1>4, <1>10, <2>2 DEF Nil
      <3>2. q[a + 1] = v <=> a = p
        BY <1>2, <1>5, <2>2, <3>1 DEF Nil
      <3>3. d.slots[q[a + 1]].next = c.slots[q[a + 1]].next
        BY <1>8, <3>1
      <3>4. c.slots[q[a + 1]].next = IF a + 1 = n THEN Nil ELSE q[a + 1 + 1]
        BY <1>12, <3>1
      <3>5. a # n - 1 => r[a + 1] = q[a + 1 + 1]
        BY <1>2, <1>10, <2>2
      <3>6. d.slots[q[a + 1]].prev = IF a = p THEN u ELSE q[a]
        <4>1. c.slots[q[a + 1]].prev = q[a]
          BY <1>2, <1>12, <3>1
        <4> QED
          BY <1>8, <3>1, <3>2, <4>1
      <3>7. a # 1 => r[a - 1] = IF a = p THEN q[p - 1] ELSE q[a]
        BY <1>2, <1>10, <2>2
      <3>8. a = 1 => a = p /\ p = 1
        BY <1>2, <2>2
      <3>9. a + 1 = n <=> a = n - 1
        BY <1>2
      <3> QED
        BY <1>4, <3>1, <3>3, <3>4, <3>5, <3>6, <3>7, <3>8, <3>9
    <2> QED
      BY <2>1, <2>2
  <1>15. Links(d, r, n - 1)
    BY <1>13, <1>14 DEF Links
  <1> QED
    BY <1>8, <1>9, <1>11, <1>15

LEMMA FrontChain ==
  ASSUME NEW c, Shape(c), NEW n, NEW q, Chain(c, q, n), Links(c, q, n), NEW i \in 1 .. Len(c.slots),
         \A a \in 1 .. n : q[a] # i, NEW d, d = LinkFront(c, i), NEW r, r = Plus(i, q, n)
  PROVE  Shape(d) /\ SameEntries(c, d) /\ Chain(d, r, n + 1) /\ Links(d, r, n + 1)
  <1>1. PICK l \in Nat : l = Len(c.slots)
    BY CacheFields
  <1>2. n \in Nat /\ q \in [1 .. n -> 1 .. l] /\ \A a, b \in 1 .. n : q[a] = q[b] => a = b
    BY <1>1 DEF Chain, List
  <1>3. i \in 1 .. l
    BY <1>1
  <1>4. /\ c.head = IF n = 0 THEN Nil ELSE q[1]
        /\ c.tail = IF n = 0 THEN Nil ELSE q[n]
        /\ \A a \in 1 .. n : /\ c.slots[q[a]].prev = IF a = 1 THEN Nil ELSE q[a - 1]
                             /\ c.slots[q[a]].next = IF a = n THEN Nil ELSE q[a + 1]
    BY DEF Links
  <1>5. c.head \in 0 .. l /\ c.head # i /\ (c.head = Nil <=> n = 0)
    BY <1>2, <1>3, <1>4 DEF Nil
  <1>6. /\ Shape(d) /\ d.map = c.map /\ d.free = c.free /\ d.len = c.len /\ Len(d.slots) = l
        /\ d.head = i /\ d.tail = IF c.head = Nil THEN i ELSE c.tail
        /\ \A j \in 1 .. l :
              /\ d.slots[j].key = c.slots[j].key /\ d.slots[j].value = c.slots[j].value
              /\ d.slots[j].prev = IF j = i THEN Nil ELSE IF j = c.head THEN i ELSE c.slots[j].prev
              /\ d.slots[j].next = IF j = i THEN c.head ELSE c.slots[j].next
    <2>1. c.head \in 0 .. Len(c.slots) /\ c.head # i
      BY <1>1, <1>5
    <2>2. Fronted(c, d, i)
      BY <2>1, LinkFrontIs, Zenon
    <2> QED
      BY <1>1, <2>2 DEF Fronted
  <1>7. SameEntries(c, d)
    BY <1>1, <1>6 DEF SameEntries
  <1>8. /\ r \in [1 .. n + 1 -> 1 .. l] /\ r[1] = i
        /\ \A a \in 1 .. n + 1 : a # 1 => r[a] = q[a - 1] /\ a - 1 \in 1 .. n
    BY <1>2, <1>3 DEF Plus
  <1>9. ASSUME NEW a \in 1 .. n + 1, NEW b \in 1 .. n + 1, r[a] = r[b] PROVE a = b
    <2>1. CASE a = 1 \/ b = 1
      BY <1>8, <1>9, <2>1
    <2>2. CASE a # 1 /\ b # 1
      <3>1. PICK x \in 1 .. n, y \in 1 .. n : x = a - 1 /\ y = b - 1 /\ r[a] = q[x] /\ r[b] = q[y]
        BY <1>8, <2>2
      <3>2. x = y
        BY <1>2, <1>9, <3>1
      <3> QED
        BY <1>2, <3>1, <3>2
    <2> QED
      BY <2>1, <2>2
  <1>10. Chain(d, r, n + 1)
    BY <1>2, <1>6, <1>8, <1>9 DEF Chain, List
  <1>11. d.head = r[1] /\ d.tail = r[n + 1] /\ n + 1 # 0
    BY <1>2, <1>4, <1>5, <1>6, <1>8
  <1>12. ASSUME NEW a \in 1 .. n + 1
         PROVE  /\ d.slots[r[a]].prev = IF a = 1 THEN Nil ELSE r[a - 1]
                /\ d.slots[r[a]].next = IF a = n + 1 THEN Nil ELSE r[a + 1]
    <2>1. CASE a = 1
      <3>1. d.slots[i].prev = Nil /\ d.slots[i].next = c.head
        BY <1>3, <1>6
      <3>2. n # 0 => r[2] = q[1]
        BY <1>2, <1>8
      <3> QED
        BY <1>2, <1>4, <1>8, <2>1, <3>1, <3>2
    <2>2. CASE a # 1
      <3>1. PICK b \in 1 .. n : b = a - 1 /\ r[a] = q[b]
        BY <1>8, <2>2
      <3>2. q[b] \in 1 .. l /\ q[b] # i /\ (q[b] = c.head <=> b = 1)
        BY <1>2, <1>4
      <3>3. d.slots[q[b]].prev = (IF b = 1 THEN i ELSE q[b - 1]) /\ d.slots[q[b]].next = c.slots[q[b]].next
        BY <1>4, <1>6, <3>2
      <3>4. r[a - 1] = IF b = 1 THEN i ELSE q[b - 1]
        BY <1>2, <1>8, <3>1
      <3>5. (a = n + 1 <=> b = n) /\ (a # n + 1 => r[a + 1] = q[b + 1])
        BY <1>2, <1>8, <3>1
      <3> QED
        BY <1>4, <2>2, <3>1, <3>3, <3>4, <3>5
    <2> QED
      BY <2>1, <2>2
  <1>13. Links(d, r, n + 1)
    BY <1>11, <1>12 DEF Links
  <1> QED
    BY <1>6, <1>7, <1>10, <1>13

LEMMA NatMin ==
  ASSUME NEW T \in SUBSET Nat, T # {}
  PROVE  \E n \in T : \A m \in T : n <= m
  <1>1. PICK n \in T : \A m \in T : <<m, n>> \notin OpToRel(<, Nat)
    BY NatLessThanWellFounded, WFMin
  <1>2. \A m \in T : ~(m < n)
    BY <1>1 DEF OpToRel
  <1>3. ASSUME NEW m \in T PROVE n <= m
    <2>1. n \in Nat /\ m \in Nat
      OBVIOUS
    <2> QED BY <2>1, <1>2
  <1> QED BY <1>3

\* Following the links from the head visits the list and then stays at Nil.
Course(q, n) == [m \in 0 .. Capacity |-> IF m < n THEN q[m + 1] ELSE Nil]

Onward(c, at) ==
  [m \in 0 .. Capacity |-> IF m = 0 THEN c.head ELSE IF at[m - 1] = Nil THEN Nil ELSE c.slots[at[m - 1]].next]

LEMMA CourseGoesOn ==
  ASSUME NEW c, NEW n, NEW q, NEW l \in Nat, List(q, n, l), Links(c, q, n), n <= Capacity
  PROVE  Course(q, n) = Onward(c, Course(q, n))
  <1>1. n \in Nat /\ Capacity \in Nat /\ q \in [1 .. n -> 1 .. l]
    BY CapacityAssumption DEF List
  <1>2. PICK t : t = Course(q, n)
    OBVIOUS
  <1>3. \A m \in 0 .. Capacity : t[m] = IF m < n THEN q[m + 1] ELSE Nil
    BY <1>2 DEF Course
  <1>4. ASSUME NEW m \in 0 .. Capacity
        PROVE  t[m] = IF m = 0 THEN c.head ELSE IF t[m - 1] = Nil THEN Nil ELSE c.slots[t[m - 1]].next
    <2>1. CASE m = 0
      BY <1>1, <1>3, <2>1 DEF Links
    <2>2. CASE m # 0
      <3>1. PICK b \in 0 .. Capacity : b = m - 1 /\ m = b + 1
        BY <1>1, <2>2
      <3>2. t[b] = IF b < n THEN q[m] ELSE Nil
        BY <1>3, <3>1
      <3>3. CASE b < n
        <4>1. m \in 1 .. n /\ q[m] \in 1 .. l
          BY <1>1, <3>1, <3>3
        <4>2. q[m] # Nil
          BY <4>1 DEF Nil
        <4>3. c.slots[q[m]].next = IF m = n THEN Nil ELSE q[m + 1]
          BY <4>1 DEF Links
        <4>4. m < n <=> m # n
          BY <1>1, <4>1
        <4> QED
          BY <1>3, <2>2, <3>1, <3>2, <3>3, <4>2, <4>3, <4>4
      <3>4. CASE ~ (b < n)
        <4>1. ~ (m < n)
          BY <1>1, <3>1, <3>4
        <4> QED
          BY <1>3, <2>2, <3>1, <3>2, <3>4, <4>1
      <3> QED
        BY <3>3, <3>4
    <2> QED
      BY <2>1, <2>2
  <1>5. t = [m \in 0 .. Capacity |-> t[m]]
    BY <1>2 DEF Course
  <1> QED
    BY <1>2, <1>4, <1>5 DEF Onward

LEMMA TrailGoesOn ==
  ASSUME NEW c, NEW t, t = Onward(c, t)
  PROVE  Trail(c) = Onward(c, Trail(c))
  BY DEF Trail, Onward

LEMMA OnwardIsOne ==
  ASSUME NEW c, NEW s, NEW t, s = Onward(c, s), t = Onward(c, t)
  PROVE  s = t
  <1> DEFINE U == {m \in 0 .. Capacity : s[m] # t[m]}
  <1>1. s = [m \in 0 .. Capacity |-> s[m]] /\ t = [m \in 0 .. Capacity |-> t[m]]
    BY DEF Onward
  <1>2. ASSUME U # {} PROVE FALSE
    <2>1. PICK m \in U : \A b \in U : m <= b
      <3>1. U \in SUBSET Nat
        OBVIOUS
      <3> HIDE DEF U
      <3> QED BY <1>2, <3>1, NatMin
    <2>2. m # 0
      BY <2>1 DEF Onward
    <2>3. PICK b \in 0 .. Capacity : b = m - 1
      BY <2>1, <2>2, CapacityAssumption
    <2>4. s[b] = t[b]
      BY <2>1, <2>3
    <2> QED
      BY <2>1, <2>2, <2>3, <2>4 DEF Onward
  <1> QED
    BY <1>1, <1>2

\* The entries of a list of slots, in its order.
Item(c, i) == [key |-> c.slots[i].key, value |-> c.slots[i].value]
Row(c, q, n) == [j \in 1 .. n |-> Item(c, q[j])]

LEMMA WalkIs ==
  ASSUME NEW c, NEW n, NEW q, Holds(c, q, n)
  PROVE  Walk(c) = Row(c, q, n)
  <1>1. PICK l \in Nat : l = Len(c.slots)
    BY CacheFields DEF Holds
  <1>2. List(q, n, l) /\ Links(c, q, n) /\ n <= Capacity
    BY <1>1 DEF Holds, Chain, Slab
  <1>3. n \in Nat /\ Capacity \in Nat /\ q \in [1 .. n -> 1 .. l]
    BY <1>2, CapacityAssumption DEF List
  <1>4. Course(q, n) = Onward(c, Course(q, n))
    BY <1>1, <1>2, CourseGoesOn, Zenon
  <1>5. Trail(c) = Onward(c, Trail(c))
    BY <1>4, TrailGoesOn, Zenon
  <1>6. Trail(c) = Course(q, n)
    BY <1>4, <1>5, OnwardIsOne, Zenon
  <1>7. PICK at : at = Course(q, n)
    OBVIOUS
  <1>8. \A m \in 0 .. Capacity : at[m] = IF m < n THEN q[m + 1] ELSE Nil
    BY <1>7 DEF Course
  <1>9. {m \in 0 .. Capacity : at[m] # Nil} = 0 .. n - 1
    <2>1. ASSUME NEW m \in 0 .. Capacity PROVE at[m] # Nil <=> m \in 0 .. n - 1
      <3>1. CASE m < n
        <4>1. q[m + 1] \in 1 .. l
          BY <1>3, <3>1
        <4> QED
          BY <1>3, <1>8, <3>1, <4>1 DEF Nil
      <3>2. CASE ~ (m < n)
        BY <1>3, <1>8, <3>2
      <3> QED
        BY <3>1, <3>2
    <2>2. 0 .. n - 1 \subseteq 0 .. Capacity
      BY <1>2, <1>3
    <2> QED
      BY <2>1, <2>2
  <1>10. Cardinality({m \in 0 .. Capacity : at[m] # Nil}) = n
    <2>1. Cardinality(0 .. n - 1) = IF 0 > n - 1 THEN 0 ELSE n - 1 - 0 + 1
      BY <1>3, FS_Interval
    <2>2. n = IF 0 > n - 1 THEN 0 ELSE n - 1 - 0 + 1
      BY <1>3
    <2> QED
      BY <1>9, <2>1, <2>2
  <1>11. ASSUME NEW j \in 1 .. n PROVE at[j - 1] = q[j]
    <2>1. j - 1 \in 0 .. Capacity /\ j - 1 < n /\ j - 1 + 1 = j
      BY <1>2, <1>3
    <2> QED
      BY <1>8, <2>1
  <1>12. Walk(c) = [j \in 1 .. n |-> [key |-> c.slots[at[j - 1]].key, value |-> c.slots[at[j - 1]].value]]
    BY <1>6, <1>7, <1>10 DEF Walk
  <1> QED
    BY <1>11, <1>12 DEF Row, Item

\* The sequence operators of RecencyList, as Minus and Plus.
LEMMA SeqMinus ==
  ASSUME NEW S, NEW s \in Seq(S), NEW p \in 1 .. Len(s)
  PROVE  Recency!RemoveAt(s, p) = Minus(s, Len(s), p)
  <1>1. PICK n \in Nat : n = Len(s) /\ p \in 1 .. n /\ p \in Nat
    OBVIOUS
  <1>2. PICK u : u = SubSeq(s, 1, p - 1)
    OBVIOUS
  <1>3. PICK v : v = SubSeq(s, p + 1, n)
    OBVIOUS
  <1>4. u \in Seq(S) /\ Len(u) = p - 1 /\ \A a \in 1 .. p - 1 : u[a] = s[a]
    BY <1>1, <1>2
  <1>5. v \in Seq(S) /\ Len(v) = n - p /\ \A a \in 1 .. n - p : v[a] = s[p + a]
    BY <1>1, <1>3
  <1>6. PICK w : w = u \o v
    OBVIOUS
  <1>7. w = [a \in 1 .. n - 1 |-> w[a]] /\ \A a \in 1 .. n - 1 : w[a] = IF a <= p - 1 THEN u[a] ELSE v[a - (p - 1)]
    <2>1. w \in Seq(S) /\ Len(w) = Len(u) + Len(v)
      BY <1>4, <1>5, <1>6, ConcatProperties
    <2>2. Len(w) = n - 1
      BY <1>1, <1>4, <1>5, <2>1
    <2>3. w = [a \in 1 .. n - 1 |-> w[a]]
      BY <2>1, <2>2, LenProperties
    <2>4. \A a \in 1 .. Len(u) + Len(v) : w[a] = IF a <= Len(u) THEN u[a] ELSE v[a - Len(u)]
      BY <1>4, <1>5, <1>6, ConcatProperties
    <2> QED
      BY <1>4, <2>1, <2>2, <2>3, <2>4
  <1>8. ASSUME NEW a \in 1 .. n - 1 PROVE w[a] = IF a < p THEN s[a] ELSE s[a + 1]
    <2>1. CASE a < p
      BY <1>1, <1>4, <1>7, <2>1
    <2>2. CASE ~ (a < p)
      <3>1. PICK b \in 1 .. n - p : b = a - (p - 1) /\ p + b = a + 1
        BY <1>1, <2>2
      <3> QED
        BY <1>1, <1>5, <1>7, <2>2, <3>1
    <2> QED
      BY <2>1, <2>2
  <1>9. w = Minus(s, n, p)
    BY <1>7, <1>8 DEF Minus
  <1> QED
    BY <1>1, <1>2, <1>3, <1>6, <1>9 DEF Recency!RemoveAt

LEMMA SeqFront ==
  ASSUME NEW S, NEW s \in Seq(S), s # <<>>
  PROVE  Recency!Front(s) = Minus(s, Len(s), Len(s)) /\ Recency!Last(s) = s[Len(s)]
  <1>1. PICK n \in Nat : n = Len(s) /\ n > 0
    BY EmptySeq
  <1>2. SubSeq(s, 1, n - 1) = [a \in 1 .. n - 1 |-> s[a]]
    BY <1>1
  <1>3. Minus(s, n, n) = [a \in 1 .. n - 1 |-> s[a]]
    BY <1>1 DEF Minus
  <1> QED
    BY <1>1, <1>2, <1>3 DEF Recency!Front, Recency!Last

LEMMA SeqPlus ==
  ASSUME NEW S, NEW s \in Seq(S), NEW x \in S
  PROVE  <<x>> \o s = Plus(x, s, Len(s))
  <1>1. PICK n \in Nat : n = Len(s)
    OBVIOUS
  <1>2. PICK w : w = <<x>> \o s
    OBVIOUS
  <1>3. w = [a \in 1 .. n + 1 |-> w[a]] /\ \A a \in 1 .. n + 1 : w[a] = IF a = 1 THEN x ELSE s[a - 1]
    BY <1>1, <1>2
  <1> QED
    BY <1>1, <1>2, <1>3 DEF Plus

LEMMA RowMinus ==
  ASSUME NEW c, NEW n \in Nat, NEW q, NEW p \in 1 .. n
  PROVE  Row(c, Minus(q, n, p), n - 1) = Minus(Row(c, q, n), n, p)
  BY DEF Row, Minus

LEMMA RowPlus ==
  ASSUME NEW c, NEW n \in Nat, NEW q, NEW i
  PROVE  Row(c, Plus(i, q, n), n + 1) = Plus(Item(c, i), Row(c, q, n), n)
  BY DEF Row, Plus

LEMMA RowSame ==
  ASSUME NEW c, NEW d, NEW n \in Nat, NEW q, \A a \in 1 .. n : Item(c, q[a]) = Item(d, q[a])
  PROVE  Row(c, q, n) = Row(d, q, n)
  BY DEF Row

\* An order of the same slots is as well indexed and as far from the free list.
Shuffled(q, r, n) ==
  /\ \A a \in 1 .. n : \E b \in 1 .. n : r[a] = q[b]
  /\ \A b \in 1 .. n : \E a \in 1 .. n : r[a] = q[b]

LEMMA ShuffledHolds ==
  ASSUME NEW c, NEW n, NEW q, NEW d, NEW r, Holds(c, q, n), Shuffled(q, r, n), SameEntries(c, d),
         Shape(d), Chain(d, r, n), Links(d, r, n)
  PROVE  Holds(d, r, n)
  <1>1. PICK l \in Nat : l = Len(c.slots) /\ l = Len(d.slots)
    BY CacheFields DEF Holds, SameEntries
  <1>2. q \in [1 .. n -> 1 .. l]
    BY <1>1 DEF Holds, Chain, List
  <1>3. \A j \in 1 .. l : d.slots[j].key = c.slots[j].key
    BY <1>1 DEF SameEntries
  <1>4. d.map = c.map /\ d.free = c.free /\ d.len = c.len
    BY DEF SameEntries
  <1>5. \A a \in 1 .. n : c.slots[q[a]].key = d.slots[q[a]].key
    BY <1>2, <1>3
  <1>6. Index(c, q, n)
    BY DEF Holds
  <1>7. ASSUME NEW a \in 1 .. n PROVE d.slots[r[a]].key \in Keys /\ d.map[d.slots[r[a]].key] = r[a]
    <2>1. PICK b \in 1 .. n : r[a] = q[b]
      BY DEF Shuffled
    <2> QED
      BY <1>4, <1>5, <1>6, <2>1 DEF Index
  <1>8. ASSUME NEW k \in Keys, d.map[k] # Nil PROVE \E a \in 1 .. n : r[a] = d.map[k] /\ d.slots[r[a]].key = k
    <2>1. PICK b \in 1 .. n : q[b] = c.map[k] /\ c.slots[q[b]].key = k
      BY <1>4, <1>6, <1>8 DEF Index
    <2>2. PICK a \in 1 .. n : r[a] = q[b]
      BY DEF Shuffled
    <2> QED
      BY <1>4, <1>5, <2>1, <2>2
  <1>9. Index(d, r, n)
    BY <1>7, <1>8 DEF Index
  <1>10. Slab(c, q, n)
    BY DEF Holds
  <1>11. ASSUME NEW a \in 1 .. Len(d.free), NEW b \in 1 .. n PROVE d.free[a] # r[b]
    <2>1. PICK x \in 1 .. n : r[b] = q[x]
      BY DEF Shuffled
    <2>2. c.free[a] # q[x]
      BY <1>4, <1>10, <1>11 DEF Slab
    <2> QED
      BY <1>4, <2>1, <2>2
  <1>12. Slab(d, r, n)
    BY <1>1, <1>4, <1>10, <1>11 DEF Slab
  <1> QED
    BY <1>9, <1>12 DEF Holds

LEMMA FrontIsFirst ==
  ASSUME NEW c, NEW n, NEW q, Holds(c, q, n), NEW p \in 1 .. n, c.head = q[p]
  PROVE  p = 1 /\ Plus(q[p], Minus(q, n, p), n - 1) = q
  <1>1. n \in Nat /\ n # 0 /\ p \in Nat /\ q = [a \in 1 .. n |-> q[a]] /\ \A a, b \in 1 .. n : q[a] = q[b] => a = b
    BY DEF Holds, Chain, List
  <1>2. c.head = q[1]
    BY <1>1 DEF Holds, Links
  <1>3. p = 1
    BY <1>1, <1>2
  <1>4. PICK r : r = Minus(q, n, 1)
    OBVIOUS
  <1>5. \A a \in 1 .. n - 1 : r[a] = q[a + 1]
    BY <1>1, <1>4 DEF Minus
  <1>6. PICK s : s = Plus(q[1], r, n - 1)
    OBVIOUS
  <1>7. s = [a \in 1 .. n |-> s[a]] /\ \A a \in 1 .. n : s[a] = IF a = 1 THEN q[1] ELSE r[a - 1]
    BY <1>1, <1>6 DEF Plus
  <1>8. ASSUME NEW a \in 1 .. n PROVE s[a] = q[a]
    <2>1. CASE a = 1
      BY <1>7, <2>1
    <2>2. CASE a # 1
      <3>1. a - 1 \in 1 .. n - 1 /\ a - 1 + 1 = a
        BY <1>1, <2>2
      <3> QED
        BY <1>5, <1>7, <2>2, <3>1
    <2> QED
      BY <2>1, <2>2
  <1> QED
    BY <1>1, <1>3, <1>4, <1>6, <1>7, <1>8

\* Moving a slot to the front.
LEMMA MoveHolds ==
  ASSUME NEW c, NEW n, NEW q, Holds(c, q, n), NEW p \in 1 .. n, NEW d, d = MoveToFront(c, q[p]),
         NEW r, r = Plus(q[p], Minus(q, n, p), n - 1)
  PROVE  Holds(d, r, n) /\ Row(d, r, n) = Plus(Row(c, q, n)[p], Minus(Row(c, q, n), n, p), n - 1)
  <1>1. PICK l \in Nat : l = Len(c.slots)
    BY CacheFields DEF Holds
  <1>2. List(q, n, l)
    BY <1>1 DEF Holds, Chain
  <1>3. n \in Nat /\ q \in [1 .. n -> 1 .. l] /\ n # 0 /\ n - 1 \in Nat /\ n - 1 + 1 = n
    BY <1>2 DEF List
  <1>4. Row(c, r, n) = Plus(Row(c, q, n)[p], Minus(Row(c, q, n), n, p), n - 1)
    <2>1. Row(c, Plus(q[p], Minus(q, n, p), n - 1), n - 1 + 1) = Plus(Item(c, q[p]), Row(c, Minus(q, n, p), n - 1), n - 1)
      BY <1>3, RowPlus, Zenon
    <2>2. Row(c, Minus(q, n, p), n - 1) = Minus(Row(c, q, n), n, p)
      BY <1>3, RowMinus, Zenon
    <2>3. Row(c, q, n)[p] = Item(c, q[p])
      BY DEF Row
    <2> QED
      BY <1>3, <2>1, <2>2, <2>3
  <1>5. CASE c.head = q[p]
    <2>1. r = q
      BY <1>5, FrontIsFirst
    <2>2. d = c
      BY <1>5 DEF MoveToFront
    <2> QED
      BY <1>4, <2>1, <2>2
  <1>6. CASE c.head # q[p]
    <2>1. PICK m : m = Minus(q, n, p)
      OBVIOUS
    <2>2. PICK e : e = Unlink(c, q[p])
      OBVIOUS
    <2>3. Shape(e) /\ SameEntries(c, e) /\ Chain(e, m, n - 1) /\ Links(e, m, n - 1)
      BY <2>1, <2>2, UnlinkChain, Zenon DEF Holds
    <2>4. IsMinus(m, q, n, p, l)
      BY <1>1, <1>2, <2>1, MinusIs, Zenon
    <2>5. \A a \in 1 .. n - 1 : m[a] # q[p]
      BY <2>4 DEF IsMinus
    <2>6. d = LinkFront(e, q[p]) /\ r = Plus(q[p], m, n - 1)
      BY <1>6, <2>1, <2>2 DEF MoveToFront
    <2>7. q[p] \in 1 .. Len(e.slots)
      BY <1>1, <1>3, <2>3 DEF SameEntries
    <2>8. Shape(d) /\ SameEntries(e, d) /\ Chain(d, r, n - 1 + 1) /\ Links(d, r, n - 1 + 1)
      BY <2>3, <2>5, <2>6, <2>7, FrontChain, Zenon
    <2>9. SameEntries(c, d)
      BY <1>1, <2>3, <2>8 DEF SameEntries
    <2>10. \A a \in 1 .. n : r[a] = IF a = 1 THEN q[p] ELSE m[a - 1]
      BY <1>3, <2>6 DEF Plus
    <2>11. Shuffled(q, r, n)
      <3>1. ASSUME NEW a \in 1 .. n PROVE \E b \in 1 .. n : r[a] = q[b]
        <4>1. CASE a = 1
          BY <2>10, <4>1
        <4>2. CASE a # 1
          <5>1. a - 1 \in 1 .. n - 1
            BY <1>3, <4>2
          <5>2. m[a - 1] = q[a - 1] \/ m[a - 1] = q[a - 1 + 1]
            BY <2>4, <5>1 DEF IsMinus
          <5>3. a - 1 \in 1 .. n /\ a - 1 + 1 \in 1 .. n
            BY <1>3, <5>1
          <5> QED
            BY <2>10, <4>2, <5>2, <5>3
        <4> QED
          BY <4>1, <4>2
      <3>2. ASSUME NEW b \in 1 .. n PROVE \E a \in 1 .. n : r[a] = q[b]
        <4>1. CASE b = p
          <5>1. 1 \in 1 .. n
            BY <1>3
          <5> QED
            BY <2>10, <4>1, <5>1
        <4>2. CASE b # p
          <5>1. PICK a \in 1 .. n - 1 : m[a] = q[b]
            BY <2>4, <4>2 DEF IsMinus
          <5>2. a + 1 \in 1 .. n /\ a + 1 # 1 /\ a + 1 - 1 = a
            BY <1>3, <5>1
          <5> QED
            BY <2>10, <5>1, <5>2
        <4> QED
          BY <4>1, <4>2
      <3> QED
        BY <3>1, <3>2 DEF Shuffled
    <2>12. Chain(d, r, n) /\ Links(d, r, n)
      BY <1>3, <2>8
    <2>13. Holds(d, r, n)
      BY <2>8, <2>9, <2>11, <2>12, ShuffledHolds, Zenon
    <2>14. Row(d, r, n) = Row(c, r, n)
      <3>1. \A a \in 1 .. n : r[a] \in 1 .. l
        BY <1>3, <2>11 DEF Shuffled
      <3>2. \A a \in 1 .. n : Item(c, r[a]) = Item(d, r[a])
        BY <1>1, <2>9, <3>1 DEF SameEntries, Item
      <3> QED
        BY <1>3, <3>2, RowSame, ZenonT(60)
    <2> QED
      BY <1>4, <2>13, <2>14
  <1> QED
    BY <1>5, <1>6

\* d is c with slot i, of key k, unlinked and freed, whatever the slot still holds.
Dropped(c, d, i, k) ==
  LET e == Unlink(c, i)
  IN  /\ Shape(d) /\ d.map = [c.map EXCEPT ![k] = Nil] /\ d.free = Append(c.free, i) /\ d.len = c.len - 1
      /\ d.head = e.head /\ d.tail = e.tail /\ Len(d.slots) = Len(e.slots)
      /\ \A j \in 1 .. Len(e.slots) : j # i => d.slots[j] = e.slots[j]

LEMMA DropHolds ==
  ASSUME NEW c, NEW n, NEW q, Holds(c, q, n), NEW p \in 1 .. n, NEW d, Dropped(c, d, q[p], c.slots[q[p]].key),
         NEW m, m = Minus(q, n, p)
  PROVE  Holds(d, m, n - 1) /\ Row(d, m, n - 1) = Minus(Row(c, q, n), n, p)
  <1>1. PICK l \in Nat : l = Len(c.slots)
    BY CacheFields DEF Holds
  <1>2. List(q, n, l)
    BY <1>1 DEF Holds, Chain
  <1>3. n \in Nat /\ q \in [1 .. n -> 1 .. l] /\ n # 0 /\ n - 1 \in Nat
    BY <1>2 DEF List
  <1>4. PICK i \in 1 .. l : i = q[p]
    BY <1>3
  <1>5. Index(c, q, n) /\ Slab(c, q, n) /\ c.map \in [Keys -> Nat] /\ c.free \in Seq(Nat)
    BY CacheFields DEF Holds
  <1>6. PICK k \in Keys : k = c.slots[i].key /\ c.map[k] = i
    BY <1>4, <1>5 DEF Index
  <1>7. PICK e : e = Unlink(c, i)
    OBVIOUS
  <1>8. Shape(e) /\ SameEntries(c, e) /\ Chain(e, m, n - 1) /\ Links(e, m, n - 1)
    BY <1>4, <1>7, UnlinkChain, Zenon DEF Holds
  <1>9. Len(e.slots) = l /\ \A j \in 1 .. l : e.slots[j].key = c.slots[j].key /\ e.slots[j].value = c.slots[j].value
    BY <1>1, <1>8 DEF SameEntries
  <1>10. /\ Shape(d) /\ d.map = [c.map EXCEPT ![k] = Nil] /\ d.free = Append(c.free, i) /\ d.len = c.len - 1
         /\ d.head = e.head /\ d.tail = e.tail /\ Len(d.slots) = l
         /\ \A j \in 1 .. l : j # i => d.slots[j] = e.slots[j]
    BY <1>4, <1>6, <1>7, <1>9 DEF Dropped
  <1>11. IsMinus(m, q, n, p, l)
    BY <1>1, <1>2, MinusIs, Zenon
  <1>12. \A a \in 1 .. n - 1 : m[a] \in 1 .. l /\ m[a] # i /\ \E b \in 1 .. n : b # p /\ m[a] = q[b]
    <2>1. ASSUME NEW a \in 1 .. n - 1 PROVE m[a] \in 1 .. l /\ m[a] # i /\ \E b \in 1 .. n : b # p /\ m[a] = q[b]
      <3>1. m[a] \in 1 .. l /\ m[a] # i /\ m[a] = IF a < p THEN q[a] ELSE q[a + 1]
        BY <1>4, <1>11 DEF IsMinus, List
      <3>2. PICK b \in 1 .. n : b = IF a < p THEN a ELSE a + 1
        BY <1>3
      <3>3. m[a] = q[b] /\ b # p
        BY <1>3, <3>1, <3>2
      <3> QED
        BY <3>1, <3>3
    <2> QED
      BY <2>1
  <1>13. Chain(d, m, n - 1)
    BY <1>8, <1>9, <1>10 DEF Chain
  <1>14. ASSUME NEW a \in 1 .. n - 1 PROVE d.slots[m[a]] = e.slots[m[a]]
    BY <1>10, <1>12
  <1>15. Links(d, m, n - 1)
    BY <1>8, <1>10, <1>14 DEF Links
  <1>16. ASSUME NEW a \in 1 .. n - 1 PROVE d.slots[m[a]].key \in Keys /\ d.map[d.slots[m[a]].key] = m[a]
    <2>1. PICK b \in 1 .. n : b # p /\ m[a] = q[b]
      BY <1>12
    <2>2. PICK x : x = c.slots[q[b]].key
      OBVIOUS
    <2>3. x \in Keys /\ c.map[x] = q[b]
      BY <1>5, <2>2 DEF Index
    <2>4. x # k
      BY <1>6, <1>12, <2>1, <2>3
    <2>5. d.slots[m[a]].key = x
      BY <1>9, <1>12, <1>14, <2>1, <2>2
    <2> QED
      BY <1>5, <1>10, <2>1, <2>3, <2>4, <2>5
  <1>17. ASSUME NEW x \in Keys, d.map[x] # Nil PROVE \E a \in 1 .. n - 1 : m[a] = d.map[x] /\ d.slots[m[a]].key = x
    <2>1. x # k /\ d.map[x] = c.map[x]
      BY <1>5, <1>10, <1>17
    <2>2. PICK b \in 1 .. n : q[b] = c.map[x] /\ c.slots[q[b]].key = x
      BY <1>5, <1>17, <2>1 DEF Index
    <2>3. b # p
      BY <1>4, <1>6, <2>1, <2>2
    <2>4. PICK a \in 1 .. n - 1 : m[a] = q[b]
      BY <1>11, <2>3 DEF IsMinus
    <2>5. d.slots[m[a]].key = x
      BY <1>9, <1>12, <1>14, <2>2, <2>4
    <2> QED
      BY <2>1, <2>2, <2>4, <2>5
  <1>18. Index(d, m, n - 1)
    BY <1>16, <1>17 DEF Index
  <1>19. PICK f \in Nat : f = Len(c.free)
    BY <1>5
  <1>20. Len(d.free) = f + 1 /\ d.free[f + 1] = i /\ \A a \in 1 .. f : d.free[a] = c.free[a]
    BY <1>4, <1>5, <1>10, <1>19, AppendProperties
  <1>21. /\ c.len = n /\ n <= Capacity /\ l = n + f /\ l <= Capacity
         /\ \A a \in 1 .. f : c.free[a] \in 1 .. l
         /\ \A a, b \in 1 .. f : c.free[a] = c.free[b] => a = b
         /\ \A a \in 1 .. f, b \in 1 .. n : c.free[a] # q[b]
    BY <1>1, <1>5, <1>19 DEF Slab
  <1>22. /\ d.len = n - 1 /\ n - 1 <= Capacity /\ l = n - 1 + Len(d.free) /\ l <= Capacity
    BY <1>3, <1>10, <1>20, <1>21, CapacityAssumption
  <1>23. ASSUME NEW a \in 1 .. f + 1 PROVE d.free[a] \in 1 .. l
    <2>1. CASE a = f + 1
      BY <1>4, <1>20, <2>1
    <2>2. CASE a \in 1 .. f
      BY <1>20, <1>21, <2>2
    <2> QED
      BY <2>1, <2>2
  <1>24. \A a \in 1 .. f : c.free[a] # i
    BY <1>4, <1>21
  <1>25. ASSUME NEW a \in 1 .. f + 1, NEW b \in 1 .. f + 1, d.free[a] = d.free[b] PROVE a = b
    <2>1. CASE a \in 1 .. f /\ b \in 1 .. f
      BY <1>20, <1>21, <1>25, <2>1
    <2>2. CASE a = f + 1 /\ b \in 1 .. f
      BY <1>20, <1>24, <1>25, <2>2
    <2>3. CASE a \in 1 .. f /\ b = f + 1
      BY <1>20, <1>24, <1>25, <2>3
    <2>4. CASE a = f + 1 /\ b = f + 1
      BY <2>4
    <2> QED
      BY <2>1, <2>2, <2>3, <2>4
  <1>26. ASSUME NEW a \in 1 .. f + 1, NEW b \in 1 .. n - 1 PROVE d.free[a] # m[b]
    <2>1. PICK x \in 1 .. n : x # p /\ m[b] = q[x]
      BY <1>12
    <2>2. CASE a = f + 1
      BY <1>12, <1>20, <2>2
    <2>3. CASE a \in 1 .. f
      BY <1>20, <1>21, <2>1, <2>3
    <2> QED
      BY <2>2, <2>3
  <1>27. Slab(d, m, n - 1)
    BY <1>10, <1>20, <1>22, <1>23, <1>25, <1>26 DEF Slab
  <1>28. Holds(d, m, n - 1)
    BY <1>10, <1>13, <1>15, <1>18, <1>27 DEF Holds
  <1>29. Row(d, m, n - 1) = Row(c, m, n - 1)
    <2>1. \A a \in 1 .. n - 1 : Item(d, m[a]) = Item(c, m[a])
      BY <1>9, <1>12, <1>14 DEF Item
    <2> QED
      BY <1>3, <2>1, RowSame, ZenonT(60)
  <1> QED
    BY <1>3, <1>28, <1>29, RowMinus

\* What remove_at leaves, but for the links.
Removed(c, e, d, i) ==
  /\ Shape(e) /\ Shape(d) /\ d.map = c.map /\ d.free = Append(c.free, i) /\ d.len = c.len - 1
  /\ d.head = e.head /\ d.tail = e.tail /\ d.slots = e.slots
  /\ c.slots[i].key \in Keys /\ i \in 1 .. Len(e.slots)

LEMMA RemoveAtIs ==
  ASSUME NEW c, NEW n, NEW q, Holds(c, q, n), NEW p \in 1 .. n, NEW i, i = q[p], NEW e, e = Unlink(c, i),
         NEW d, d = RemoveAt(c, i)
  PROVE  Removed(c, e, d, i)
  <1>1. PICK l \in Nat : l = Len(c.slots)
    BY CacheFields DEF Holds
  <1>2. n \in Nat /\ n # 0 /\ i \in 1 .. l /\ c.slots[i].key \in Keys /\ c.len = n
    BY <1>1 DEF Holds, Chain, List, Index, Slab
  <1>3. Shape(e) /\ SameEntries(c, e)
    BY UnlinkChain, Zenon DEF Holds
  <1>4. e.len = c.len /\ e.free = c.free /\ e.map = c.map /\ Len(e.slots) = l
    BY <1>1, <1>3 DEF SameEntries
  <1>5. d = [e EXCEPT !.len = c.len - 1, !.free = Append(c.free, i)]
    BY <1>4 DEF RemoveAt
  <1>6. c.free \in Seq(Nat) /\ i \in Nat
    BY <1>2, CacheFields DEF Holds
  <1>7. PICK f : f = Append(c.free, i)
    OBVIOUS
  <1>8. f \in Seq(Nat)
    BY <1>6, <1>7, AppendProperties
  <1>9. d = [e EXCEPT !.len = c.len - 1, !.free = f]
    BY <1>5, <1>7
  <1>10. c.len - 1 \in Nat
    BY <1>2
  <1>11. Shape(d) /\ d.map = e.map /\ d.free = f /\ d.len = c.len - 1 /\ d.head = e.head /\ d.tail = e.tail /\ d.slots = e.slots
    BY <1>3, <1>8, <1>9, <1>10 DEF Shape
  <1> QED
    BY <1>2, <1>3, <1>4, <1>7, <1>11 DEF Removed

Popped(c, i, k) == [RemoveAt(c, i) EXCEPT !.slots[i].value = Absent, !.map[k] = Nil]

LEMMA PopDrops ==
  ASSUME NEW c, NEW n, NEW q, Holds(c, q, n), NEW p \in 1 .. n, NEW i, i = q[p], NEW k, k = c.slots[i].key,
         NEW d, d = Popped(c, i, k)
  PROVE  Dropped(c, d, i, k)
  <1>1. PICK e : e = Unlink(c, i)
    OBVIOUS
  <1>2. PICK b : b = RemoveAt(c, i)
    OBVIOUS
  <1>3. /\ Shape(e) /\ Shape(b) /\ b.map = c.map /\ b.free = Append(c.free, i) /\ b.len = c.len - 1
        /\ b.head = e.head /\ b.tail = e.tail /\ b.slots = e.slots /\ k \in Keys /\ i \in 1 .. Len(e.slots)
    <2>1. Removed(c, e, b, i)
      BY <1>1, <1>2, RemoveAtIs, Zenon
    <2> QED
      BY <2>1 DEF Removed
  <1>4. PICK s \in Seq(Slot) : s = e.slots
    BY <1>3, CacheFields
  <1>5. PICK t : t = [s EXCEPT ![i].value = Absent]
    OBVIOUS
  <1>6. i \in 1 .. Len(s) /\ i \in 0 .. Len(s) /\ i # Nil /\ i \in Nat
    BY <1>3, <1>4 DEF Nil
  <1>7. ValueSet(s, t, i, Absent)
    BY <1>4, <1>5, <1>6, SetValue
  <1>8. t \in Seq(Slot) /\ Len(t) = Len(s)
    BY <1>7 DEF ValueSet
  <1>9. \A j \in 1 .. Len(s) : j # i => t[j] = s[j]
    BY <1>5, <1>6
  <1>10. PICK g : g = [c.map EXCEPT ![k] = Nil]
    OBVIOUS
  <1>11. g \in [Keys -> Nat]
    BY <1>3, <1>10, CacheFields DEF Holds, Nil
  <1>12. d = [b EXCEPT !.slots = t, !.map = g]
    BY <1>2, <1>3, <1>4, <1>5, <1>10 DEF Popped
  <1>13. /\ Shape(d) /\ d.map = g /\ d.slots = t /\ d.free = b.free /\ d.len = b.len
         /\ d.head = b.head /\ d.tail = b.tail
    BY <1>3, <1>8, <1>11, <1>12 DEF Shape
  <1> QED
    BY <1>1, <1>3, <1>4, <1>8, <1>9, <1>10, <1>13 DEF Dropped

LEMMA EvictDrops ==
  ASSUME NEW c, NEW n, NEW q, Holds(c, q, n), n # 0
  PROVE  /\ n \in 1 .. n /\ c.tail = q[n]
         /\ Dropped(c, EvictLru(c), q[n], c.slots[q[n]].key)
  <1>1. n \in Nat /\ n \in 1 .. n /\ c.tail = q[n]
    BY DEF Holds, Chain, List, Links
  <1>2. PICK i, k : i = q[n] /\ k = c.slots[i].key
    OBVIOUS
  <1>3. PICK e : e = Unlink(c, i)
    OBVIOUS
  <1>4. PICK b : b = RemoveAt(c, i)
    OBVIOUS
  <1>5. /\ Shape(e) /\ Shape(b) /\ b.map = c.map /\ b.free = Append(c.free, i) /\ b.len = c.len - 1
        /\ b.head = e.head /\ b.tail = e.tail /\ b.slots = e.slots /\ k \in Keys /\ i \in 1 .. Len(e.slots)
    <2>1. Removed(c, e, b, i)
      BY <1>1, <1>2, <1>3, <1>4, RemoveAtIs, Zenon
    <2> QED
      BY <1>2, <2>1 DEF Removed
  <1>6. PICK s \in Seq(Slot) : s = e.slots
    BY <1>5, CacheFields
  <1>7. PICK t : t = [s EXCEPT ![i].key = Absent]
    OBVIOUS
  <1>8. i \in 1 .. Len(s) /\ i \in 0 .. Len(s) /\ i # Nil /\ i \in Nat
    BY <1>5, <1>6 DEF Nil
  <1>9. KeySet(s, t, i, Absent)
    BY <1>6, <1>7, <1>8, SetKey
  <1>10. t \in Seq(Slot) /\ Len(t) = Len(s)
    BY <1>9 DEF KeySet
  <1>11. PICK u : u = [t EXCEPT ![i].value = Absent]
    OBVIOUS
  <1>12. ValueSet(t, u, i, Absent)
    BY <1>8, <1>10, <1>11, SetValue
  <1>13. u \in Seq(Slot) /\ Len(u) = Len(s)
    BY <1>10, <1>12 DEF ValueSet
  <1>14. \A j \in 1 .. Len(s) : j # i => u[j] = s[j]
    BY <1>7, <1>8, <1>10, <1>11
  <1>15. PICK g : g = [c.map EXCEPT ![k] = Nil]
    OBVIOUS
  <1>16. g \in [Keys -> Nat]
    BY <1>5, <1>15, CacheFields DEF Holds, Nil
  <1>17. EvictLru(c) = [b EXCEPT !.slots = u, !.map = g]
    <2>1. Empty(b, i) = [b EXCEPT !.slots = u]
      BY <1>5, <1>6, <1>7, <1>11 DEF Empty
    <2>2. EvictLru(c) = [Empty(b, i) EXCEPT !.map[k] = Nil]
      BY <1>1, <1>2, <1>4 DEF EvictLru
    <2> QED
      BY <1>5, <1>15, <2>1, <2>2 DEF Shape
  <1>18. PICK d : d = EvictLru(c)
    OBVIOUS
  <1>19. /\ Shape(d) /\ d.map = g /\ d.slots = u /\ d.free = b.free /\ d.len = b.len
         /\ d.head = b.head /\ d.tail = b.tail
    BY <1>5, <1>13, <1>16, <1>17, <1>18 DEF Shape
  <1>20. Dropped(c, d, i, k)
    BY <1>3, <1>5, <1>6, <1>13, <1>14, <1>15, <1>19 DEF Dropped
  <1> QED
    BY <1>1, <1>2, <1>18, <1>20

\* The allocated slot is one that is neither in the list nor left free.
Allots(c, q, n, a, i) ==
  /\ Shape(a) /\ a.map = c.map /\ a.head = c.head /\ a.tail = c.tail /\ a.len = c.len
  /\ i \in 1 .. Len(a.slots) /\ Len(c.slots) <= Len(a.slots)
  /\ \A j \in 1 .. Len(c.slots) : a.slots[j] = c.slots[j]
  /\ \A b \in 1 .. n : q[b] # i
  /\ Len(a.slots) = n + 1 + Len(a.free) /\ Len(a.slots) <= Capacity
  /\ \A x \in 1 .. Len(a.free) : a.free[x] \in 1 .. Len(a.slots) /\ a.free[x] # i
  /\ \A x, y \in 1 .. Len(a.free) : a.free[x] = a.free[y] => x = y
  /\ \A x \in 1 .. Len(a.free), b \in 1 .. n : a.free[x] # q[b]

LEMMA AllocAllots ==
  ASSUME NEW c, NEW n, NEW q, Holds(c, q, n), n < Capacity,
         NEW a, a = AllocSlot(c), NEW i, i = Allocated(c)
  PROVE  Allots(c, q, n, a, i)
  <1>1. PICK l \in Nat, f \in Nat, s \in Seq(Slot), g \in Seq(Nat) :
           s = c.slots /\ g = c.free /\ l = Len(s) /\ f = Len(g)
    BY CacheFields DEF Holds
  <1>2. n \in Nat /\ q \in [1 .. n -> 1 .. l] /\ Capacity \in Nat
    BY <1>1, CapacityAssumption DEF Holds, Chain, List
  <1>3. /\ l = n + f /\ l <= Capacity
        /\ \A x \in 1 .. f : g[x] \in 1 .. l
        /\ \A x, y \in 1 .. f : g[x] = g[y] => x = y
        /\ \A x \in 1 .. f, b \in 1 .. n : g[x] # q[b]
    BY <1>1 DEF Holds, Slab
  <1>4. Shape(c)
    BY DEF Holds
  <1>5. CASE g # <<>>
    <2>1. f > 0
      BY <1>1, <1>5, EmptySeq
    <2>2. PICK h : h = SubSeq(g, 1, f - 1)
      OBVIOUS
    <2>3. h \in Seq(Nat) /\ Len(h) = f - 1 /\ \A x \in 1 .. f - 1 : h[x] = g[x]
      BY <1>1, <2>1, <2>2
    <2>4. a = [c EXCEPT !.free = h] /\ i = g[f]
      BY <1>1, <1>5, <2>2 DEF AllocSlot, Allocated
    <2>5. /\ Shape(a) /\ a.map = c.map /\ a.head = c.head /\ a.tail = c.tail /\ a.len = c.len
          /\ a.free = h /\ a.slots = s
      BY <1>1, <1>4, <2>3, <2>4 DEF Shape
    <2>6. i \in 1 .. l /\ \A b \in 1 .. n : q[b] # i
      BY <1>1, <1>3, <2>1, <2>4
    <2>7. l = n + 1 + (f - 1)
      BY <1>2, <1>3
    <2>8. ASSUME NEW x \in 1 .. f - 1 PROVE h[x] \in 1 .. l /\ h[x] # i /\ \A b \in 1 .. n : h[x] # q[b]
      <3>1. x \in 1 .. f /\ x # f /\ f \in 1 .. f
        BY <1>1, <2>1
      <3> QED
        BY <1>3, <2>3, <2>4, <3>1
    <2>9. ASSUME NEW x \in 1 .. f - 1, NEW y \in 1 .. f - 1, h[x] = h[y] PROVE x = y
      <3>1. x \in 1 .. f /\ y \in 1 .. f
        BY <1>1
      <3> QED
        BY <1>3, <2>3, <2>9, <3>1
    <2>10. PICK m \in Nat : m = f - 1
      BY <2>1
    <2>11. Len(a.slots) = l /\ Len(c.slots) = l /\ Len(a.free) = m /\ l <= l
      BY <1>1, <2>3, <2>5, <2>10
    <2>12. \A x \in 1 .. m : a.free[x] \in 1 .. l /\ a.free[x] # i
      BY <2>5, <2>8, <2>10
    <2>13. \A x, y \in 1 .. m : a.free[x] = a.free[y] => x = y
      BY <2>5, <2>9, <2>10
    <2>14. \A x \in 1 .. m, b \in 1 .. n : a.free[x] # q[b]
      BY <2>5, <2>8, <2>10
    <2>15. l = n + 1 + m /\ a.slots = c.slots
      BY <1>1, <2>5, <2>7, <2>10
    <2> QED
      BY <1>3, <2>5, <2>6, <2>11, <2>12, <2>13, <2>14, <2>15 DEF Allots
  <1>6. CASE g = <<>>
    <2>1. f = 0 /\ l = n
      BY <1>1, <1>2, <1>3, <1>6, EmptySeq
    <2>2. EmptySlot \in Slot
      BY DEF EmptySlot, Slot, Nil
    <2>3. PICK t : t = Append(s, EmptySlot)
      OBVIOUS
    <2>4. t \in Seq(Slot) /\ Len(t) = l + 1 /\ \A j \in 1 .. l : t[j] = s[j]
      BY <1>1, <2>2, <2>3, AppendProperties
    <2>5. a = [c EXCEPT !.slots = t] /\ i = l + 1
      BY <1>1, <1>6, <2>3 DEF AllocSlot, Allocated
    <2>6. /\ Shape(a) /\ a.map = c.map /\ a.head = c.head /\ a.tail = c.tail /\ a.len = c.len
          /\ a.free = g /\ a.slots = t
      BY <1>1, <1>4, <2>4, <2>5 DEF Shape
    <2>7. i \in 1 .. l + 1 /\ l <= l + 1 /\ l + 1 = n + 1 + f /\ l + 1 <= Capacity
      BY <1>1, <1>2, <2>1, <2>5
    <2>8. \A b \in 1 .. n : q[b] # i
      BY <1>1, <1>2, <2>5
    <2>9. 1 .. f = {}
      BY <2>1
    <2> QED
      BY <1>1, <2>4, <2>6, <2>7, <2>8, <2>9 DEF Allots
  <1> QED
    BY <1>5, <1>6

\* f is a with slot i filled and indexed.
Filled(a, i, k, v) == [a EXCEPT !.slots[i].key = k, !.slots[i].value = v, !.map[k] = i, !.len = @ + 1]

IsFilled(a, f, i, k, v) ==
  /\ Shape(f) /\ f.map = [a.map EXCEPT ![k] = i] /\ f.free = a.free /\ f.len = a.len + 1
  /\ f.head = a.head /\ f.tail = a.tail /\ Len(f.slots) = Len(a.slots)
  /\ f.slots[i].key = k /\ f.slots[i].value = v
  /\ \A j \in 1 .. Len(a.slots) : j # i => f.slots[j] = a.slots[j]

LEMMA FilledIs ==
  ASSUME NEW a, Shape(a), NEW i \in 1 .. Len(a.slots), NEW k \in Keys, NEW v \in Values,
         NEW f, f = Filled(a, i, k, v)
  PROVE  IsFilled(a, f, i, k, v)
  <1>1. PICK s \in Seq(Slot), z \in Nat : s = a.slots /\ z = Len(s)
    BY CacheFields
  <1>2. i \in 1 .. z /\ i \in 0 .. z /\ i # Nil /\ i \in Nat
    BY <1>1 DEF Nil
  <1>3. PICK t : t = [s EXCEPT ![i].key = k]
    OBVIOUS
  <1>4. KeySet(s, t, i, k)
    BY <1>1, <1>2, <1>3, SetKey
  <1>5. t \in Seq(Slot) /\ Len(t) = z
    BY <1>1, <1>4 DEF KeySet
  <1>6. PICK u : u = [t EXCEPT ![i].value = v]
    OBVIOUS
  <1>7. ValueSet(t, u, i, v)
    BY <1>2, <1>5, <1>6, SetValue
  <1>8. u \in Seq(Slot) /\ Len(u) = z
    BY <1>5, <1>7 DEF ValueSet
  <1>9. u[i].key = k /\ u[i].value = v
    BY <1>1, <1>2, <1>4, <1>5, <1>7 DEF KeySet, ValueSet
  <1>10. \A j \in 1 .. z : j # i => u[j] = s[j]
    BY <1>1, <1>2, <1>3, <1>5, <1>6
  <1>11. PICK m : m = [a.map EXCEPT ![k] = i]
    OBVIOUS
  <1>12. m \in [Keys -> Nat]
    BY <1>2, <1>11, CacheFields
  <1>13. PICK b : b = [a EXCEPT !.slots[i].key = k, !.slots[i].value = v]
    OBVIOUS
  <1>14. b = [a EXCEPT !.slots = u]
    BY <1>1, <1>3, <1>6, <1>13
  <1>15. Shape(b) /\ b.map = a.map /\ b.len = a.len /\ b.free = a.free /\ b.head = a.head /\ b.tail = a.tail /\ b.slots = u
    BY <1>8, <1>14 DEF Shape
  <1>16. f = [b EXCEPT !.map[k] = i, !.len = @ + 1]
    BY <1>13 DEF Filled
  <1>17. f = [b EXCEPT !.map = m, !.len = a.len + 1]
    BY <1>11, <1>15, <1>16
  <1>18. a.len + 1 \in Nat
    BY CacheFields
  <1>19. /\ Shape(f) /\ f.map = m /\ f.len = a.len + 1 /\ f.free = b.free /\ f.head = b.head /\ f.tail = b.tail
         /\ f.slots = b.slots
    BY <1>12, <1>15, <1>17, <1>18 DEF Shape
  <1> QED
    BY <1>1, <1>8, <1>9, <1>10, <1>11, <1>15, <1>19 DEF IsFilled

\* Putting a new key, once there is room.
LEMMA PutHolds ==
  ASSUME NEW c, NEW n, NEW q, Holds(c, q, n), n < Capacity, NEW k \in Keys, NEW v \in Values, c.map[k] = Nil,
         NEW a, NEW i, Allots(c, q, n, a, i), NEW f, IsFilled(a, f, i, k, v),
         NEW d, d = LinkFront(f, i), NEW r, r = Plus(i, q, n)
  PROVE  Holds(d, r, n + 1) /\ Row(d, r, n + 1) = Plus([key |-> k, value |-> v], Row(c, q, n), n)
  <1>1. PICK s, u, g : s = a.slots /\ u = f.slots /\ g = a.free
    OBVIOUS
  <1>2. Len(s) \in Nat /\ Len(c.slots) \in Nat /\ Len(g) \in Nat
    <2>1. Shape(a) /\ Shape(c)
      BY DEF Allots, Holds
    <2>2. a.free \in Seq(Nat) /\ Len(a.slots) \in Nat /\ Len(c.slots) \in Nat
      BY <2>1, CacheFields
    <2> QED
      BY <1>1, <2>2, LenProperties
  <1>3. PICK l \in Nat, z \in Nat, w \in Nat :
           l = Len(c.slots) /\ s = a.slots /\ z = Len(s) /\ g = a.free /\ w = Len(g) /\ u = f.slots
    BY <1>1, <1>2
  <1>4. /\ n \in Nat /\ Capacity \in Nat /\ q \in [1 .. n -> 1 .. l]
        /\ \A x, y \in 1 .. n : q[x] = q[y] => x = y
    BY <1>3, CapacityAssumption DEF Holds, Chain, List
  <1>5. /\ Shape(a) /\ a.map = c.map /\ a.head = c.head /\ a.tail = c.tail /\ a.len = c.len
        /\ i \in 1 .. z /\ l <= z
        /\ \A j \in 1 .. l : s[j] = c.slots[j]
        /\ \A b \in 1 .. n : q[b] # i
        /\ z = n + 1 + w /\ z <= Capacity
        /\ \A x \in 1 .. w : g[x] \in 1 .. z /\ g[x] # i
        /\ \A x, y \in 1 .. w : g[x] = g[y] => x = y
        /\ \A x \in 1 .. w, b \in 1 .. n : g[x] # q[b]
    BY <1>3 DEF Allots
  <1>6. c.map \in [Keys -> Nat] /\ c.len = n /\ Index(c, q, n) /\ Links(c, q, n)
    BY CacheFields DEF Holds, Slab
  <1>7. PICK p : p = [c.map EXCEPT ![k] = i]
    OBVIOUS
  <1>8. /\ Shape(f) /\ f.map = p /\ f.free = g /\ f.len = n + 1 /\ f.head = c.head /\ f.tail = c.tail
        /\ Len(u) = z /\ u[i].key = k /\ u[i].value = v
        /\ \A j \in 1 .. z : j # i => u[j] = s[j]
    BY <1>3, <1>5, <1>6, <1>7 DEF IsFilled
  <1>9. p[k] = i /\ \A x \in Keys : x # k => p[x] = c.map[x]
    BY <1>6, <1>7
  <1>10. ASSUME NEW b \in 1 .. n PROVE q[b] \in 1 .. l /\ q[b] \in 1 .. z /\ q[b] # i /\ u[q[b]] = c.slots[q[b]]
    <2>1. PICK j \in 1 .. l : j = q[b] /\ j \in 1 .. z /\ j # i /\ s[j] = c.slots[j]
      BY <1>4, <1>5
    <2> QED
      BY <1>8, <2>1
  <1>11. Chain(f, q, n)
    BY <1>3, <1>4, <1>8, <1>10 DEF Chain, List
  <1>12. Links(f, q, n)
    <2>1. f.slots = u /\ f.head = c.head /\ f.tail = c.tail /\ Links(c, q, n)
      BY <1>3, <1>6, <1>8
    <2> QED
      BY <1>10, <2>1 DEF Links
  <1>13. Shape(d) /\ SameEntries(f, d) /\ Chain(d, r, n + 1) /\ Links(d, r, n + 1)
    <2>1. i \in 1 .. Len(f.slots)
      BY <1>3, <1>5, <1>8
    <2>2. \A b \in 1 .. n : q[b] # i
      BY <1>5
    <2>3. Shape(f)
      BY <1>8
    <2> QED
      BY <1>11, <1>12, <2>1, <2>2, <2>3, FrontChain, Zenon
  <1>14. /\ d.map = p /\ d.free = g /\ d.len = n + 1 /\ Len(d.slots) = z
         /\ \A j \in 1 .. z : d.slots[j].key = u[j].key /\ d.slots[j].value = u[j].value
    BY <1>3, <1>8, <1>13 DEF SameEntries
  <1>15. r[1] = i /\ 1 \in 1 .. n + 1
    BY <1>4 DEF Plus
  <1>16. ASSUME NEW b \in 1 .. n PROVE r[b + 1] = q[b] /\ b + 1 \in 1 .. n + 1
    <2>1. b + 1 \in 1 .. n + 1 /\ b + 1 # 1 /\ b + 1 - 1 = b
      BY <1>4
    <2> QED
      BY <2>1 DEF Plus
  <1>17. ASSUME NEW b \in 1 .. n + 1, b # 1 PROVE \E x \in 1 .. n : b = x + 1
    <2>1. b - 1 \in 1 .. n /\ b = b - 1 + 1
      BY <1>4, <1>17
    <2> QED
      BY <2>1
  <1>18. d.slots[i].key = k /\ d.slots[i].value = v /\ d.map[k] = i
    BY <1>5, <1>8, <1>9, <1>14
  <1>19. ASSUME NEW b \in 1 .. n
         PROVE  d.slots[q[b]].key = c.slots[q[b]].key /\ d.slots[q[b]].value = c.slots[q[b]].value
    BY <1>10, <1>14
  <1>20. ASSUME NEW b \in 1 .. n + 1 PROVE d.slots[r[b]].key \in Keys /\ d.map[d.slots[r[b]].key] = r[b]
    <2>1. CASE b = 1
      BY <1>15, <1>18, <2>1
    <2>2. ASSUME NEW x \in 1 .. n, b = x + 1 PROVE d.slots[r[b]].key \in Keys /\ d.map[d.slots[r[b]].key] = r[b]
      <3>1. PICK y : y = c.slots[q[x]].key
        OBVIOUS
      <3>2. y \in Keys /\ c.map[y] = q[x]
        BY <1>6, <3>1 DEF Index
      <3>3. q[x] # Nil
        BY <1>10 DEF Nil
      <3>4. p[y] = q[x]
        BY <1>9, <3>2, <3>3
      <3>5. d.slots[q[x]].key = y /\ r[b] = q[x]
        BY <1>16, <1>19, <2>2, <3>1
      <3> QED
        BY <1>14, <3>2, <3>4, <3>5
    <2> QED
      BY <1>17, <2>1, <2>2
  <1>21. ASSUME NEW x \in Keys, d.map[x] # Nil PROVE \E b \in 1 .. n + 1 : r[b] = d.map[x] /\ d.slots[r[b]].key = x
    <2>1. CASE x = k
      BY <1>15, <1>18, <2>1
    <2>2. CASE x # k
      <3>1. d.map[x] = c.map[x]
        BY <1>9, <1>14, <2>2
      <3>2. PICK b \in 1 .. n : q[b] = c.map[x] /\ c.slots[q[b]].key = x
        BY <1>6, <1>21, <3>1 DEF Index
      <3>3. r[b + 1] = q[b] /\ d.slots[q[b]].key = x /\ b + 1 \in 1 .. n + 1
        BY <1>16, <1>19, <3>2
      <3> QED
        BY <3>1, <3>2, <3>3
    <2> QED
      BY <2>1, <2>2
  <1>22. Index(d, r, n + 1)
    BY <1>20, <1>21 DEF Index
  <1>23. ASSUME NEW x \in 1 .. w, NEW b \in 1 .. n + 1 PROVE g[x] # r[b]
    <2>1. CASE b = 1
      BY <1>5, <1>15, <2>1
    <2>2. ASSUME NEW y \in 1 .. n, b = y + 1 PROVE g[x] # r[b]
      BY <1>5, <1>16, <2>2
    <2> QED
      BY <1>17, <2>1, <2>2
  <1>24. n + 1 <= Capacity
    BY <1>4
  <1>25. Len(d.free) = w
    BY <1>3, <1>14
  <1>26. \A x \in 1 .. w : g[x] \in 1 .. z
    BY <1>5
  <1>27. Slab(d, r, n + 1)
    BY <1>5, <1>14, <1>23, <1>24, <1>25, <1>26 DEF Slab
  <1>28. Holds(d, r, n + 1)
    BY <1>13, <1>22, <1>27 DEF Holds
  <1>29. Row(d, q, n) = Row(c, q, n)
    <2>1. \A b \in 1 .. n : Item(d, q[b]) = Item(c, q[b])
      BY <1>19 DEF Item
    <2>2. n \in Nat
      BY <1>4
    <2> QED
      BY <2>1, <2>2, RowSame
  <1>30. Item(d, i) = [key |-> k, value |-> v]
    BY <1>18 DEF Item
  <1> QED
    BY <1>4, <1>28, <1>29, <1>30, RowPlus

\* Writing over the value of a slot of the list.
Over(c, i, v) == [c EXCEPT !.slots[i].value = v]

Overwrites(c, d, q, n, p, i, v) ==
  /\ Holds(d, q, n) /\ Row(d, q, n)[p] = [key |-> c.slots[i].key, value |-> v]
  /\ Minus(Row(d, q, n), n, p) = Minus(Row(c, q, n), n, p)

LEMMA ValueHolds ==
  ASSUME NEW c, NEW n, NEW q, Holds(c, q, n), NEW p \in 1 .. n, NEW i, i = q[p], NEW v \in Values,
         NEW d, d = Over(c, i, v)
  PROVE  Overwrites(c, d, q, n, p, i, v)
  <1>1. Shape(c) /\ Chain(c, q, n) /\ Links(c, q, n) /\ Index(c, q, n) /\ Slab(c, q, n)
    BY DEF Holds
  <1>2. PICK s \in Seq(Slot), l \in Nat : s = c.slots /\ l = Len(s)
    BY <1>1, CacheFields
  <1>3. n \in Nat /\ q \in [1 .. n -> 1 .. l] /\ \A x, y \in 1 .. n : q[x] = q[y] => x = y
    BY <1>1, <1>2 DEF Chain, List
  <1>4. i \in 1 .. l /\ i \in 0 .. l /\ i # Nil
    BY <1>3 DEF Nil
  <1>5. PICK t : t = [s EXCEPT ![i].value = v]
    OBVIOUS
  <1>6. ValueSet(s, t, i, v)
    BY <1>2, <1>4, <1>5, SetValue
  <1>7. /\ t \in Seq(Slot) /\ Len(t) = l
        /\ \A j \in 1 .. l : /\ t[j].key = s[j].key /\ t[j].prev = s[j].prev /\ t[j].next = s[j].next
                             /\ t[j].value = IF j = i THEN v ELSE s[j].value
    BY <1>2, <1>6 DEF ValueSet
  <1>8. d = [c EXCEPT !.slots = t]
    BY <1>2, <1>5 DEF Over
  <1>9. /\ Shape(d) /\ d.slots = t /\ d.map = c.map /\ d.free = c.free /\ d.head = c.head /\ d.tail = c.tail
        /\ d.len = c.len
    BY <1>1, <1>7, <1>8 DEF Shape
  <1>10. ASSUME NEW b \in 1 .. n
         PROVE  /\ d.slots[q[b]].key = c.slots[q[b]].key /\ d.slots[q[b]].prev = c.slots[q[b]].prev
                /\ d.slots[q[b]].next = c.slots[q[b]].next
                /\ d.slots[q[b]].value = IF b = p THEN v ELSE c.slots[q[b]].value
    <2>1. q[b] \in 1 .. l /\ (q[b] = i <=> b = p)
      BY <1>3
    <2> QED
      BY <1>2, <1>7, <1>9, <2>1
  <1>11. Chain(d, q, n)
    BY <1>1, <1>2, <1>7, <1>9 DEF Chain
  <1>12. Links(d, q, n)
    BY <1>1, <1>9, <1>10 DEF Links
  <1>13. Index(d, q, n)
    BY <1>1, <1>9, <1>10 DEF Index
  <1>14. Slab(d, q, n)
    BY <1>1, <1>2, <1>7, <1>9 DEF Slab
  <1>15. Holds(d, q, n)
    BY <1>9, <1>11, <1>12, <1>13, <1>14 DEF Holds
  <1>16. Row(d, q, n)[p] = [key |-> c.slots[i].key, value |-> v]
    BY <1>10 DEF Row, Item
  <1>17. PICK y, x : y = Row(d, q, n) /\ x = Row(c, q, n)
    OBVIOUS
  <1>18. \A b \in 1 .. n : b # p => y[b] = x[b]
    BY <1>10, <1>17 DEF Row, Item
  <1>19. ASSUME NEW a \in 1 .. n - 1 PROVE (IF a < p THEN y[a] ELSE y[a + 1]) = (IF a < p THEN x[a] ELSE x[a + 1])
    <2>1. CASE a < p
      <3>1. a \in 1 .. n /\ a # p
        BY <1>3, <2>1
      <3> QED
        BY <1>18, <2>1, <3>1
    <2>2. CASE ~ (a < p)
      <3>1. a + 1 \in 1 .. n /\ a + 1 # p
        BY <1>3, <2>2
      <3> QED
        BY <1>18, <2>2, <3>1
    <2> QED
      BY <2>1, <2>2
  <1>20. Minus(y, n, p) = Minus(x, n, p)
    BY <1>19 DEF Minus
  <1> QED
    BY <1>15, <1>16, <1>17, <1>20 DEF Overwrites

\* The list of entries that RecencyList sees.
EntrySet == [key : Keys, value : Values \cup {Absent}]

LEMMA RowSeq ==
  ASSUME NEW c, NEW n, NEW q, Holds(c, q, n), NEW w, w = Row(c, q, n)
  PROVE  /\ n \in Nat /\ w \in Seq(EntrySet) /\ Len(w) = n /\ DOMAIN w = 1 .. n
         /\ \A a \in 1 .. n : w[a] \in EntrySet /\ w[a] = Item(c, q[a])
  <1>1. PICK s \in Seq(Slot), l \in Nat : s = c.slots /\ l = Len(s)
    BY CacheFields DEF Holds
  <1>2. n \in Nat /\ q \in [1 .. n -> 1 .. l]
    BY <1>1 DEF Holds, Chain, List
  <1>3. ASSUME NEW a \in 1 .. n PROVE Item(c, q[a]) \in EntrySet
    <2>1. s[q[a]] \in Slot
      BY <1>1, <1>2, ElementOfSeq
    <2>2. c.slots[q[a]].key \in Keys
      BY DEF Holds, Index
    <2> QED
      BY <1>1, <2>1, <2>2 DEF Item, EntrySet, Slot
  <1>4. w \in [1 .. n -> EntrySet]
    BY <1>3 DEF Row
  <1>5. w \in Seq(EntrySet) /\ Len(w) = n
    BY <1>2, <1>4
  <1> QED
    BY <1>2, <1>3, <1>4, <1>5 DEF Row

\* The map finds a key exactly where it is in the list.
LEMMA KeyPlace ==
  ASSUME NEW c, NEW n, NEW q, Holds(c, q, n), NEW w, w = Row(c, q, n), NEW k \in Keys
  PROVE  /\ c.map[k] = Nil => \A a \in 1 .. n : w[a].key # k
         /\ c.map[k] # Nil => \E p \in 1 .. n : /\ q[p] = c.map[k] /\ w[p].key = k
                                                /\ w[p].value = c.slots[c.map[k]].value
                                                /\ \A a \in 1 .. n : w[a].key = k => a = p
  <1>1. Index(c, q, n) /\ Chain(c, q, n)
    BY DEF Holds
  <1>2. \A a, b \in 1 .. n : q[a] = q[b] => a = b
    BY <1>1 DEF Chain, List
  <1>3. \A a \in 1 .. n : q[a] # Nil
    BY <1>1 DEF Chain, List, Nil
  <1>4. \A a \in 1 .. n : w[a].key = c.slots[q[a]].key /\ w[a].value = c.slots[q[a]].value
    BY DEF Row, Item
  <1>5. \A a \in 1 .. n : c.map[w[a].key] = q[a]
    BY <1>1, <1>4 DEF Index
  <1>6. ASSUME c.map[k] # Nil
        PROVE  \E p \in 1 .. n : /\ q[p] = c.map[k] /\ w[p].key = k
                                 /\ w[p].value = c.slots[c.map[k]].value
                                 /\ \A a \in 1 .. n : w[a].key = k => a = p
    <2>1. PICK p \in 1 .. n : q[p] = c.map[k] /\ c.slots[q[p]].key = k
      BY <1>1, <1>6 DEF Index
    <2>2. w[p].key = k /\ w[p].value = c.slots[c.map[k]].value
      BY <1>4, <2>1
    <2>3. \A a \in 1 .. n : w[a].key = k => a = p
      BY <1>2, <1>5, <2>1
    <2> QED
      BY <2>1, <2>2, <2>3
  <1> QED
    BY <1>3, <1>5, <1>6

\* Where the abstract cache finds a key, and what it finds.
At(w, n, k, p) ==
  /\ k \in Recency!Held /\ Recency!Place(k) = p /\ Recency!Found(k) = w[p].value
  /\ Recency!Without(k) = Minus(w, n, p)

LEMMA Seen ==
  ASSUME NEW n, NEW q, Holds(cache, q, n), NEW w, w = Row(cache, q, n), NEW k \in Keys
  PROVE  /\ Recency!Found(k) = Value(cache, k)
         /\ cache.map[k] = Nil => k \notin Recency!Held /\ Recency!Without(k) = w
         /\ cache.map[k] # Nil => \E p \in 1 .. n : q[p] = cache.map[k] /\ w[p].key = k /\ At(w, n, k, p)
  <1>1. Walk(cache) = w
    BY WalkIs
  <1>2. n \in Nat /\ w \in Seq(EntrySet) /\ Len(w) = n /\ DOMAIN w = 1 .. n
    BY RowSeq
  <1>3. Recency!Held = {w[a].key : a \in 1 .. n}
    BY <1>1, <1>2 DEF Recency!Held
  <1>4. CASE cache.map[k] = Nil
    <2>1. \A a \in 1 .. n : w[a].key # k
      BY <1>4, KeyPlace
    <2>2. k \notin Recency!Held
      BY <1>3, <2>1
    <2> QED
      BY <1>1, <1>4, <2>2 DEF Recency!Found, Recency!Without, Value
  <1>5. CASE cache.map[k] # Nil
    <2>1. PICK p \in 1 .. n : /\ q[p] = cache.map[k] /\ w[p].key = k
                              /\ w[p].value = cache.slots[cache.map[k]].value
                              /\ \A a \in 1 .. n : w[a].key = k => a = p
      BY <1>5, KeyPlace
    <2>2. k \in Recency!Held
      BY <1>3, <2>1
    <2>3. Recency!Place(k) = CHOOSE a \in 1 .. n : w[a].key = k
      BY <1>1, <1>2 DEF Recency!Place
    <2>4. Recency!Place(k) = p
      BY <2>1, <2>3
    <2>5. Recency!Found(k) = w[p].value
      BY <1>1, <2>2, <2>4 DEF Recency!Found
    <2>6. Recency!RemoveAt(w, p) = Minus(w, n, p)
      BY <1>2, SeqMinus
    <2>7. Recency!Without(k) = Minus(w, n, p)
      BY <1>1, <2>2, <2>4, <2>6 DEF Recency!Without
    <2>8. At(w, n, k, p)
      BY <2>2, <2>4, <2>5, <2>7 DEF At
    <2> QED
      BY <1>5, <2>1, <2>5, <2>8 DEF Value
  <1> QED
    BY <1>4, <1>5

LEMMA PlusMinus ==
  ASSUME NEW w \in Seq(EntrySet), NEW n, n = Len(w), NEW p \in 1 .. n, NEW x \in EntrySet
  PROVE  Minus(w, n, p) \in Seq(EntrySet) /\ Len(Minus(w, n, p)) = n - 1
         /\ <<x>> \o Minus(w, n, p) = Plus(x, Minus(w, n, p), n - 1)
  <1>1. n \in Nat /\ n - 1 \in Nat /\ \A a \in 1 .. n : w[a] \in EntrySet
    BY LenProperties
  <1>2. PICK m : m = Minus(w, n, p)
    OBVIOUS
  <1>3. ASSUME NEW a \in 1 .. n - 1 PROVE (IF a < p THEN w[a] ELSE w[a + 1]) \in EntrySet
    BY <1>1
  <1>4. m \in [1 .. n - 1 -> EntrySet]
    BY <1>2, <1>3 DEF Minus
  <1>5. m \in Seq(EntrySet) /\ Len(m) = n - 1
    BY <1>1, <1>4
  <1>6. <<x>> \o m = Plus(x, m, n - 1)
    BY <1>5, SeqPlus
  <1> QED
    BY <1>2, <1>5, <1>6

\* What the abstract cache sees before and after a step.
LEMMA WalkSeq ==
  ASSUME NEW c, NEW n, NEW q, Holds(c, q, n), NEW w, w = Row(c, q, n)
  PROVE  Walk(c) = w /\ n \in Nat /\ w \in Seq(EntrySet) /\ n = Len(w) /\ \A a \in 1 .. n : w[a] \in EntrySet
  BY WalkIs, RowSeq

LEMMA HoldsKept ==
  ASSUME NEW c, NEW n, NEW q, Holds(c, q, n)
  PROVE  Kept(c)
  <1>1. n \in Nat
    BY DEF Holds, Chain, List
  <1> QED
    BY <1>1 DEF Kept

LEMMA GetStep ==
  ASSUME NEW n, NEW q, Holds(cache, q, n), NEW k \in Keys, Get(k)
  PROVE  Kept(cache') /\ Recency!LGet(k)
  <1>1. PICK w : w = Row(cache, q, n)
    OBVIOUS
  <1>2. Walk(cache) = w /\ n \in Nat /\ w \in Seq(EntrySet) /\ n = Len(w) /\ \A a \in 1 .. n : w[a] \in EntrySet
    BY <1>1, WalkSeq
  <1>3. answer' = Recency!Found(k)
    BY <1>1, Seen DEF Get
  <1>4. CASE cache.map[k] = Nil
    <2>1. cache' = cache
      BY <1>4 DEF Get
    <2>2. k \notin Recency!Held
      BY <1>1, <1>4, Seen
    <2>3. Kept(cache')
      BY <2>1, HoldsKept
    <2>4. Walk(cache)' = Walk(cache)
      BY <2>1
    <2> QED
      BY <1>3, <2>2, <2>3, <2>4 DEF Recency!LGet
  <1>5. CASE cache.map[k] # Nil
    <2>1. PICK p \in 1 .. n : q[p] = cache.map[k] /\ w[p].key = k /\ At(w, n, k, p)
      BY <1>1, <1>5, Seen
    <2>2. PICK d : d = cache'
      OBVIOUS
    <2>3. d = MoveToFront(cache, q[p])
      BY <1>5, <2>1, <2>2 DEF Get
    <2>4. PICK r : r = Plus(q[p], Minus(q, n, p), n - 1)
      OBVIOUS
    <2>5. Holds(d, r, n) /\ Row(d, r, n) = Plus(w[p], Minus(w, n, p), n - 1)
      BY <1>1, <2>3, <2>4, MoveHolds
    <2>6. Walk(d) = Row(d, r, n) /\ Kept(d)
      BY <2>5, WalkIs, HoldsKept
    <2>7. <<w[p]>> \o Minus(w, n, p) = Plus(w[p], Minus(w, n, p), n - 1)
      BY <1>2, PlusMinus
    <2>8. Walk(cache)' = <<w[p]>> \o Minus(w, n, p)
      BY <2>2, <2>5, <2>6, <2>7
    <2>9. k \in Recency!Held /\ Recency!Place(k) = p /\ Recency!Without(k) = Minus(w, n, p)
      BY <2>1 DEF At
    <2> QED
      BY <1>2, <1>3, <2>2, <2>6, <2>8, <2>9 DEF Recency!LGet
  <1> QED
    BY <1>4, <1>5

LEMMA PeekStep ==
  ASSUME NEW n, NEW q, Holds(cache, q, n), NEW k \in Keys, Peek(k)
  PROVE  Kept(cache') /\ Recency!LPeek(k)
  <1>1. answer' = Recency!Found(k)
    BY Seen DEF Peek
  <1>2. cache' = cache
    BY DEF Peek
  <1>3. Walk(cache)' = Walk(cache) /\ Kept(cache')
    BY <1>2, HoldsKept
  <1> QED
    BY <1>1, <1>3 DEF Recency!LPeek

LEMMA PopStep ==
  ASSUME NEW n, NEW q, Holds(cache, q, n), NEW k \in Keys, Pop(k)
  PROVE  Kept(cache') /\ Recency!LPop(k)
  <1>1. PICK w : w = Row(cache, q, n)
    OBVIOUS
  <1>2. Walk(cache) = w /\ n \in Nat /\ w \in Seq(EntrySet) /\ n = Len(w)
    BY <1>1, WalkSeq
  <1>3. answer' = Recency!Found(k)
    BY <1>1, Seen DEF Pop
  <1>4. CASE cache.map[k] = Nil
    <2>1. cache' = cache
      BY <1>4 DEF Pop
    <2>2. Recency!Without(k) = w
      BY <1>1, <1>4, Seen
    <2>3. Walk(cache)' = Walk(cache) /\ Kept(cache')
      BY <2>1, HoldsKept
    <2> QED
      BY <1>2, <1>3, <2>2, <2>3 DEF Recency!LPop
  <1>5. CASE cache.map[k] # Nil
    <2>1. PICK p \in 1 .. n : q[p] = cache.map[k] /\ w[p].key = k /\ At(w, n, k, p)
      BY <1>1, <1>5, Seen
    <2>2. PICK d : d = cache'
      OBVIOUS
    <2>3. PICK i : i = q[p]
      OBVIOUS
    <2>4. d = Popped(cache, i, k)
      BY <1>5, <2>1, <2>2, <2>3 DEF Pop, Popped
    <2>5. k = cache.slots[i].key
      BY <1>1, <2>1, <2>3 DEF Row, Item
    <2>6. Dropped(cache, d, i, k)
      BY <2>3, <2>4, <2>5, PopDrops, Zenon
    <2>7. PICK m : m = Minus(q, n, p)
      OBVIOUS
    <2>8. Holds(d, m, n - 1) /\ Row(d, m, n - 1) = Minus(w, n, p)
      BY <1>1, <2>3, <2>5, <2>6, <2>7, DropHolds
    <2>9. Walk(d) = Row(d, m, n - 1) /\ Kept(d)
      BY <2>8, WalkIs, HoldsKept
    <2>10. Walk(cache)' = Minus(w, n, p)
      BY <2>2, <2>8, <2>9
    <2>11. Recency!Without(k) = Minus(w, n, p)
      BY <2>1 DEF At
    <2> QED
      BY <1>3, <2>2, <2>9, <2>10, <2>11 DEF Recency!LPop
  <1> QED
    BY <1>4, <1>5

\* Evicting drops the last entry.
Evicts(c, d, m, n, w) ==
  /\ Holds(d, m, n - 1) /\ Row(d, m, n - 1) = Recency!Front(w)
  /\ c.tail # Nil /\ w # <<>> /\ c.slots[c.tail].value = Recency!Last(w).value
  /\ d.map = [c.map EXCEPT ![w[n].key] = Nil] /\ w[n].key \in Keys

LEMMA EvictHolds ==
  ASSUME NEW c, NEW n, NEW q, Holds(c, q, n), n # 0, NEW w, w = Row(c, q, n), NEW d, d = EvictLru(c),
         NEW m, m = Minus(q, n, n)
  PROVE  Evicts(c, d, m, n, w)
  <1>1. n \in 1 .. n /\ c.tail = q[n] /\ Dropped(c, d, q[n], c.slots[q[n]].key)
    BY EvictDrops
  <1>2. Holds(d, m, n - 1) /\ Row(d, m, n - 1) = Minus(w, n, n)
    BY <1>1, DropHolds
  <1>3. n \in Nat /\ w \in Seq(EntrySet) /\ n = Len(w) /\ \A a \in 1 .. n : w[a] \in EntrySet
    BY WalkSeq
  <1>4. w # <<>>
    BY <1>3, EmptySeq
  <1>5. Recency!Front(w) = Minus(w, n, n) /\ Recency!Last(w) = w[n]
    BY <1>3, <1>4, SeqFront
  <1>6. w[n].value = c.slots[q[n]].value /\ w[n].key = c.slots[q[n]].key
    BY <1>1 DEF Row, Item
  <1>7. c.tail # Nil
    BY <1>1 DEF Holds, Chain, List, Nil
  <1>8. d.map = [c.map EXCEPT ![c.slots[q[n]].key] = Nil]
    BY <1>1 DEF Dropped
  <1>9. w[n].key \in Keys
    BY <1>1, <1>3 DEF EntrySet
  <1> QED
    BY <1>1, <1>2, <1>4, <1>5, <1>6, <1>7, <1>8, <1>9 DEF Evicts

LEMMA PopLruStep ==
  ASSUME NEW n, NEW q, Holds(cache, q, n), PopLru
  PROVE  Kept(cache') /\ Recency!LPopLru
  <1>1. PICK w : w = Row(cache, q, n)
    OBVIOUS
  <1>2. Walk(cache) = w /\ n \in Nat /\ w \in Seq(EntrySet) /\ n = Len(w)
    BY <1>1, WalkSeq
  <1>3. CASE n = 0
    <2>1. cache.tail = Nil
      BY <1>3 DEF Holds, Links
    <2>2. cache' = cache /\ answer' = Absent
      BY <2>1 DEF PopLru
    <2>3. w = <<>>
      BY <1>2, <1>3, EmptySeq
    <2>4. Walk(cache)' = Walk(cache) /\ Kept(cache')
      BY <2>2, HoldsKept
    <2> QED
      BY <1>2, <2>2, <2>3, <2>4 DEF Recency!LPopLru
  <1>4. CASE n # 0
    <2>1. PICK d : d = EvictLru(cache)
      OBVIOUS
    <2>2. PICK m : m = Minus(q, n, n)
      OBVIOUS
    <2>3. /\ Holds(d, m, n - 1) /\ Row(d, m, n - 1) = Recency!Front(w)
          /\ cache.tail # Nil /\ w # <<>> /\ cache.slots[cache.tail].value = Recency!Last(w).value
      <3>1. Evicts(cache, d, m, n, w)
        BY <1>1, <1>4, <2>1, <2>2, EvictHolds, Zenon
      <3> QED
        BY <3>1 DEF Evicts
    <2>4. cache' = d /\ answer' = Recency!Last(w).value
      BY <2>1, <2>3 DEF PopLru
    <2>5. Walk(d) = Row(d, m, n - 1) /\ Kept(d)
      BY <2>3, WalkIs, HoldsKept
    <2>6. Walk(cache)' = Recency!Front(w)
      BY <2>3, <2>4, <2>5
    <2> QED
      BY <1>2, <2>3, <2>4, <2>5, <2>6 DEF Recency!LPopLru
  <1> QED
    BY <1>3, <1>4

LEMMA PutOver ==
  ASSUME NEW n, NEW q, Holds(cache, q, n), NEW k \in Keys, NEW v \in Values, Put(k, v), cache.map[k] # Nil
  PROVE  Kept(cache') /\ Recency!LPut(k, v)
  <1>1. PICK w : w = Row(cache, q, n)
    OBVIOUS
  <1>2. Walk(cache) = w /\ n \in Nat /\ w \in Seq(EntrySet) /\ n = Len(w)
    BY <1>1, WalkSeq
  <1>3. PICK p \in 1 .. n : q[p] = cache.map[k] /\ w[p].key = k /\ At(w, n, k, p)
    BY <1>1, Seen
  <1>4. PICK i : i = q[p] /\ i = cache.map[k]
    BY <1>3
  <1>5. answer' = Recency!Found(k)
    BY <1>1, Seen DEF Put
  <1>6. PICK e : e = Over(cache, i, v)
    OBVIOUS
  <1>7. PICK d : d = cache'
    OBVIOUS
  <1>8. d = MoveToFront(e, q[p])
    BY <1>4, <1>6, <1>7 DEF Put, Over
  <1>9. k = cache.slots[i].key
    BY <1>1, <1>3, <1>4 DEF Row, Item
  <1>10. PICK x : x = Row(e, q, n)
    OBVIOUS
  <1>11. Holds(e, q, n) /\ x[p] = [key |-> k, value |-> v] /\ Minus(x, n, p) = Minus(w, n, p)
    <2>1. Overwrites(cache, e, q, n, p, i, v)
      BY <1>4, <1>6, ValueHolds, Zenon
    <2> QED
      BY <1>1, <1>9, <1>10, <2>1 DEF Overwrites
  <1>12. PICK r : r = Plus(q[p], Minus(q, n, p), n - 1)
    OBVIOUS
  <1>13. Holds(d, r, n) /\ Row(d, r, n) = Plus(x[p], Minus(x, n, p), n - 1)
    BY <1>8, <1>10, <1>11, <1>12, MoveHolds
  <1>14. Walk(d) = Row(d, r, n) /\ Kept(d)
    BY <1>13, WalkIs, HoldsKept
  <1>15. PICK y : y = [key |-> k, value |-> v]
    OBVIOUS
  <1>16. y \in EntrySet /\ y = Recency!Entry(k, v)
    BY <1>15 DEF EntrySet, Recency!Entry
  <1>17. <<y>> \o Minus(w, n, p) = Plus(y, Minus(w, n, p), n - 1)
    BY <1>2, <1>16, PlusMinus
  <1>18. Walk(d) = <<y>> \o Minus(w, n, p)
    BY <1>11, <1>13, <1>14, <1>15, <1>17
  <1>19. Walk(cache)' = <<Recency!Entry(k, v)>> \o Minus(w, n, p)
    BY <1>7, <1>16, <1>18
  <1>20. k \in Recency!Held /\ Recency!Without(k) = Minus(w, n, p)
    BY <1>3 DEF At
  <1> QED
    BY <1>5, <1>7, <1>14, <1>19, <1>20 DEF Recency!LPut

\* A new key in a cache with room.
LEMMA PutIn ==
  ASSUME NEW c, NEW n, NEW q, Holds(c, q, n), n < Capacity, NEW k \in Keys, NEW v \in Values, c.map[k] = Nil,
         NEW w, w = Row(c, q, n), NEW i, i = Allocated(c), NEW d, d = LinkFront(Filled(AllocSlot(c), i, k, v), i)
  PROVE  Kept(d) /\ Walk(d) = <<[key |-> k, value |-> v]>> \o w
  <1>1. PICK a : a = AllocSlot(c)
    OBVIOUS
  <1>2. Allots(c, q, n, a, i)
    BY <1>1, AllocAllots
  <1>3. PICK f : f = Filled(a, i, k, v)
    OBVIOUS
  <1>4. Shape(a) /\ i \in 1 .. Len(a.slots)
    BY <1>2 DEF Allots
  <1>5. IsFilled(a, f, i, k, v)
    BY <1>3, <1>4, FilledIs
  <1>6. PICK r : r = Plus(i, q, n)
    OBVIOUS
  <1>7. d = LinkFront(f, i)
    BY <1>1, <1>3
  <1>8. Holds(d, r, n + 1) /\ Row(d, r, n + 1) = Plus([key |-> k, value |-> v], w, n)
    BY <1>2, <1>5, <1>6, <1>7, PutHolds
  <1>9. w \in Seq(EntrySet) /\ n = Len(w)
    BY WalkSeq
  <1>10. [key |-> k, value |-> v] \in EntrySet
    BY DEF EntrySet
  <1>11. <<[key |-> k, value |-> v]>> \o w = Plus([key |-> k, value |-> v], w, n)
    BY <1>9, <1>10, SeqPlus
  <1> QED
    BY <1>8, <1>11, WalkIs, HoldsKept

LEMMA PutNew ==
  ASSUME NEW n, NEW q, Holds(cache, q, n), NEW k \in Keys, NEW v \in Values, Put(k, v), cache.map[k] = Nil
  PROVE  Kept(cache') /\ Recency!LPut(k, v)
  <1>1. PICK w : w = Row(cache, q, n)
    OBVIOUS
  <1>2. Walk(cache) = w /\ n \in Nat /\ w \in Seq(EntrySet) /\ n = Len(w)
    BY <1>1, WalkSeq
  <1>3. k \notin Recency!Held /\ Recency!Without(k) = w /\ Recency!Found(k) = Absent
    BY <1>1, Seen DEF Value
  <1>4. cache.len = n /\ n <= Capacity /\ Capacity \in Nat /\ Capacity # 0
    BY CapacityAssumption DEF Holds, Slab
  <1>5. PICK c : c = IF n = Capacity THEN EvictLru(cache) ELSE cache
    OBVIOUS
  <1>6. PICK i : i = Allocated(c)
    OBVIOUS
  <1>7. PICK d : d = cache'
    OBVIOUS
  <1>8. d = LinkFront(Filled(AllocSlot(c), i, k, v), i)
    BY <1>4, <1>5, <1>6, <1>7 DEF Put, Filled
  <1>9. answer' = IF n = Capacity THEN cache.slots[cache.tail].value ELSE Absent
    BY <1>4 DEF Put
  <1>10. CASE n = Capacity
    <2>1. PICK m : m = Minus(q, n, n)
      OBVIOUS
    <2>2. Evicts(cache, c, m, n, w)
      BY <1>1, <1>4, <1>5, <1>10, <2>1, EvictHolds
    <2>3. Holds(c, m, n - 1) /\ Row(c, m, n - 1) = Recency!Front(w) /\ cache.slots[cache.tail].value = Recency!Last(w).value
      BY <2>2 DEF Evicts
    <2>4. c.map[k] = Nil
      <3>1. cache.map \in [Keys -> Nat]
        BY CacheFields DEF Holds
      <3> QED
        BY <2>2, <3>1 DEF Evicts
    <2>5. n - 1 < Capacity
      BY <1>4, <1>10
    <2>6. Kept(d) /\ Walk(d) = <<[key |-> k, value |-> v]>> \o Recency!Front(w)
      BY <1>6, <1>8, <2>3, <2>4, <2>5, PutIn
    <2>7. Walk(cache)' = <<Recency!Entry(k, v)>> \o Recency!Front(w)
      BY <1>7, <2>6 DEF Recency!Entry
    <2>8. ~ (n < Capacity)
      BY <1>4, <1>10
    <2> QED
      BY <1>2, <1>3, <1>7, <1>9, <1>10, <2>3, <2>6, <2>7, <2>8 DEF Recency!LPut
  <1>11. CASE n # Capacity
    <2>1. c = cache /\ n < Capacity
      BY <1>2, <1>4, <1>5, <1>11
    <2>2. Kept(d) /\ Walk(d) = <<[key |-> k, value |-> v]>> \o w
      BY <1>1, <1>6, <1>8, <2>1, PutIn
    <2>3. Walk(cache)' = <<Recency!Entry(k, v)>> \o w
      BY <1>7, <2>2 DEF Recency!Entry
    <2> QED
      BY <1>2, <1>3, <1>7, <1>9, <1>11, <2>1, <2>2, <2>3 DEF Recency!LPut
  <1> QED
    BY <1>10, <1>11

LEMMA FreshHolds == Kept(Fresh) /\ Walk(Fresh) = <<>>
  <1>1. PICK q : q = [a \in 1 .. 0 |-> Nil]
    OBVIOUS
  <1>2. /\ Fresh.map = [k \in Keys |-> Nil] /\ Fresh.slots = <<>> /\ Fresh.free = <<>> /\ Fresh.head = Nil
        /\ Fresh.tail = Nil /\ Fresh.len = 0
    BY DEF Fresh
  <1>3. Shape(Fresh)
    BY DEF Fresh, Shape, Nil
  <1>4. Len(<<>>) = 0 /\ 1 .. 0 = {} /\ Len(Fresh.slots) = 0 /\ Len(Fresh.free) = 0
    BY <1>2
  <1>5. Chain(Fresh, q, 0)
    BY <1>1, <1>4 DEF Chain, List
  <1>6. Links(Fresh, q, 0)
    BY <1>2, <1>4 DEF Links
  <1>7. Index(Fresh, q, 0)
    BY <1>2, <1>4 DEF Index
  <1>8. Slab(Fresh, q, 0)
    BY <1>2, <1>4, CapacityAssumption DEF Slab
  <1>9. Holds(Fresh, q, 0)
    BY <1>3, <1>5, <1>6, <1>7, <1>8 DEF Holds
  <1>10. PICK w : w = Row(Fresh, q, 0)
    OBVIOUS
  <1>11. Walk(Fresh) = w /\ w \in Seq(EntrySet) /\ 0 = Len(w)
    BY <1>9, <1>10, WalkSeq
  <1>12. w = <<>>
    BY <1>11, EmptySeq
  <1> QED
    BY <1>9, <1>11, <1>12, HoldsKept

LEMMA ClearStep ==
  ASSUME Clear
  PROVE  Kept(cache') /\ Recency!LClear
  <1>1. cache' = Fresh
    BY DEF Clear
  <1>2. Kept(Fresh) /\ Walk(Fresh) = <<>>
    BY FreshHolds
  <1>3. Walk(cache)' = <<>> /\ Kept(cache')
    BY <1>1, <1>2
  <1> QED
    BY <1>3 DEF Clear, Recency!LClear

\* Every step keeps the list and is a step of RecencyList, or stutters.
LEMMA StepIsAbstract ==
  ASSUME Kept(cache), [Next]_cacheVars
  PROVE  Kept(cache') /\ [Recency!LNext]_(Recency!lruVars)
  <1>1. PICK n \in Nat : \E q : Holds(cache, q, n)
    BY DEF Kept
  <1>2. PICK q : Holds(cache, q, n)
    BY <1>1
  <1>3. ASSUME NEW k \in Keys, Get(k) PROVE Kept(cache') /\ [Recency!LNext]_(Recency!lruVars)
    <2>1. Kept(cache') /\ Recency!LGet(k)
      BY <1>2, <1>3, GetStep
    <2> QED
      BY <2>1 DEF Recency!LNext
  <1>4. ASSUME NEW k \in Keys, Peek(k) PROVE Kept(cache') /\ [Recency!LNext]_(Recency!lruVars)
    <2>1. Kept(cache') /\ Recency!LPeek(k)
      BY <1>2, <1>4, PeekStep
    <2> QED
      BY <2>1 DEF Recency!LNext
  <1>5. ASSUME NEW k \in Keys, Pop(k) PROVE Kept(cache') /\ [Recency!LNext]_(Recency!lruVars)
    <2>1. Kept(cache') /\ Recency!LPop(k)
      BY <1>2, <1>5, PopStep
    <2> QED
      BY <2>1 DEF Recency!LNext
  <1>6. ASSUME NEW k \in Keys, NEW v \in Values, Put(k, v) PROVE Kept(cache') /\ [Recency!LNext]_(Recency!lruVars)
    <2>1. Kept(cache') /\ Recency!LPut(k, v)
      BY <1>2, <1>6, PutOver, PutNew
    <2> QED
      BY <2>1 DEF Recency!LNext
  <1>7. CASE PopLru
    <2>1. Kept(cache') /\ Recency!LPopLru
      BY <1>2, <1>7, PopLruStep
    <2> QED
      BY <2>1 DEF Recency!LNext
  <1>8. CASE Clear
    <2>1. Kept(cache') /\ Recency!LClear
      BY <1>8, ClearStep
    <2> QED
      BY <2>1 DEF Recency!LNext
  <1>9. CASE UNCHANGED cacheVars
    <2>1. cache' = cache /\ answer' = answer
      BY <1>9 DEF cacheVars
    <2>2. Walk(cache)' = Walk(cache)
      BY <2>1
    <2> QED
      BY <2>1, <2>2 DEF Recency!lruVars
  <1> QED
    BY <1>3, <1>4, <1>5, <1>6, <1>7, <1>8, <1>9 DEF Next

\* Spec keeps LruInv: whatever is put, read, popped, evicted and cleared, the
\* links, the index, the length and the free list describe one and the same
\* list of slots, and the arena never outgrows the capacity.
THEOREM ArenaIsOneList == Spec => []LruInv
  <1>1. Init => LruInv
    BY FreshHolds DEF Init, LruInv
  <1>2. LruInv /\ [Next]_cacheVars => LruInv'
    BY StepIsAbstract DEF LruInv
  <1> QED
    BY <1>1, <1>2, PTL DEF Spec

\* Spec implements RecencyList through Walk, for every capacity and every set
\* of keys and values: the arena with its links is a recency list.
THEOREM LruImplementsRecencyList == Spec => LruIsRecencyList
  <1>1. Init => Recency!LInit
    BY FreshHolds DEF Init, Recency!LInit
  <1>2. LruInv /\ [Next]_cacheVars => [Recency!LNext]_(Recency!lruVars)
    BY StepIsAbstract DEF LruInv
  <1>3. Spec => []LruInv
    BY ArenaIsOneList
  <1> QED
    BY <1>1, <1>2, <1>3, PTL DEF Spec, LruIsRecencyList, Recency!LSpec
=============================================================================
