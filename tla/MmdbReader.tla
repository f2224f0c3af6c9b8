----------------------------- MODULE MmdbReader -----------------------------
(***************************************************************************)
(* The reader of GeoIP databases: the numbers of the format, each against  *)
(* the encoding the format's writers use, and the decoder of a record with *)
(* its budgets, against a reader that walks straight to the one field.     *)
(* (MmdbReader in src/engine/mmdb.rs)                                      *)
(*                                                                         *)
(* One job is picked at the start and answered in one step.  A record's    *)
(* cells are one unit long; the bytes of numbers are kept.                 *)
(***************************************************************************)
EXTENDS Integers, Sequences

CONSTANTS MaxDepth,     \* MAX_DEPTH
          MaxValues,    \* MAX_DECODED_VALUES
          Records,      \* record values of a search tree node
          Pointers,     \* pointer values
          Sizes,        \* payload sizes
          Cells,        \* cells of a data section: strings, "null", maps, pointers
          Length        \* cells in a data section

VARIABLES job, answer
vars == <<job, answer>>

Nothing == [ok |-> FALSE]
Just(v) == [ok |-> TRUE, v |-> v]

----------------------------------------------------------------------------
(* Numbers.  Bytes are big-endian.                                         *)

Byte(n, i) == (n \div (256 ^ i)) % 256
Number(bytes) == LET k == Len(bytes)
                     from[i \in 0 .. k] == IF i = 0 THEN 0 ELSE from[i - 1] * 256 + bytes[i]
                 IN from[k]

\* read_record: a 28-bit node keeps the high nibbles of both in its middle byte.
ReadRecordSwapped(width, b, bit) ==
  CASE width = 24 -> Number(SubSeq(b, 3 * bit + 1, 3 * bit + 3))
    [] width = 28 -> (IF bit = 0 THEN b[4] % 16 ELSE b[4] \div 16) * (256 ^ 3)
                       + Number(SubSeq(b, 4 * bit + 1, 4 * bit + 3))
    [] width = 32 -> Number(SubSeq(b, 4 * bit + 1, 4 * bit + 4))
ReadRecord(width, b, bit) ==
  CASE width = 24 -> Number(SubSeq(b, 3 * bit + 1, 3 * bit + 3))
    [] width = 28 -> (IF bit = 0 THEN b[4] \div 16 ELSE b[4] % 16) * (256 ^ 3)
                       + Number(SubSeq(b, 4 * bit + 1, 4 * bit + 3))
    [] width = 32 -> Number(SubSeq(b, 4 * bit + 1, 4 * bit + 4))

\* read_pointer: the classes add what the shorter ones already reach.
ReadPointer(bits, b) ==
  LET class == bits \div 8
      high == bits % 8
  IN CASE class = 0 -> high * 256 + b[1]
       [] class = 1 -> high * (256 ^ 2) + Number(SubSeq(b, 1, 2)) + 2048
       [] class = 2 -> high * (256 ^ 3) + Number(SubSeq(b, 1, 3)) + 526336
       [] OTHER -> Number(SubSeq(b, 1, 4))

ReadSize(bits, b) == CASE bits <= 28 -> bits
                       [] bits = 29 -> 29 + b[1]
                       [] bits = 30 -> 285 + Number(SubSeq(b, 1, 2))
                       [] bits = 31 -> 65821 + Number(SubSeq(b, 1, 3))

----------------------------------------------------------------------------
(* External: what writers of the format produce                            *)

Node(width, l, r) ==
  CASE width = 24 -> <<Byte(l, 2), Byte(l, 1), Byte(l, 0), Byte(r, 2), Byte(r, 1), Byte(r, 0)>>
    [] width = 28 -> <<Byte(l, 2), Byte(l, 1), Byte(l, 0),
                       Byte(l, 3) * 16 + Byte(r, 3),
                       Byte(r, 2), Byte(r, 1), Byte(r, 0)>>
    [] width = 32 -> <<Byte(l, 3), Byte(l, 2), Byte(l, 1), Byte(l, 0),
                       Byte(r, 3), Byte(r, 2), Byte(r, 1), Byte(r, 0)>>
\* The shortest class that reaches the value: [bits, bytes].
PointerField(v) ==
  CASE v < 2048 -> [bits |-> v \div 256, b |-> <<v % 256>>]
    [] v >= 2048 /\ v < 526336 ->
         LET w == v - 2048 IN [bits |-> 8 + w \div (256 ^ 2), b |-> <<Byte(w, 1), Byte(w, 0)>>]
    [] v >= 526336 /\ v < 526336 + 8 * (256 ^ 3) ->
         LET w == v - 526336
         IN [bits |-> 16 + w \div (256 ^ 3), b |-> <<Byte(w, 2), Byte(w, 1), Byte(w, 0)>>]
    [] OTHER -> [bits |-> 24, b |-> <<Byte(v, 3), Byte(v, 2), Byte(v, 1), Byte(v, 0)>>]
SizeField(v) ==
  CASE v < 29 -> [bits |-> v, b |-> << >>]
    [] v >= 29 /\ v < 285 -> [bits |-> 29, b |-> <<v - 29>>]
    [] v >= 285 /\ v < 65821 -> [bits |-> 30, b |-> <<Byte(v - 285, 1), Byte(v - 285, 0)>>]
    [] OTHER -> LET w == v - 65821
                IN [bits |-> 31, b |-> <<Byte(w, 2), Byte(w, 1), Byte(w, 0)>>]

----------------------------------------------------------------------------
(* read_value: everything a record holds, pointers followed, within the     *)
(* budgets.  A result is [ok, v, next, values].                            *)

Fails(values) == [ok |-> FALSE, v |-> Nothing, next |-> 0, values |-> values]
Gives(v, next, values) == [ok |-> TRUE, v |-> v, next |-> next, values |-> values]

RECURSIVE ReadValue(_, _, _, _), ReadEntries(_, _, _, _, _, _)
ReadValue(db, o, depth, values) ==
  IF values >= MaxValues \/ o > Len(db) THEN Fails(values)
  ELSE CASE db[o].t = "pointer" ->
              IF depth >= MaxDepth \/ db[o].to > Len(db) THEN Fails(values + 1)
              ELSE LET r == ReadValue(db, db[o].to, depth + 1, values + 1)
                   IN [r EXCEPT !.next = o + 1]
         [] db[o].t = "map" ->
              IF depth >= MaxDepth THEN Fails(values + 1)
              ELSE ReadEntries(db, o + 1, db[o].n, depth + 1, values + 1, << >>)
         [] db[o].t = "str" -> Gives([str |-> db[o].s], o + 1, values + 1)
         [] OTHER -> Gives([null |-> TRUE], o + 1, values + 1)
ReadEntries(db, o, n, depth, values, entries) ==
  IF n = 0 THEN Gives([map |-> entries], o, values)
  ELSE LET key == ReadValue(db, o, depth, values)
       IN IF ~key.ok \/ DOMAIN key.v # {"str"} THEN Fails(key.values)
          ELSE LET val == ReadValue(db, key.next, depth, key.values)
               IN IF ~val.ok THEN Fails(val.values)
                  ELSE ReadEntries(db, val.next, n - 1, depth, val.values,
                                   Append(entries, [key |-> key.v.str, val |-> val.v]))

\* The first entry of that name.
Field(v, name) ==
  IF DOMAIN v # {"map"} THEN Nothing
  ELSE LET hits == {i \in 1 .. Len(v.map) : v.map[i].key = name}
       IN IF hits = {} THEN Nothing
          ELSE Just(v.map[CHOOSE i \in hits : \A j \in hits : i <= j].val)
LookupCountry(db) ==
  LET r == ReadValue(db, 1, 0, 0)
      country == IF r.ok THEN Field(r.v, "country") ELSE Nothing
      iso == IF country.ok THEN Field(country.v, "iso_code") ELSE Nothing
  IN IF iso.ok /\ DOMAIN iso.v = {"str"} THEN Just(iso.v.str) ELSE Nothing

----------------------------------------------------------------------------
(* The reference: go to the field and read nothing else                    *)

RECURSIVE Deref(_, _, _), After(_, _), AfterMany(_, _, _), Seek(_, _, _, _)
Deref(db, o, fuel) == IF o > Len(db) \/ fuel = 0 THEN 0
                      ELSE IF db[o].t = "pointer" THEN Deref(db, db[o].to, fuel - 1) ELSE o
After(db, o) == IF o <= Len(db) /\ db[o].t = "map" THEN AfterMany(db, o + 1, 2 * db[o].n)
                ELSE o + 1
AfterMany(db, o, n) == IF n = 0 THEN o ELSE AfterMany(db, After(db, o), n - 1)
\* The cell of the entry's value, among n entries that begin at o; 0 if none.
Seek(db, o, n, name) ==
  LET key == Deref(db, o, Length + 1)
  IN IF n = 0 \/ key = 0 THEN 0
     ELSE IF db[key].t = "str" /\ db[key].s = name THEN After(db, o)
     ELSE Seek(db, After(db, After(db, o)), n - 1, name)
FieldAt(db, o, name) ==
  LET m == Deref(db, o, Length + 1)
  IN IF m = 0 THEN 0
     ELSE IF db[m].t = "map" THEN Seek(db, m + 1, db[m].n, name) ELSE 0
Walked(db) ==
  LET country == FieldAt(db, 1, "country")
      iso == IF country = 0 THEN 0 ELSE FieldAt(db, country, "iso_code")
      code == IF iso = 0 THEN 0 ELSE Deref(db, iso, Length + 1)
  IN IF code = 0 THEN Nothing
     ELSE IF db[code].t = "str" THEN Just(db[code].s) ELSE Nothing

----------------------------------------------------------------------------
(* The search tree                                                         *)

\* lookup_bits: below node_count a record is a node, at it nothing, above it
\* an offset past the tree.
LookupBits(tree, bits) ==
  LET count == Len(tree)
      walk[i \in 0 .. Len(bits)] ==
        IF i = 0 THEN [node |-> 0, done |-> FALSE, found |-> Nothing]
        ELSE IF walk[i - 1].done THEN walk[i - 1]
        ELSE LET record == tree[walk[i - 1].node + 1][bits[i] + 1]
             IN IF record < count THEN [node |-> record, done |-> FALSE, found |-> Nothing]
                ELSE [node |-> 0, done |-> TRUE,
                      found |-> IF record = count THEN Nothing ELSE Just(record - count)]
  IN walk[Len(bits)].found

\* Reference: the set of prefixes the tree stores, by following every path.
RECURSIVE Prefixes(_, _, _, _)
Prefixes(tree, node, prefix, depth) ==
  UNION {LET record == tree[node + 1][bit + 1]
             next == Append(prefix, bit)
         IN IF record = Len(tree) \/ depth = 0 THEN {}
            ELSE IF record > Len(tree) THEN {[prefix |-> next, v |-> record - Len(tree)]}
            ELSE Prefixes(tree, record, next, depth - 1) : bit \in {0, 1}}
Stored(tree, bits) ==
  LET hits == {p \in Prefixes(tree, 0, << >>, Len(bits)) :
                 Len(p.prefix) <= Len(bits) /\ SubSeq(bits, 1, Len(p.prefix)) = p.prefix}
  IN IF hits = {} THEN Nothing ELSE Just((CHOOSE p \in hits : TRUE).v)

----------------------------------------------------------------------------
Widths == {24, 28, 32}
Trees == [1 .. 2 -> [1 .. 2 -> 0 .. 4]]
Jobs == [kind : {"record"}, width : Widths, l : Records, r : Records, bit : {0, 1}]
        \cup [kind : {"pointer"}, v : Pointers]
        \cup [kind : {"size"}, v : Sizes]
        \cup [kind : {"tree"}, tree : Trees, bits : [1 .. 3 -> {0, 1}]]
        \cup [kind : {"country"}, db : [1 .. Length -> Cells]]

Init == job \in {j \in Jobs : j.kind = "record" /\ j.width = 24 => j.l < 256 ^ 3 /\ j.r < 256 ^ 3}
        /\ answer = Nothing

Answer(a) == answer = Nothing /\ answer' = Just(a) /\ UNCHANGED job
Record == /\ job.kind = "record"
          /\ Answer(ReadRecord(job.width, Node(job.width, job.l, job.r), job.bit))
Pointer == /\ job.kind = "pointer"
           /\ Answer(ReadPointer(PointerField(job.v).bits, PointerField(job.v).b))
Size == /\ job.kind = "size"
        /\ Answer(ReadSize(SizeField(job.v).bits, SizeField(job.v).b))
Tree == job.kind = "tree" /\ Answer(LookupBits(job.tree, job.bits))
Country == job.kind = "country" /\ Answer(LookupCountry(job.db))

Next == Record \/ Pointer \/ Size \/ Tree \/ Country
Spec == Init /\ [][Next]_vars

----------------------------------------------------------------------------
(* Properties                                                              *)

\* Numbers come back as the writers meant them, at every class boundary and
\* with both records of a node in use; the tree gives what it stores; and the
\* decoder, which reads everything and gives up at its budgets, never finds a
\* country other than the one a walk straight to the field finds - pointer
\* cycles, keys behind pointers and records that overlap included.
LookupsAreRight ==
  answer.ok => CASE job.kind = "record" -> answer.v = IF job.bit = 0 THEN job.l ELSE job.r
                 [] job.kind \in {"pointer", "size"} -> answer.v = job.v
                 [] job.kind = "tree" -> answer.v = Stored(job.tree, job.bits)
                 [] job.kind = "country" -> answer.v \in {Nothing, Walked(job.db)}
=============================================================================
