------------------------------- MODULE Patricia -------------------------------
(***************************************************************************)
(* patricia_c created without a stream: a compressed trie whose edges are  *)
(* ranges of the lookup string that every inserted word is appended to,    *)
(* with user data at its nodes, and the file it is saved to and mapped     *)
(* from.  Nodes live at addresses; a node that gets an edge is reallocated *)
(* and moves.  Words are sequences of bytes in UTF-8.  [faulty] marks an   *)
(* operator with a bug, as in module Extractor.                            *)
(***************************************************************************)
EXTENDS Integers, Sequences, FiniteSets, SequencesExt

CONSTANTS
  Words,         \* what a program inserts
  Keys, Data,    \* what a program sets data for, without the \0, and the data
  Strings,       \* what a program searches for
  LinearEdges,   \* nodes with more edges are searched by bisection (5)
  MaxInserts,    \* bound: calls of insert and set
  Null

VARIABLES
  node,          \* node[a]: the patricia_node_t at address a
  root,
  lookup_str,
  data_lookup,
  mmap_binary,   \* whether the trie is a mapped file
  file,          \* what the last save wrote
  held, given,   \* history: the words inserted, and the data set for each
  inserts

vars == <<node, root, lookup_str, data_lookup, mmap_binary, file, held, given, inserts>>

-----------------------------------------------------------------------------
(* symbols *)

ByteSize(b) == IF b >= 240 THEN 4 ELSE IF b >= 224 THEN 3 ELSE IF b >= 192 THEN 2 ELSE 1

\* A string in memory ends with \0.
ByteAt(s, p) == IF p < Len(s) THEN s[p + 1] ELSE 0

\* unicode_to_int: the symbol that starts at byte p of s
Symbol(s, p) ==
  LET encoded[k \in Nat] == IF k = 0 THEN 0 ELSE encoded[k - 1] * 256 + ByteAt(s, p + k - 1)
  IN encoded[ByteSize(ByteAt(s, p))]

\* The bytes of the symbols that edge e and s, from byte p on, begin with in
\* common; text is the lookup string.
MatchingPart(text, e, s, p, len) ==
  LET match[i \in Nat] ==
        IF i >= e.str_len \/ i >= len \/ Symbol(text, e.str_start + i) # Symbol(s, p + i)
        THEN i
        ELSE match[i + ByteSize(ByteAt(s, p + i))]
  IN match[0]

-----------------------------------------------------------------------------
(* insert, over a heap t of nodes and its root *)

Fresh(heap) == CHOOSE a \in 1 .. Cardinality(DOMAIN heap) + 1 : a \notin DOMAIN heap

NewNode == [is_terminal |-> FALSE, user_data_offset |-> 0, edges |-> <<>>]

Edge(start, len, next) == [str_start |-> start, str_len |-> len, next |-> next]

\* _insert_edge: behind the edges that are not greater.  Edges of a node differ
\* in their first symbol, where _edge_compare ends.
WithEdge(text, edges, e) ==
  LET smaller == {i \in DOMAIN edges :
                    Symbol(text, e.str_start) >= Symbol(text, edges[i].str_start)}
  IN InsertAt(edges, Max({0} \cup smaller) + 1, e)

\* *addr = a, where addr is the place of a pointer: the root or an edge
PointAt(t, addr, a) ==
  IF addr = <<>> THEN [t EXCEPT !.root = a]
  ELSE [t EXCEPT !.node[addr[1]].edges[addr[2]].next = a]

\* A node gets edge e; realloc moves it.
Grow(t, a, addr, text, e) ==
  LET moved == Fresh(t.node)
  IN PointAt([t EXCEPT !.node = [x \in (DOMAIN t.node \ {a}) \cup {moved} |->
                IF x = moved THEN [t.node[a] EXCEPT !.edges = WithEdge(text, @, e)]
                ELSE t.node[x]]],
             addr, moved)

Allocate(t, n) == [t EXCEPT !.node = @ @@ (Fresh(@) :> n)]

\* [faulty] The node between the halves ends a word.
SplitTerminal(t, a, i, m) ==
  LET e == t.node[a].edges[i]
      b == Fresh(t.node)
      rest == Edge(e.str_start + m, e.str_len - m, e.next)
  IN [Allocate(t, [NewNode EXCEPT !.edges = <<rest>>, !.is_terminal = TRUE])
        EXCEPT !.node[a].edges[i] = Edge(e.str_start, m, b)]

\* _split_edge: edge i of node a ends after m bytes at a new node.
Split(t, a, i, m) ==
  LET e == t.node[a].edges[i]
      b == Fresh(t.node)
      rest == Edge(e.str_start + m, e.str_len - m, e.next)
  IN [Allocate(t, [NewNode EXCEPT !.edges = <<rest>>])
        EXCEPT !.node[a].edges[i] = Edge(e.str_start, m, b)]

\* _insert: the heap after the word at start .. start + len - 1 of text is
\* inserted below node a, and the node where the word ends
RECURSIVE InsertBelow(_, _, _, _, _, _)
InsertBelow(t, a, addr, text, start, len) ==
  LET edges == t.node[a].edges
      part(i) == MatchingPart(text, edges[i], text, start, len)
      hits == {i \in DOMAIN edges : part(i) > 0}
  IN IF len = 0
     THEN [heap |-> [t EXCEPT !.node[a].is_terminal = TRUE], end |-> a]
     ELSE IF hits = {}
     THEN LET leaf == Fresh(t.node)
              with == Allocate(t, [NewNode EXCEPT !.is_terminal = TRUE])
          IN [heap |-> Grow(with, a, addr, text, Edge(start, len, leaf)), end |-> leaf]
     ELSE LET i == Min(hits)
              m == part(i)
              split == IF m < edges[i].str_len THEN Split(t, a, i, m) ELSE t
          IN InsertBelow(split, split.node[a].edges[i].next, <<a, i>>, text, start + m, len - m)

-----------------------------------------------------------------------------
(* search *)

\* The bytes of an edge that are looked at: every ByteSize of its first symbol
Agrees(e, s, p) ==
  \A j \in 0 .. e.str_len - 1 :
    j % ByteSize(ByteAt(lookup_str, e.str_start)) = 0 =>
      Symbol(lookup_str, e.str_start + j) = Symbol(s, p + j)

FirstOf(S) == IF S = {} THEN 0 ELSE Min(S)

FindLinear(edges, s, p, len) ==
  FirstOf({i \in DOMAIN edges : len >= edges[i].str_len /\ Agrees(edges[i], s, p)})

RECURSIVE Bisect(_, _, _, _, _, _)
Bisect(edges, s, p, lmin, rmax, pivot) ==
  LET e  == edges[pivot + 1]
      ec == Symbol(lookup_str, e.str_start)
      sc == Symbol(s, p)
      Again(l, r) == Bisect(edges, s, p, l, r, (l + r) \div 2)
  IN IF rmax < lmin THEN 0
     ELSE IF ec < sc THEN Again(pivot + 1, rmax)
     ELSE IF ec > sc THEN Again(lmin, pivot - 1)
     ELSE IF Agrees(e, s, p) THEN pivot + 1 ELSE 0

FindLog(edges, s, p) == Bisect(edges, s, p, 0, Len(edges) - 1, Len(edges) \div 2)

FindFragment(edges, s, p) ==
  FirstOf({i \in DOMAIN edges : Symbol(lookup_str, edges[i].str_start) = Symbol(s, p)})

\* [faulty] An edge that matches in part does not count.
StopsAtEdge(edges, s, p, len) == p

\* No edge matches whole: how far the one with the same first symbol does
Fragment(edges, s, p, len) ==
  LET i == FindFragment(edges, s, p)
  IN IF i = 0 THEN p ELSE p + MatchingPart(lookup_str, edges[i], s, p, len - p)

\* _search: how many of the first len bytes of s are found below node a from
\* byte p on, and the node it comes to
RECURSIVE SearchBelow(_, _, _, _)
SearchBelow(a, s, p, len) ==
  LET edges == node[a].edges
      i == IF Len(edges) <= LinearEdges THEN FindLinear(edges, s, p, len - p)
                                        ELSE FindLog(edges, s, p)
      m == MatchingPart(lookup_str, edges[i], s, p, len - p)
  IN IF i = 0 THEN [found |-> Fragment(edges, s, p, len), at |-> a]
     ELSE IF m + p = len THEN [found |-> len, at |-> edges[i].next]
     ELSE SearchBelow(edges[i].next, s, p + m, len)

\* patricia_c_search
Search(s, len) ==
  IF len = 0 THEN (IF node[root].is_terminal THEN 1 ELSE 0)
  ELSE SearchBelow(root, s, 0, len).found

\* get: the string is searched for with its \0.
Get(s) ==
  LET r == SearchBelow(root, Append(s, 0), 0, Len(s) + 1)
  IN IF r.found > 0 /\ node[r.at].is_terminal
     THEN IF node[r.at].user_data_offset < Len(data_lookup)
          THEN data_lookup[node[r.at].user_data_offset + 1]
          ELSE "garbage"
     ELSE Null

-----------------------------------------------------------------------------
Init ==
  /\ node = <<NewNode>> /\ root = 1
  /\ lookup_str = <<>> /\ data_lookup = <<>>
  /\ mmap_binary = FALSE /\ file = Null
  /\ held = {} /\ given = <<>> /\ inserts = 0

\* patricia_c_insert_no_lookup
Inserted(w) ==
  InsertBelow([node |-> node, root |-> root], root, <<>>, lookup_str \o w,
              Len(lookup_str), Len(w))

Changes ==
  /\ ~mmap_binary /\ inserts < MaxInserts
  /\ inserts' = inserts + 1

Insert(w) ==
  /\ Changes
  /\ node' = Inserted(w).heap.node /\ root' = Inserted(w).heap.root
  /\ lookup_str' = lookup_str \o w
  /\ held' = held \cup {w}
  /\ UNCHANGED <<data_lookup, mmap_binary, file, given>>

\* [faulty] The offset is taken behind the data.
SetBehind(k, d) ==
  LET w == Append(k, 0) r == Inserted(w) IN
  /\ Changes
  /\ node' = [r.heap.node EXCEPT ![r.end].user_data_offset = Len(data_lookup) + 1]
  /\ root' = r.heap.root
  /\ lookup_str' = lookup_str \o w
  /\ data_lookup' = Append(data_lookup, d)
  /\ held' = held \cup {w}
  /\ given' = [x \in {k} |-> d] @@ given
  /\ UNCHANGED <<mmap_binary, file>>

\* set, for a key with its \0: insert, then set_data at the node it returns
Set(k, d) ==
  LET w == Append(k, 0) r == Inserted(w) IN
  /\ Changes
  /\ node' = [r.heap.node EXCEPT ![r.end].user_data_offset = Len(data_lookup)]
  /\ root' = r.heap.root
  /\ lookup_str' = lookup_str \o w
  /\ data_lookup' = Append(data_lookup, d)
  /\ held' = held \cup {w}
  /\ given' = [x \in {k} |-> d] @@ given
  /\ UNCHANGED <<mmap_binary, file>>

-----------------------------------------------------------------------------
(* The file: the nodes one after the other, each behind the nodes its edges *)
(* lead to, with places in the file for addresses.                          *)

\* [faulty] A node's place is taken after it is written.
WrittenPlace(records) == Len(records) + 1

PlaceOf(records) == Len(records)

\* patricia_c_save_impl: the records once node a and what is below it are written
RECURSIVE SaveNode(_, _)
SaveNode(a, records) ==
  LET edges == node[a].edges
      after[i \in 0 .. Len(edges)] ==
        IF i = 0 THEN records ELSE SaveNode(edges[i].next, after[i - 1])
  IN Append(after[Len(edges)],
       [node[a] EXCEPT !.edges =
          [i \in DOMAIN edges |-> [edges[i] EXCEPT !.next = PlaceOf(after[i])]]])

Save ==
  /\ file' = IF mmap_binary THEN file
             ELSE LET records == SaveNode(root, <<>>)
                  IN [node |-> records, root |-> PlaceOf(records), lookup_str |-> lookup_str,
                      data_lookup |-> data_lookup, held |-> held, given |-> given]
  /\ UNCHANGED <<node, root, lookup_str, data_lookup, mmap_binary, held, given, inserts>>

\* destroy, and patricia_c_from_file on what was saved
Reopen ==
  /\ file # Null
  /\ node' = file.node /\ root' = file.root
  /\ lookup_str' = file.lookup_str /\ data_lookup' = file.data_lookup
  /\ mmap_binary' = TRUE
  /\ held' = file.held /\ given' = file.given
  /\ UNCHANGED <<file, inserts>>

Next ==
  \/ \E w \in Words : Insert(w)
  \/ \E k \in Keys, d \in Data : Set(k, d)
  \/ Save
  \/ Reopen

Spec == Init /\ [][Next]_vars

-----------------------------------------------------------------------------
Pointers(a) ==
  UNION {{<<b, i>> : i \in {j \in DOMAIN node[b].edges : node[b].edges[j].next = a}} :
           b \in DOMAIN node}

\* Nodes move while other nodes point to them (realloc in _insert_edge, the
\* pointer addr in _insert): every edge leads to a node that is there, and every
\* node but the root hangs on one edge, so destroy frees each of them once.
\* The edges of a node ascend in their first symbols, no two of which are the
\* same: what the bisection in find_log relies on, after splits as well.
TrieSound ==
  /\ \A a \in DOMAIN node : \A i \in DOMAIN node[a].edges :
       node[a].edges[i].next \in DOMAIN node
  /\ \A a \in DOMAIN node : Cardinality(Pointers(a)) = IF a = root THEN 0 ELSE 1
  /\ \A a \in DOMAIN node : \A i, j \in DOMAIN node[a].edges :
       i < j => Symbol(lookup_str, node[a].edges[i].str_start)
                  < Symbol(lookup_str, node[a].edges[j].str_start)

Label(e) == SubSeq(lookup_str, e.str_start + 1, e.str_start + e.str_len)

RECURSIVE Spelled(_)
Spelled(a) ==
  (IF node[a].is_terminal THEN {<<>>} ELSE {})
    \cup UNION {{Label(node[a].edges[i]) \o w : w \in Spelled(node[a].edges[i].next)} :
                  i \in DOMAIN node[a].edges}

\* The trie holds the words that were inserted, each of them and no other,
\* whatever was split for them, and still does when it was saved and mapped.
HoldsTheWords == Spelled(root) = held

SymbolStarts(s) == {p \in 0 .. Len(s) - 1 : s[p + 1] \div 64 # 2}

OneWidth(s) == \A p, q \in SymbolStarts(s) : ByteSize(s[p + 1]) = ByteSize(s[q + 1])

\* The strings of whole symbols that s begins with, by their lengths
Lengths(s) == SymbolStarts(s) \cup {Len(s)}

Common(s, w) == Max({n \in Lengths(s) : n <= Len(w) /\ SubSeq(s, 1, n) = SubSeq(w, 1, n)})

\* search answers how many bytes of the string, in whole symbols, begin a word
\* of the trie; also where the text goes on behind the string.  Symbols of
\* different widths in one word are left out there; but a word that was inserted
\* is found in full, whatever the widths of its symbols (assert_true(ret ==
\* str_len) in the tests), and the empty one answers 1.
SearchAnswers ==
  /\ (\A w \in held : OneWidth(w)) =>
       \A s \in Strings : \A len \in Lengths(s) \ {0} :
         Search(s, len) = Max({0} \cup {Common(SubSeq(s, 1, len), w) : w \in held})
  /\ \A w \in held : Search(w, Len(w)) = IF w = <<>> THEN 1 ELSE Len(w)

\* get answers what the last set of the key stored, though nodes move and are
\* split and the data moves with every set.
GetsLatest == \A k \in DOMAIN given : Get(k) = given[k]

\* "str_len means an exact match was found" (patricia.h): if search answers
\* the string's length, some word of the trie begins with the string.
FullMeansHeld ==
  \A s \in Strings : s # <<>> /\ Search(s, Len(s)) = Len(s) =>
    \E w \in held : IsPrefix(s, w)
===============================================================================
