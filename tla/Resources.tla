------------------------------ MODULE Resources ------------------------------
(***************************************************************************)
(* The packer of resources (qml.v1/resources.go): files are added under a  *)
(* path to a tree, which Pack writes out in the format of Qt: the data, a  *)
(* table of names and a table of nodes in which the children of a          *)
(* directory lie side by side, sorted by the hash of their names.  Sizes   *)
(* and offsets are in bytes, in the node table in nodes, as in the code.   *)
(*                                                                         *)
(* A name is the sequence of its runes, a path that of its names, data the *)
(* number of its bytes.  What reads the tables is Qt, and external.        *)
(***************************************************************************)
EXTENDS Integers, Sequences, FiniteSets, SequencesExt, Bitwise

CONSTANTS Paths,    \* bound: the paths resources are added under
          Sizes,    \* bound: the sizes of their data
          MaxAdded  \* bound: how many are added

ASSUME ResourcesAssumption ==
  /\ \A path \in Paths : path # <<>> /\ \A i \in DOMAIN path : path[i] \in Seq(Nat)
  /\ Sizes \subseteq Nat
  /\ MaxAdded \in Nat

VARIABLES files,   \* the tree of the packer: children, sdata and bdata by path
          packed,  \* the Resources it was packed to, if it was
          added    \* history: the data last added under a path

vars == <<files, packed, added>>

nil == -1
NotPacked == <<>>
root == <<>>

Init ==
  /\ files = [p \in {root} |-> [children |-> <<>>, sdata |-> 0, bdata |-> nil]]
  /\ packed = NotPacked
  /\ added = [p \in {} |-> 0]

-----------------------------------------------------------------------------
(* Adding *)

Above(path) == {SubSeq(path, 1, i) : i \in 0 .. Len(path) - 1}

(* Mutant of addFile: a child is looked for only by what it has in it. *)
addFileAgain(path, fs) ==
  [p \in DOMAIN fs \cup Above(path) \cup {path} |->
     LET old == IF p \in DOMAIN fs THEN fs[p]
                ELSE [children |-> <<>>, sdata |-> 0, bdata |-> nil] IN
     IF p \in Above(path) /\ SubSeq(path, 1, Len(p) + 1) \notin {q \in DOMAIN fs : fs[q].children # <<>>}
     THEN [old EXCEPT !.children = Append(@, path[Len(p) + 1])]
     ELSE old]

addFile(path, fs) ==
  [p \in DOMAIN fs \cup Above(path) \cup {path} |->
     LET old == IF p \in DOMAIN fs THEN fs[p]
                ELSE [children |-> <<>>, sdata |-> 0, bdata |-> nil] IN
     IF p \in Above(path) /\ SubSeq(path, 1, Len(p) + 1) \notin DOMAIN fs
     THEN [old EXCEPT !.children = Append(@, path[Len(p) + 1])]
     ELSE old]

(* Mutant of Refused: data of Add is not looked at. *)
RefusedStrings(path) ==
  path \in DOMAIN files /\ (files[path].children # <<>> \/ files[path].sdata # 0)

(* "cannot add same resources path twice" *)
Refused(path) ==
  path \in DOMAIN files /\ \/ files[path].children # <<>>
                           \/ files[path].sdata # 0
                           \/ files[path].bdata # nil

Adds(path, size) ==
  /\ Cardinality(DOMAIN added) < MaxAdded
  /\ ~Refused(path)
  /\ added' = [p \in DOMAIN added \cup {path} |-> IF p = path THEN size ELSE added[p]]
  /\ packed' = NotPacked

Add(path, size) ==
  /\ Adds(path, size)
  /\ files' = [addFile(path, files) EXCEPT ![path].bdata = size]

AddString(path, size) ==
  /\ Adds(path, size)
  /\ files' = [addFile(path, files) EXCEPT ![path].sdata = size]

-----------------------------------------------------------------------------
(* Hashes and sizes of names *)

(* h << 4 loses what is beyond 32 bits: the upper four are kept apart. *)
HashStep(r, h) ==
  LET sum   == (h % 2^24) * 16 + r
      upper == (h \div 2^24 + sum \div 2^28) % 16 IN
  (sum % 2^28) ^^ (upper * 2^5)

qt_hash(name) == FoldLeft(LAMBDA h, r : HashStep(r, h), 0, name)

Names == UNION {ToSet(path) : path \in Paths}
Hash == [name \in Names |-> qt_hash(name)]

Utf8Len(r) == IF r < 2^7 THEN 1 ELSE IF r < 2^11 THEN 2 ELSE IF r < 2^16 THEN 3 ELSE 4
Sum(s) == FoldLeft(LAMBDA a, b : a + b, 0, s)
ByteLen(name) == Sum([i \in DOMAIN name |-> Utf8Len(name[i])])

-----------------------------------------------------------------------------
(* Packing *)

Children(fs, dir) == [i \in DOMAIN fs[dir].children |-> Append(dir, fs[dir].children[i])]
IsDir(fs, p) == fs[p].children # <<>>

(* The directories as a stack has them: the last child of one comes next. *)
RECURSIVE Visit(_, _)
Visit(fs, pending) ==
  IF pending = <<>> THEN <<>>
  ELSE LET dir == Last(pending) IN
       <<dir>> \o Visit(fs, Front(pending) \o SelectSeq(Children(fs, dir), LAMBDA p : IsDir(fs, p)))

Nodes(fs, dirs) == FlattenSeq([i \in DOMAIN dirs |-> Children(fs, dirs[i])])

(* Where the i-th of some entries starts, given their sizes. *)
Offset(sizes, i) == Sum(SubSeq(sizes, 1, i - 1))

writeDataBlobs(fs, nodes) ==
  LET blobs == SelectSeq(nodes, LAMBDA p : ~IsDir(fs, p))
      data  == [i \in DOMAIN blobs |->
                  IF fs[blobs[i]].sdata > 0 THEN fs[blobs[i]].sdata
                  ELSE IF fs[blobs[i]].bdata = nil THEN 0 ELSE fs[blobs[i]].bdata]
      sizes == [i \in DOMAIN blobs |-> 4 + data[i]] IN
  [offsets |-> [p \in ToSet(blobs) |-> Offset(sizes, CHOOSE i \in DOMAIN blobs : blobs[i] = p)],
   at      |-> [o \in {Offset(sizes, i) : i \in DOMAIN blobs} |->
                  data[CHOOSE i \in DOMAIN blobs : Offset(sizes, i) = o]],
   size    |-> Sum(sizes)]

(* A name is written once.  Its length is that of the Go string, what
   follows are the lower halves of its runes. *)
writeDataNames(nodes) ==
  LET names == FoldLeft(LAMBDA ns, p : IF Contains(ns, Last(p)) THEN ns ELSE Append(ns, Last(p)),
                        <<>>, nodes)
      sizes == [i \in DOMAIN names |-> 2 + 4 + 2 * Len(names[i])] IN
  [offsets |-> [n \in ToSet(names) |-> Offset(sizes, CHOOSE i \in DOMAIN names : names[i] = n)],
   at      |-> [o \in {Offset(sizes, i) : i \in DOMAIN names} |->
                  LET name == names[CHOOSE i \in DOMAIN names : Offset(sizes, i) = o] IN
                  [length |-> ByteLen(name), hash |-> Hash[name],
                   units  |-> [i \in DOMAIN name |-> name[i] % 2^16]]],
   size    |-> Sum(sizes)]

(* The first child of a directory: behind the root and the children of the
   directories visited before. *)
TreeOffset(fs, dirs, dir) ==
  LET i == CHOOSE j \in DOMAIN dirs : dirs[j] = dir IN
  1 + Offset([j \in DOMAIN dirs |-> Len(fs[dirs[j]].children)], i)

writeDataInfo(fs, dirs, p, blobs, names) ==
  LET name == IF p = root THEN 0 ELSE names.offsets[Last(p)] IN
  IF IsDir(fs, p)
  THEN [name |-> name, flags |-> "resDirectory",
        count |-> Len(fs[p].children), first |-> TreeOffset(fs, dirs, p)]
  ELSE [name |-> name, flags |-> "resNone",
        data |-> IF p = root THEN 0 ELSE blobs.offsets[p]]

writeDataTree(fs, dirs, nodes, blobs, names) ==
  [i \in 1 .. Len(nodes) + 1 |->
     writeDataInfo(fs, dirs, IF i = 1 THEN root ELSE nodes[i - 1], blobs, names)]

(* Mutant of maxPending: the largest of the children's, not their sum. *)
RECURSIVE maxPendingLargest(_, _)
maxPendingLargest(fs, p) ==
  Max({1} \cup {maxPendingLargest(fs, child) : child \in ToSet(Children(fs, p))})

(* The slice of pending directories has room for every file. *)
RECURSIVE maxPending(_, _)
maxPending(fs, p) ==
  1 + Sum([i \in DOMAIN fs[p].children |-> maxPending(fs, Children(fs, p)[i])])

(* Mutant of SortedOrders: any order. *)
Unsorted(names) == SetToSeqs(names)

(* sort.Sort leaves names of one hash in any order. *)
SortedOrders(names) ==
  {c \in SetToSeqs(names) :
     \A i, j \in DOMAIN c : i < j => Hash[c[i]] <= Hash[c[j]]}

Directories == {p \in DOMAIN files : IsDir(files, p)}

Pack ==
  /\ packed = NotPacked
  /\ \E order \in [Directories -> UNION {SortedOrders(ToSet(files[p].children)) : p \in Directories}] :
       LET fs == [p \in DOMAIN files |->
                    IF p \in Directories THEN [files[p] EXCEPT !.children = order[p]] ELSE files[p]]
           dirs  == Visit(fs, <<root>>)
           nodes == Nodes(fs, dirs)
           blobs == writeDataBlobs(fs, nodes)
           names == writeDataNames(nodes)
           tree  == writeDataTree(fs, dirs, nodes, blobs, names) IN
       /\ \A p \in Directories : order[p] \in SortedOrders(ToSet(files[p].children))
       /\ files' = fs
       /\ packed' = [version |-> 1, dataOffset |-> 20, nameOffset |-> 20 + blobs.size,
                     treeOffset |-> 20 + blobs.size + names.size,
                     size |-> 20 + blobs.size + names.size + 14 * Len(tree),
                     blobs |-> blobs.at, names |-> names.at, tree |-> tree]
  /\ UNCHANGED added

Next ==
  \/ \E path \in Paths, size \in Sizes : Add(path, size) \/ AddString(path, size)
  \/ Pack

Spec == Init /\ [][Next]_vars

(* Mutant of parseResourcesHeader: data does not start behind the header. *)
parseResourcesStrict(r) ==
  /\ r.version = 1
  /\ \A offset \in {r.treeOffset, r.dataOffset, r.nameOffset} : 20 < offset /\ offset < r.size

(* What ParseResources makes of what Bytes returned. *)
parseResourcesHeader(r) ==
  /\ r.version = 1
  /\ \A offset \in {r.treeOffset, r.dataOffset, r.nameOffset} : 20 <= offset /\ offset < r.size

-----------------------------------------------------------------------------
(* Qt, which reads the tables: names there are sequences of 16 bit units *)

Utf16(name) ==
  FlattenSeq([i \in DOMAIN name |->
    IF name[i] < 2^16 THEN <<name[i]>>
    ELSE <<55232 + (name[i] \div 2^10), 56320 + (name[i] % 2^10)>>])

(* With a length that is not that of its units, what is read goes on into
   what comes behind. *)
Garbage == <<-1>>
NameOf(r, node) ==
  LET name == r.names[r.tree[node].name] IN
  IF name.length = Len(name.units) THEN name.units ELSE Garbage
HashOf(r, node) == r.names[r.tree[node].name].hash

(* The binary search for a hash among the nodes from l to h. *)
RECURSIVE SearchHash(_, _, _, _)
SearchHash(r, hash, l, h) ==
  LET middle == (l + h + 1) \div 2 IN
  IF h <= l \/ HashOf(r, middle) = hash THEN middle
  ELSE IF hash < HashOf(r, middle) THEN SearchHash(r, hash, l, middle - 1)
  ELSE SearchHash(r, hash, middle, h)

(* The node of a name among the children of one: those with the hash that was
   found lie around it. *)
ChildNode(r, node, name) ==
  LET first == r.tree[node].first + 1
      last  == first + r.tree[node].count - 1
      hash  == IF Utf16(name) \in Names THEN Hash[Utf16(name)] ELSE qt_hash(Utf16(name))
      hit   == SearchHash(r, hash, first, last)
      alike == {i \in first .. last : \A j \in first .. last :
                  j \in hit .. i \cup i .. hit => HashOf(r, j) = hash} IN
  {i \in alike : NameOf(r, i) = Utf16(name)}

RECURSIVE findNode(_, _, _)
findNode(r, node, path) ==
  IF path = <<>> THEN {node}
  ELSE IF r.tree[node].flags # "resDirectory" THEN {}
  ELSE UNION {findNode(r, child, Tail(path)) : child \in ChildNode(r, node, Head(path))}

(* What QML finds under "qrc:///" + path: the data of one file, if any. *)
Found(path) ==
  {packed.blobs[packed.tree[n].data] :
     n \in {m \in findNode(packed, 1, path) : packed.tree[m].flags = "resNone"}}

-----------------------------------------------------------------------------
TypeOK ==
  /\ root \in DOMAIN files
  /\ \A p \in DOMAIN files :
       /\ p # root => Front(p) \in DOMAIN files
       /\ files[p].sdata \in Nat /\ files[p].bdata \in Nat \cup {nil}
       /\ ToSet(files[p].children) = {Last(q) : q \in {r \in DOMAIN files : r # root /\ Front(r) = p}}
       /\ IsInjective(files[p].children)
  /\ added \in [DOMAIN added -> Sizes] /\ DOMAIN added \subseteq Paths
  /\ packed # NotPacked =>
       \A n \in DOMAIN packed.tree :
         IF packed.tree[n].flags = "resDirectory"
         THEN packed.tree[n].first \in 1 .. Len(packed.tree) - packed.tree[n].count
         ELSE n = 1 \/ packed.tree[n].data \in DOMAIN packed.blobs

Ascii(path) == \A i \in DOMAIN path : \A j \in DOMAIN path[i] : path[i][j] < 2^7
OnlyAscii == \A path \in DOMAIN added : Ascii(path)

(* A file that became a directory, when a path through it was added. *)
Buried(path) == \E q \in DOMAIN added : path \in Above(q)

(* A resource is found under the path it was added with, with its own data,
   and nothing else is (resources.go:59-62, 110-111): the five passes over
   the tree agree on the order of the nodes, and the children of a directory
   are in the order Qt searches.  Not found are names that are not ASCII,
   and what was added to a file that then became a directory. *)
FindsWhatWasAdded ==
  packed # NotPacked /\ OnlyAscii =>
    \A path \in Paths :
      Found(path) = IF path \in DOMAIN added /\ ~Buried(path) THEN {added[path]} ELSE {}

(* The same of names in any alphabet: "under qrc:///+path". *)
FindsAnyName ==
  packed # NotPacked =>
    \A path \in DOMAIN added : Buried(path) \/ Found(path) = {added[path]}

(* "cannot add same resources path twice" (resources.go:141): what was added
   is not replaced, unless it had no data. *)
NeverReplaced ==
  [][\A path \in DOMAIN added : added[path] # 0 => added'[path] = added[path]]_vars

(* What was packed can be parsed, an empty collection too (resources.go:46). *)
ParsesBack == packed # NotPacked => parseResourcesHeader(packed)

(* The four passes that keep directories in the one slice of pending ones
   never overrun it (resources.go:167, 178, 228, 258, 294). *)
RECURSIVE Heights(_, _)
Heights(fs, pending) ==
  IF pending = <<>> THEN {0}
  ELSE {Len(pending)} \cup
       Heights(fs, Front(pending) \o
         SelectSeq(Children(fs, Last(pending)), LAMBDA p : IsDir(fs, p)))

PendingFits == \A h \in Heights(files, <<root>>) : h <= maxPending(files, root)
=============================================================================
