--------------------------- MODULE VirtualMemory ----------------------------
(***************************************************************************)
(* Hierarchical_Virtual_Memory_System: a virtual memory over a RAM that     *)
(* also holds its page tables.  The program is sequential: a step is a      *)
(* whole call of VMread, VMwrite or VMinitialize.                           *)
(***************************************************************************)
EXTENDS Integers, FiniteSets

CONSTANTS
  OFFSET_WIDTH, PHYSICAL_ADDRESS_WIDTH, VIRTUAL_ADDRESS_WIDTH,
  Address,  \* the virtual addresses that the program uses, valid or not
  Value,    \* the words that it writes
  NoResult, \* the result of a call that has returned 0
  Unused    \* the content of a page that is neither in the RAM nor swapped out

VARIABLES
  RAM,       \* frame, offset -> word
  swapFile,  \* page -> content, for the pages swapped out
  result     \* the result of the last call

vars == <<RAM, swapFile, result>>

\* 1LL << n: shifts are products with it and quotients by it.
Bit[n \in Nat] == IF n = 0 THEN 1 ELSE 2 * Bit[n - 1]

\* MemoryConstants.h
PAGE_SIZE           == Bit[OFFSET_WIDTH]
NUM_FRAMES          == Bit[PHYSICAL_ADDRESS_WIDTH] \div PAGE_SIZE
VIRTUAL_MEMORY_SIZE == Bit[VIRTUAL_ADDRESS_WIDTH]
NUM_PAGES           == VIRTUAL_MEMORY_SIZE \div PAGE_SIZE
TABLES_DEPTH        == (VIRTUAL_ADDRESS_WIDTH - 1) \div OFFSET_WIDTH

Frame  == 0 .. NUM_FRAMES - 1
Offset == 0 .. PAGE_SIZE - 1
Page   == 0 .. NUM_PAGES - 1
Word   == Value \union {0} \union Frame

\* The frames must hold the tables on the way to a page and the page: with fewer
\* the code would evict frame 0, its root.
ASSUME WidthAssumption ==
  /\ OFFSET_WIDTH \in Nat \ {0}
  /\ VIRTUAL_ADDRESS_WIDTH \in Nat /\ VIRTUAL_ADDRESS_WIDTH > OFFSET_WIDTH
  /\ PHYSICAL_ADDRESS_WIDTH \in Nat /\ PHYSICAL_ADDRESS_WIDTH >= OFFSET_WIDTH
  /\ NUM_FRAMES > TABLES_DEPTH
  /\ Address \subseteq Nat

-----------------------------------------------------------------------------
(* The tree of tables that tree_traversal walks: a node is a frame with the  *)
(* table and the entry that point to it, and the path from the root, as a    *)
(* number.                                                                  *)

Root == [frame |-> 0, parent |-> 0, offset |-> 0, path |-> 0, depth |-> 0]

Children(ram, n) ==
  {[frame |-> ram[n.frame][j], parent |-> n.frame, offset |-> j,
    path |-> n.path * PAGE_SIZE + j, depth |-> n.depth + 1] :
      j \in {i \in Offset : ram[n.frame][i] # 0}}

Levels(ram) ==
  LET level[d \in 0 .. TABLES_DEPTH] ==
        IF d = 0 THEN {Root} ELSE UNION {Children(ram, n) : n \in level[d - 1]}
  IN level

Nodes(ram)  == UNION {Levels(ram)[d] : d \in 0 .. TABLES_DEPTH}
Leaves(ram) == Levels(ram)[TABLES_DEPTH]

\* The tables without entries, except the one the translation has just reached.
EmptyTables(ram, old) ==
  {n \in Nodes(ram) : /\ n.depth < TABLES_DEPTH
                      /\ n.frame # old
                      /\ \A j \in Offset : ram[n.frame][j] = 0}

\* The first page that the walk comes to below a node: it orders the nodes
\* that are not below one another as the walk does.
FirstPage(n) == n.path * Bit[(TABLES_DEPTH - n.depth) * OFFSET_WIDTH]

\* Mutant: the distance is not cyclic.
MutantCyclicDistance(p, q) == IF p > q THEN p - q ELSE q - p

\* cyclic_distance of two pages.
CyclicDistance(p, q) ==
  LET ans == IF p > q THEN p - q ELSE q - p
  IN IF NUM_PAGES - ans > ans THEN ans ELSE NUM_PAGES - ans

\* The page to evict: the first of the farthest from the page wanted.
Farthest(ram, page) ==
  CHOOSE n \in Leaves(ram) : \A m \in Leaves(ram) :
    \/ CyclicDistance(page, n.path) > CyclicDistance(page, m.path)
    \/ /\ CyclicDistance(page, n.path) = CyclicDistance(page, m.path)
       /\ n.path <= m.path

-----------------------------------------------------------------------------
(* The operations on a memory m: a RAM and a swap file.                     *)

PMwrite(m, frame, offset, word) == [m EXCEPT !.ram[frame][offset] = word]

\* Mutant: a page is stored under the address of its first word.
MutantPMevict(m, frame, page) ==
  [m EXCEPT !.swap = [p \in DOMAIN m.swap \union {page * PAGE_SIZE} |->
                        IF p = page * PAGE_SIZE THEN m.ram[frame] ELSE m.swap[p]]]

PMevict(m, frame, page) ==
  [m EXCEPT !.swap = [p \in DOMAIN m.swap \union {page} |->
                        IF p = page THEN m.ram[frame] ELSE m.swap[p]]]

\* Mutant: the restored page stays in the swap file.
MutantPMrestore(m, frame, page) ==
  IF page \notin DOMAIN m.swap THEN m
  ELSE [m EXCEPT !.ram[frame] = m.swap[page]]

PMrestore(m, frame, page) ==
  IF page \notin DOMAIN m.swap THEN m
  ELSE [ram  |-> [m.ram EXCEPT ![frame] = m.swap[page]],
        swap |-> [p \in DOMAIN m.swap \ {page} |-> m.swap[p]]]

\* Mutant: an empty table is taken without unlinking it from its parent.
MutantEmptyFrame(m, page, old) ==
  LET empty   == EmptyTables(m.ram, old)
      highest == CHOOSE n \in Nodes(m.ram) : \A o \in Nodes(m.ram) : n.frame >= o.frame
      far     == Farthest(m.ram, page)
  IN IF empty # {} THEN [frame |-> (CHOOSE n \in empty : TRUE).frame, mem |-> m]
     ELSE IF highest.frame + 1 < NUM_FRAMES THEN [frame |-> highest.frame + 1, mem |-> m]
     ELSE [frame |-> far.frame,
           mem |-> PMwrite(PMevict(m, far.frame, far.path), far.parent, far.offset, 0)]

\* emptyFrame: an empty table, else a frame never used, else that of the page
\* evicted, each unlinked from its parent.
emptyFrame(m, page, old) ==
  LET empty   == EmptyTables(m.ram, old)
      highest == CHOOSE n \in Nodes(m.ram) : \A o \in Nodes(m.ram) : n.frame >= o.frame
      unlinked(n, mem) == [frame |-> n.frame, mem |-> PMwrite(mem, n.parent, n.offset, 0)]
  IN IF empty # {}
     THEN unlinked(CHOOSE n \in empty : \A o \in empty : FirstPage(n) <= FirstPage(o), m)
     ELSE IF highest.frame + 1 < NUM_FRAMES
     THEN [frame |-> highest.frame + 1, mem |-> m]
     ELSE LET far == Farthest(m.ram, page)
          IN unlinked(far, PMevict(m, far.frame, far.path))

clearMemory(m, frame) == [m EXCEPT !.ram[frame] = [j \in Offset |-> 0]]

\* Mutant: off by one in the depth, so that a page is taken for a table.
MutantFindEmptyCell(m, depth, page, table, idx, old) ==
  LET found == emptyFrame(m, page, old)
      ready == IF depth = TABLES_DEPTH
               THEN PMrestore(found.mem, found.frame, page)
               ELSE clearMemory(found.mem, found.frame)
  IN [frame |-> found.frame, mem |-> PMwrite(ready, table, idx, found.frame)]

\* The new frame of a missing entry, with what it must hold, linked to its table.
findEmptyCell(m, depth, page, table, idx, old) ==
  LET found == emptyFrame(m, page, old)
      ready == IF depth = TABLES_DEPTH - 1
               THEN PMrestore(found.mem, found.frame, page)
               ELSE clearMemory(found.mem, found.frame)
  IN [frame |-> found.frame, mem |-> PMwrite(ready, table, idx, found.frame)]

\* extractPhysicalAdd: after i levels, the frame reached and the memory.
extractPhysicalAdd(m, address) ==
  LET page == address \div PAGE_SIZE
      idx(i) == (address \div Bit[(TABLES_DEPTH - i) * OFFSET_WIDTH]) % PAGE_SIZE
      reached[i \in 0 .. TABLES_DEPTH] ==
        IF i = 0 THEN [frame |-> 0, mem |-> m]
        ELSE LET r     == reached[i - 1]
                 entry == r.mem.ram[r.frame][idx(i - 1)]
             IN IF entry # 0 THEN [r EXCEPT !.frame = entry]
                ELSE findEmptyCell(r.mem, i - 1, page, r.frame, idx(i - 1), r.frame)
  IN reached[TABLES_DEPTH]

-----------------------------------------------------------------------------
Memory == [ram |-> RAM, swap |-> swapFile]

Becomes(m) == RAM' = m.ram /\ swapFile' = m.swap

Cleared == [f \in Frame |-> [j \in Offset |-> 0]]

\* The program starts with VMinitialize.
Init == RAM = Cleared /\ swapFile = <<>> /\ result = NoResult

\* VMinitialize once more: the swap file stays.
VMinitialize ==
  /\ RAM' = Cleared
  /\ result' = NoResult
  /\ UNCHANGED swapFile

VMread(a) ==
  /\ a < VIRTUAL_MEMORY_SIZE
  /\ LET r == extractPhysicalAdd(Memory, a)
     IN Becomes(r.mem) /\ result' = r.mem.ram[r.frame][a % PAGE_SIZE]

VMwrite(a, v) ==
  /\ a < VIRTUAL_MEMORY_SIZE
  /\ LET r == extractPhysicalAdd(Memory, a)
     IN Becomes(PMwrite(r.mem, r.frame, a % PAGE_SIZE, v))
  /\ result' = v

\* Both return 0 for an address that does not exist.
Refuse(a) ==
  /\ a >= VIRTUAL_MEMORY_SIZE
  /\ result' = NoResult
  /\ UNCHANGED <<RAM, swapFile>>

Next ==
  \/ \E a \in Address : VMread(a) \/ Refuse(a) \/ \E v \in Value : VMwrite(a, v)
  \/ VMinitialize

Spec == Init /\ [][Next]_vars

-----------------------------------------------------------------------------
(* Properties.                                                             *)

TypeOK ==
  /\ RAM \in [Frame -> [Offset -> Word]]
  /\ DOMAIN swapFile \subseteq Page
  /\ \A p \in DOMAIN swapFile : swapFile[p] \in [Offset -> Word]
  /\ result \in Word \union {NoResult}

\* The frames in use form a tree and fill the RAM from below: no frame has two
\* owners, and none is lost, whatever was evicted or given back in between.
FramesExact ==
  LET used == {n.frame : n \in Nodes(RAM)}
  IN /\ Cardinality(Nodes(RAM)) = Cardinality(used)
     /\ \A f \in used : 0 .. f \subseteq used

\* A page is in the RAM or in the swap file, never in both: what PMevict asserts,
\* also for a swap file that is older than the last VMinitialize.
PageInOnePlace == \A n \in Leaves(RAM) : n.path \notin DOMAIN swapFile

\* The content of every page, wherever it is.
Pages == [p \in Page |->
  IF \E n \in Leaves(RAM) : n.path = p THEN RAM[(CHOOSE n \in Leaves(RAM) : n.path = p).frame]
  ELSE IF p \in DOMAIN swapFile THEN swapFile[p] ELSE Unused]

\* Translation, eviction and restoration change no page but the one addressed,
\* and a read gives what was last written.
Flat == INSTANCE FlatMemory WITH pages <- Pages
KeepsFlatMemory == Flat!Spec

\* A page leaves the RAM only when every frame is in use, and every page that
\* stays is, the shorter way around, as near to the page wanted as those that leave.
Around(p, q) ==
  CHOOSE d \in Page : /\ (p + d) % NUM_PAGES = q \/ (q + d) % NUM_PAGES = p
                      /\ \A e \in 0 .. d - 1 : /\ (p + e) % NUM_PAGES # q
                                               /\ (q + e) % NUM_PAGES # p
Resident == {n.path : n \in Leaves(RAM)}
Evicted  == (Resident \ Resident') \intersect DOMAIN swapFile'
EvictsFarthest == [][
  \A p \in Evicted :
    /\ {n.frame : n \in Nodes(RAM)}' = Frame
    /\ \A a \in Address : (VMread(a) \/ \E v \in Value : VMwrite(a, v)) =>
         \A q \in Resident \intersect Resident' :
           Around(a \div PAGE_SIZE, q) <= Around(a \div PAGE_SIZE, p)]_vars

=============================================================================
