------------------------------- MODULE Arena -------------------------------
(***************************************************************************)
(* The region allocator of src/unnamed/part_001 (arena_init, malloc_arena, *)
(* calloc_arena, arena_clear, arena_free) with its process-wide free list  *)
(* of retired chunks (free_list, num_free).                                *)
(*                                                                         *)
(* Memory is a flat address space of integers, NULL = 0.  Blocks come from *)
(* the system allocator (try_malloc / try_realloc) by bumping `next`; a    *)
(* freed block is never handed out again, so a stale pointer keeps its     *)
(* address and its old contents, as freed memory does until it is reused.  *)
(* `mem` holds the struct arena_s records the code stores in memory: the   *)
(* arena structs themselves and the header copies `*ptr = *arena` writes   *)
(* at the start of every chunk.  Addresses count bytes in units of the     *)
(* header size Hdr's divisor, so pointer arithmetic is integer arithmetic. *)
(*                                                                         *)
(* `live` is a history variable: the regions malloc_arena has returned for *)
(* each arena since that arena was last cleared or freed.                  *)
(***************************************************************************)
EXTENDS Integers, Sequences, FiniteSets, TLC

CONSTANTS
  Arenas,     \* arena handles the client program holds
  Hdr,        \* sizeof(union header): the allocation granule
  THRESHOLD,  \* cap on num_free (compile-time constant, default 10)
  Slack,      \* the THRESHOLD * 1024 bytes added to every growth
  Sizes,      \* byte counts the client passes to malloc_arena
  Counts,     \* element counts the client passes to calloc_arena
  StructSz,   \* sizeof(struct arena_s), the block try_malloc returns
  MaxAddr,    \* bound on the address space the system allocator hands out
  MaxCalls    \* bound on the number of arena calls in a behaviour

ASSUME /\ Hdr \in Nat \ {0}
       /\ THRESHOLD \in Nat \ {0}
       /\ Slack \in Nat
       /\ Sizes \subseteq Nat \ {0}
       /\ Counts \subseteq Nat \ {0}
       /\ StructSz \in Nat \ {0}
       /\ MaxAddr \in Nat
       /\ MaxCalls \in Nat

NULL == 0

\* The raii_type tags the code stores in the `type` field.
RAII_ARENA        == "RAII_ARENA"
RAII_ARENA_STRUCT == "RAII_ARENA+RAII_STRUCT"
CLOBBERED         == "memset(-1)"

VARIABLES
  mem,        \* address -> struct arena_s stored there
  blocks,     \* base address -> size of each live system-allocator block
  freed,      \* base addresses of blocks returned to the system allocator
  next,       \* next address the system allocator hands out
  free_list,  \* static arena_t free_list
  num_free,   \* static int num_free
  arena,      \* handle -> address of its struct arena_s, NULL when none
  live,       \* handle -> regions <<addr, len>> returned since last reset
  calls       \* number of arena calls made so far

vars == <<mem, blocks, freed, next, free_list, num_free, arena, live, calls>>

-----------------------------------------------------------------------------
(* Helpers of the code.                                                    *)

\* The struct a fresh arena_init writes.
EmptyArena == [type |-> RAII_ARENA_STRUCT, prev |-> NULL, avail |-> NULL,
               limit |-> NULL, base |-> NULL, bytes |-> 0, total |-> 0]

\* nbytes rounded up to a multiple of sizeof(union header).
RoundUp(n) == ((n + Hdr - 1) \div Hdr) * Hdr

\* arena_capacity and arena_total of a struct whose type is
\* RAII_ARENA + RAII_STRUCT.
arena_capacity(r) == r.limit - r.avail
arena_total(r)    == (IF r.total > Hdr THEN r.total ELSE Hdr) - Hdr

\* The heap as a record, so the loops below can thread it through.
Heap == [mem |-> mem, blocks |-> blocks, freed |-> freed, next |-> next,
         fl |-> free_list, nf |-> num_free]

\* try_malloc(size): a fresh block, when the address space allows it.
Malloc(h, size) ==
  IF h.next + size <= MaxAddr
  THEN {[h EXCEPT !.blocks = @ @@ (h.next :> size), !.next = @ + size]}
  ELSE {}

\* free() of the blocks S.
Free(h, S) ==
  [h EXCEPT !.blocks = [x \in DOMAIN @ \ S |-> @[x]],
            !.freed = @ \cup S]

\* try_realloc(b, size): for NULL a fresh block; for a live block b, b
\* grown in place when it is the last block, or a fresh block receiving a
\* copy of b's contents while b is freed; a block that is not live is
\* treated as NULL.  Each outcome is [h, ptr].
Realloc(h, b, size) ==
  IF b = NULL \/ b \notin DOMAIN h.blocks
  THEN {[h |-> g, ptr |-> h.next]
          : g \in Malloc(h, size)}
  ELSE
    LET old   == h.blocks[b]
        moved == h.next
        inb   == {x \in DOMAIN h.mem : b <= x /\ x < b + old}
        copy  == [x \in {y - b + moved : y \in inb} |-> h.mem[x - moved + b]]
    IN  (IF b + old = h.next /\ b + size <= MaxAddr
         THEN {[h |-> [h EXCEPT !.blocks = [@ EXCEPT ![b] = size],
                                !.next = b + size],
                ptr |-> b]}
         ELSE {})
        \cup
        {[h |-> [Free(g, {b}) EXCEPT !.mem = copy @@ @], ptr |-> moved]
          : g \in Malloc(h, size)}

\* The tail of one iteration of malloc_arena's loop, once ptr and limit
\* are known: *ptr = *arena; arena->avail = ptr + 1 header;
\* arena->limit = limit; arena->prev = ptr; ptr->type = RAII_ARENA.
LinkChunk(h, p, ptr, limit) ==
  [h EXCEPT !.mem = LET m1 == (ptr :> [@[p] EXCEPT !.type = RAII_ARENA]) @@ @
                    IN  [m1 EXCEPT ![p].avail = ptr + Hdr,
                                   ![p].limit = limit,
                                   ![p].prev  = ptr]]

\* The while loop of malloc_arena: the set of heaps it can end in.
RECURSIVE GrowLoop(_, _, _)
GrowLoop(h, p, n) ==
  LET A == h.mem[p] IN
  IF n <= A.limit - A.avail THEN {h}
  ELSE IF h.fl # NULL
  THEN LET ptr == h.fl
           h1  == [h EXCEPT !.fl = h.mem[ptr].prev, !.nf = @ - 1]
       IN  GrowLoop(LinkChunk(h1, p, ptr, h.mem[ptr].limit), p, n)
  ELSE LET m   == Hdr + n + Slack
           tot == A.total + m
       IN  UNION { LET h2 == [r.h EXCEPT !.mem[p].total = tot,
                                         !.mem[p].base  = r.ptr]
                   IN  GrowLoop(LinkChunk(h2, p, r.ptr, r.ptr + tot), p, n)
                   : r \in Realloc(h, A.base, tot) }

\* Mutant: the THRESHOLD test is <= instead of <.
RECURSIVE ClearLoop_le(_, _)
ClearLoop_le(h, x) ==
  LET X == h.mem[x] IN
  IF X.prev = NULL \/ X.prev \notin DOMAIN h.mem
     \/ h.mem[X.prev].type # RAII_ARENA
  THEN h
  ELSE LET tmp == X.prev IN
       IF h.nf <= THRESHOLD
       THEN LET m1 == [h.mem EXCEPT ![tmp].prev = h.fl]
                fb == m1[tmp].bytes
                m2 == [m1 EXCEPT ![x].avail =
                          @ - (IF fb = 0 THEN m1[x].bytes ELSE fb)]
            IN  ClearLoop_le([h EXCEPT !.mem = m2, !.fl = tmp, !.nf = @ + 1], tmp)
       ELSE ClearLoop_le([h EXCEPT !.mem = [@ EXCEPT ![x].avail = X.base + Hdr,
                                                     ![x].limit = X.base + X.total,
                                                     ![x].bytes = 0,
                                                     ![x].prev  = NULL]], tmp)

\* The while loop of arena_clear, walking from the struct at x along prev.
RECURSIVE ClearLoop(_, _)
ClearLoop(h, x) ==
  LET X == h.mem[x] IN
  IF X.prev = NULL \/ X.prev \notin DOMAIN h.mem
     \/ h.mem[X.prev].type # RAII_ARENA
  THEN h
  ELSE LET tmp == X.prev IN
       IF h.nf < THRESHOLD
       THEN LET m1 == [h.mem EXCEPT ![tmp].prev = h.fl]
                fb == m1[tmp].bytes
                m2 == [m1 EXCEPT ![x].avail =
                          @ - (IF fb = 0 THEN m1[x].bytes ELSE fb)]
            IN  ClearLoop([h EXCEPT !.mem = m2, !.fl = tmp, !.nf = @ + 1], tmp)
       ELSE ClearLoop([h EXCEPT !.mem = [@ EXCEPT ![x].avail = X.base + Hdr,
                                                  ![x].limit = X.base + X.total,
                                                  ![x].bytes = 0,
                                                  ![x].prev  = NULL]], tmp)

SetHeap(h) ==
  /\ mem' = h.mem
  /\ blocks' = h.blocks
  /\ freed' = h.freed
  /\ next' = h.next
  /\ free_list' = h.fl
  /\ num_free' = h.nf

-----------------------------------------------------------------------------
(* Operations.                                                             *)

Init ==
  /\ mem = <<>>
  /\ blocks = <<>>
  /\ freed = {}
  /\ next = 1
  /\ free_list = NULL
  /\ num_free = 0
  /\ arena = [a \in Arenas |-> NULL]
  /\ live = [a \in Arenas |-> <<>>]
  /\ calls = 0

\* One more client call, within the MaxCalls bound.
Tick == calls < MaxCalls /\ calls' = calls + 1

\* A handle the client may pass to the arena functions: initialised and
\* not yet released by arena_free.  After arena_free the client still holds
\* the dangling address (the `arena = NULL` there is local to the callee).
Usable(a) == arena[a] # NULL /\ arena[a] \notin freed

\* arena_t a = arena_init(); on a handle not in use.
arena_init(a) ==
  /\ Tick
  /\ ~Usable(a)
  /\ \E h \in Malloc(Heap, StructSz):
       /\ SetHeap([h EXCEPT !.mem = (next :> EmptyArena) @@ @])
       /\ arena' = [arena EXCEPT ![a] = next]
  /\ live' = [live EXCEPT ![a] = <<>>]

\* malloc_arena(a, nbytes): the reset of num_free, the loop, the update of
\* the previous chunk's byte count and the bump of avail.
malloc_arena(a, nbytes) ==
  /\ Tick
  /\ Usable(a)
  /\ LET p  == arena[a]
         n  == RoundUp(nbytes)
         h0 == [Heap EXCEPT !.nf = IF arena_capacity(mem[p]) = arena_total(mem[p])
                                   THEN 0 ELSE @]
     IN \E h \in GrowLoop(h0, p, n):
          LET B  == h.mem[p]
              m1 == IF B.prev # NULL
                    THEN [h.mem EXCEPT ![B.prev].bytes = B.bytes]
                    ELSE h.mem
          IN /\ SetHeap([h EXCEPT !.mem = [m1 EXCEPT ![p].bytes = n,
                                                     ![p].avail = @ + n]])
             /\ live' = [live EXCEPT ![a] = Append(@, <<B.avail, n>>)]
  /\ UNCHANGED arena

\* calloc_arena(a, count, nbytes): the assertion on count, then
\* malloc_arena of the product; the memset writes only the returned region.
calloc_arena(a, count, nbytes) ==
  /\ count > 0
  /\ malloc_arena(a, count * nbytes)

\* arena_clear(a).
arena_clear(a) ==
  /\ Tick
  /\ Usable(a)
  /\ SetHeap(ClearLoop(Heap, arena[a]))
  /\ live' = [live EXCEPT ![a] = <<>>]
  /\ UNCHANGED arena

\* arena_free(a) on a usable handle: when the type tag reads
\* RAII_ARENA + RAII_STRUCT, the memset of the first word, free(arena->base)
\* and free(arena).  The client does not pass a released handle again: the
\* type test would then read freed memory, which the allocator may already
\* have handed to another arena.
arena_free(a) ==
  /\ Tick
  /\ Usable(a)
  /\ LET p == arena[a] IN
     IF mem[p].type = RAII_ARENA_STRUCT
     THEN SetHeap(Free([Heap EXCEPT !.mem = [@ EXCEPT ![p].type = CLOBBERED]],
                       {p, mem[p].base} \ {NULL}))
     ELSE UNCHANGED <<mem, blocks, freed, next, free_list, num_free>>
  /\ live' = [live EXCEPT ![a] = <<>>]
  /\ UNCHANGED arena

Next ==
  \E a \in Arenas:
    \/ arena_init(a)
    \/ \E n \in Sizes: malloc_arena(a, n)
    \/ \E c \in Counts, n \in Sizes: calloc_arena(a, c, n)
    \/ arena_clear(a)
    \/ arena_free(a)

Spec == Init /\ [][Next]_vars

-----------------------------------------------------------------------------
(* Views of the state the properties use.                                  *)

\* The addresses reached from x by following prev, x excluded.
RECURSIVE ChainFrom(_, _)
ChainFrom(x, seen) ==
  IF x = NULL \/ x \notin DOMAIN mem \/ x \in seen THEN seen
  ELSE ChainFrom(mem[x].prev, seen \cup {x})

\* The chunks on the process-wide free list.
FreeChunks == ChainFrom(free_list, {})

\* The chunks an arena's struct still links to through prev.
ArenaChunks(a) == ChainFrom(mem[arena[a]].prev, {})

\* Every region returned since its arena's last reset, tagged by its index.
Regions == UNION {{<<a, i>> : i \in DOMAIN live[a]} : a \in Arenas}
Region(r) == live[r[1]][r[2]]

\* Address x lies in a block the system allocator still considers live.
InLiveBlock(x) == \E b \in DOMAIN blocks: b <= x /\ x < b + blocks[b]

TypeOK ==
  /\ DOMAIN blocks \subseteq 1..MaxAddr
  /\ freed \subseteq 1..MaxAddr
  /\ next \in 1..MaxAddr
  /\ free_list \in {NULL} \cup DOMAIN mem
  /\ num_free \in Int /\ num_free <= THRESHOLD
  /\ arena \in [Arenas -> {NULL} \cup DOMAIN mem]
  /\ \A a \in Arenas: live[a] \in Seq(Int \X Nat)
  /\ calls \in 0..MaxCalls

(* Two regions returned by malloc_arena/calloc_arena and not yet released *)
(* by a clear or free of their arena never overlap, within one arena or   *)
(* across arenas.                                                          *)
Disjoint(r, s) == r[1] + r[2] <= s[1] \/ s[1] + s[2] <= r[1]
AllocationsDisjoint ==
  \A r, s \in Regions: r # s => Disjoint(Region(r), Region(s))

(* Every chunk on the process-wide free list lies in memory that is still *)
(* allocated, so the next arena to take it does not write freed memory.    *)
FreeListInLiveMemory == \A c \in FreeChunks: InLiveBlock(c)

=============================================================================
