-------------------------------- MODULE Heap --------------------------------
(* The memory the program allocates, as its owners see it.  A place is a   *)
(* pointer the code declares: a local variable or a member of a struct.    *)
(* What the blocks hold is left out: a check of their contents is a choice *)
(* of the step that makes it.                                              *)
EXTENDS FiniteSets

CONSTANTS Blocks,   \* the blocks the allocator can hand out
          Null      \* a pointer to nothing

ASSUME NullAssumption == Null \notin Blocks

VARIABLES ptr,      \* [place -> what the pointer holds]
          live,     \* the blocks allocated and not freed
          fault     \* the first misuse of a pointer, "none" so far

heap == <<ptr, live, fault>>

Places == DOMAIN ptr
Pointed == {ptr[p] : p \in Places} \ {Null}
Held(S) == {p \in S : ptr[p] # Null}

(* A block nothing points to: a dangling pointer keeps its block apart.    *)
Unused == Blocks \ (live \cup Pointed)
Fresh == CHOOSE b \in Unused : TRUE

HeapInit(S) ==
  /\ ptr = [p \in S |-> Null]
  /\ live = {}
  /\ fault = "none"

(* malloc and calloc that succeed.                                         *)
Alloc(p) ==
  /\ Unused # {}
  /\ ptr' = [ptr EXCEPT ![p] = Fresh]
  /\ live' = live \cup {Fresh}
  /\ UNCHANGED fault

(* free of every pointer of S that is not NULL, each then set to NULL.     *)
DoublyFreed(S) ==
  \E p \in Held(S) : \/ ptr[p] \notin live
                     \/ \E q \in Held(S) \ {p} : ptr[q] = ptr[p]

Free(S) ==
  /\ ptr' = [p \in Places |-> IF p \in S THEN Null ELSE ptr[p]]
  /\ live' = live \ {ptr[p] : p \in S}
  /\ fault' = IF fault = "none" /\ DoublyFreed(S) THEN "double free" ELSE fault

(* The assignment p = q, after which both point to the block.               *)
Copy(p, q) ==
  /\ ptr' = [ptr EXCEPT ![p] = ptr[q]]
  /\ UNCHANGED <<live, fault>>

Forget(S) ==
  /\ ptr' = [p \in Places |-> IF p \in S THEN Null ELSE ptr[p]]
  /\ UNCHANGED <<live, fault>>

(* S is handed from frame f to frame g, whose pointers take its values.    *)
Move(f, g, S) ==
  /\ ptr' = [p \in Places |->
               IF p[2] \notin S THEN ptr[p]
               ELSE IF p[1] = g THEN ptr[<<f, p[2]>>]
               ELSE IF p[1] = f THEN Null ELSE ptr[p]]
  /\ UNCHANGED <<live, fault>>

(* Reads and writes through the pointers S, which the code does not test.  *)
Use(S) ==
  /\ fault' = IF fault = "none" /\ \E p \in S : ptr[p] \notin live
                THEN "bad access" ELSE fault
  /\ UNCHANGED <<ptr, live>>

-----------------------------------------------------------------------------

(* safe_realloc(&p, n, size), its result stored in p: it refuses a size of *)
(* 0 or one that overflows before it touches the block, frees the block    *)
(* when realloc fails, and returns the block that replaces it otherwise.   *)
ReallocRefused(p) == Forget({p})

\* mistaken: realloc alone, which leaves the old block to the caller
ReallocFailed_kept(p) == Forget({p})
\* mistaken: the pointer to the freed block stays
ReallocFailed_dangling(p) ==
  /\ UNCHANGED <<ptr, fault>>
  /\ live' = live \ {ptr[p]}

ReallocFailed(p) == Free({p})

Reallocated(p) ==
  /\ Unused # {}
  /\ ptr' = [ptr EXCEPT ![p] = Fresh]
  /\ live' = (live \ {ptr[p]}) \cup {Fresh}
  /\ fault' = IF fault = "none" /\ ptr[p] # Null /\ ptr[p] \notin live
                THEN "double free" ELSE fault

=============================================================================
