-------------------------- MODULE OwnershipClient ---------------------------
(* main, and a client of its update helpers: the client reads a file as    *)
(* main does, resizes its tables in any order, to nothing included where   *)
(* the helper does not refuse that, and destroys the struct elf after the  *)
(* first failure or when it is done.                                       *)
EXTENDS Ownership

VARIABLES table,   \* the array being resized, Null in main
          block,   \* its block when the call began
          toZero   \* whether the client asked for a table of no entries

cvars == <<vars, table, block, toZero>>

Tables == {"main"} \X {"phdrs", "shdrs", "entries", "syms"}

ClientInit == Init /\ table = Null /\ block = Null /\ toZero = FALSE

MainStep ==
  /\ Next /\ (pc = "offsets" => table = Null)
  /\ UNCHANGED <<table, block, toZero>>

(* update_phnum and update_shnum refuse 0, update_dyn_sym_count a file     *)
(* without symbols; a parameter that is refused changes nothing.           *)
CallUpdate ==
  /\ pc = "offsets" /\ Stop("resize")
  /\ \E t \in Tables, zero \in BOOLEAN :
       /\ t[2] \in {"phdrs", "shdrs"} => ~ zero
       /\ t[2] = "syms" => ptr[t] # Null
       /\ table' = t /\ block' = ptr[t] /\ toZero' = zero

(* resize_table: its bounds checks come before the array is touched.       *)
ResizeTable ==
  /\ pc = "resize" /\ UNCHANGED <<table, block, toZero>>
  /\ \/ Stop("resize failed")
     \/ toZero /\ ReallocRefused(table) /\ Go("realloc failed")
     \/ ~ toZero /\ ReallocFailed(table) /\ Go("realloc failed")
     \/ ~ toZero /\ Reallocated(table) /\ Go("resized")

ReallocReturns ==
  pc = "realloc failed" /\ Stop("resize failed") /\ UNCHANGED <<table, block, toZero>>

(* A table too long to be counted in the header is freed after all.        *)
UpdateHeaders ==
  /\ pc = "resized" /\ UNCHANGED <<table, block, toZero>>
  /\ \/ Stop("offsets")
     \/ table = Phdrs /\ Free({Phdrs}) /\ Go("main err")

\* mistaken: the table is emptied and its array left
UpdateFails_unfreed ==
  /\ pc = "resize failed" /\ UNCHANGED <<table, block, toZero>>
  /\ IF table[2] \in {"phdrs", "shdrs"} THEN Forget({table}) ELSE UNCHANGED heap
  /\ Go("main err")

(* The err label of update_phnum and update_shnum; the two others return.  *)
UpdateFails ==
  /\ pc = "resize failed" /\ UNCHANGED <<table, block, toZero>>
  /\ IF table[2] \in {"phdrs", "shdrs"} THEN Free({table}) ELSE UNCHANGED heap
  /\ Go("main err")

Done ==
  /\ pc = "offsets" /\ table # Null /\ Stop("main err")
  /\ UNCHANGED <<table, block, toZero>>

ClientNext ==
  \/ MainStep \/ CallUpdate \/ ResizeTable \/ ReallocReturns \/ UpdateHeaders
  \/ UpdateFails \/ Done

ClientSpec == ClientInit /\ [][ClientNext]_cvars

-----------------------------------------------------------------------------

(* The arrays change hands from function to function, and are resized in   *)
(* any order, without a leak, failures included.  What does get lost is    *)
(* the array of a client that asks for no entries: safe_realloc returns    *)
(* NULL for that and keeps the block.                                      *)
OnlyZeroLeaks == NothingLost \/ toZero

(* The memory is freed on every path out of main and of the client, up to  *)
(* that one array.                                                         *)
AllFreed == CleanExit \/ (toZero /\ live = {block})

(* util.h:168 of safe_realloc: "If the check or `realloc` itself fail,     *)
(* `ptr` is freed if not previously NULL."                                 *)
FailedReallocFrees == pc = "realloc failed" => block \notin live

=============================================================================
