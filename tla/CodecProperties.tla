-------------------------- MODULE CodecProperties ---------------------------
(* What a structure's way into the file and back must satisfy.  The        *)
(* reference is the declaration of the structure in elf.h, field by field. *)
EXTENDS Codec

FileSize == Sizeof(kind, data.clazz)
InFile == Declared(kind, data.clazz)

(* The offset of the byte of significance k (from 0) of a field of n bytes *)
(* at offset p: e_ident has no order, the rest the file's.                 *)
ByteAt(d, p, k) ==
  start + p + (IF d.f = "e_ident" \/ data.encoding = "LSB" THEN k ELSE d.n - 1 - k)

(* Field i of the structure in b has the value v.                          *)
Holds(b, i, v) ==
  LET d == InFile[i]
      p == OffsetOf(InFile, i)
  IN  \A k \in 0 .. d.n - 1 : b[ByteAt(d, p, k)] = (v \div Base ^ k) % Base

HoldsAll(b) ==
  \A i \in DOMAIN InFile :
    LET d == InFile[i] IN
    /\ Holds(b, i, val[d.f] % Base ^ d.n)
    /\ Representable(val[d.f], d.n, d.signed)

After(call, r) == ~running /\ last = call /\ ret = r

(* After a write_ function has succeeded, the file holds the structure as  *)
(* elf.h declares it for the file's class, in the file's byte order and    *)
(* with no value cut down, and *off_p is behind it, which serialize_arr    *)
(* relies on for the next entry and checks at the end.                     *)
WritesDeclared ==
  After("write", 0) => HoldsAll(data.buf) /\ off = start + FileSize

(* After a read_ function has succeeded, memory holds what the file does,  *)
(* negative tags included, and *off_p is behind the structure: the parsers *)
(* abort the process when it is not.                                       *)
ReadsDeclared ==
  After("read", 0) => HoldsAll(data.buf) /\ off = start + FileSize

(* A call fails only for a reason it documents: the structure reaches past *)
(* the end of the file or, in a write, a value does not fit the class; and *)
(* for these reasons it does fail.                                         *)
RefusesUnrepresentable ==
  ~running /\ last # "none" =>
    (ret = 1 <=> \/ start + FileSize > data.size
                 \/ /\ last = "write"
                    /\ \E d \in Range(InFile) : ~Representable(val[d.f], d.n, d.signed))

(* At no time, in a call that fails half-way either, has a byte changed    *)
(* that is not one of the structure's, and what *off_p has not passed is   *)
(* as it was.                                                              *)
OthersUntouched ==
  /\ off <= start + FileSize
  /\ DOMAIN data.buf = 0 .. data.size - 1
  /\ \A k \in DOMAIN data.buf \ (start .. off - 1) : data.buf[k] = before[k]

=============================================================================
