---------------------------- MODULE StringBuffer ----------------------------
(***************************************************************************)
(* The growing string of src/util/string.c: a block of memory, how much of *)
(* it is in use and how much there is.  Nothing ever writes a terminator:  *)
(* the buffer relies on every block being zeroed when it is allocated, on  *)
(* one byte more than the text being copied when it grows, and on growing  *)
(* while there is still a byte to spare.                                   *)
(***************************************************************************)
EXTENDS Naturals, Sequences

CONSTANTS
  Char,        (* the characters                                           *)
  NUL,         (* the one that ends a C string                             *)
  CStrings,    (* the C strings that callers append                        *)
  INCREMENT,   (* DEFAULT_STRING_INCREMENT                                 *)
  MaxLen       (* bound: no text of the model grows longer                 *)

ASSUME CharAssumption == NUL \in Char /\ CStrings \subseteq Seq(Char \ {NUL})
ASSUME IncrementAssumption == INCREMENT \in Nat \ {0} /\ MaxLen \in Nat

VARIABLE str   (* s, the block, indexed from 0; len; cap                   *)

TextOf(b) == [i \in 1..b.len |-> b.s[i - 1]]

(* checked_malloc(size) *)
zeroed(size) == [i \in 0..(size - 1) |-> NUL]

string_create == [s |-> zeroed(INCREMENT), len |-> 0, cap |-> INCREMENT]
StringInit == str = string_create

(* Mutant: the last byte is left behind as well. *)
copy_to_new_WithoutEnd(b, size) ==
  [s |-> [i \in 0..(size - 1) |-> IF i < b.len - 1 THEN b.s[i] ELSE zeroed(size)[i]],
   len |-> b.len, cap |-> size]
(* string_copy_to_new_char_array: len + 1 bytes move into the new block. *)
copy_to_new(b, size) ==
  [s |-> [i \in 0..(size - 1) |-> IF i <= b.len THEN b.s[i] ELSE zeroed(size)[i]],
   len |-> b.len, cap |-> size]

(* Mutant: the last byte of the block is used, the terminator's. *)
IsFull_LastByteToo(b) == b.len >= b.cap
IsFull(b) == b.len >= b.cap - 1

string_append_char(c) ==
  /\ str.len < MaxLen
  /\ LET b == IF IsFull(str) THEN copy_to_new(str, str.cap + INCREMENT) ELSE str
     IN  str' = [s |-> [b.s EXCEPT ![b.len] = c], len |-> b.len + 1, cap |-> b.cap]

(* The capacity at which the loop of string_append stops: the first, in     *)
(* steps of INCREMENT, that leaves a byte to spare after len bytes.         *)
StopsAt(cap, len) ==
  {c \in cap..(cap + len + INCREMENT + 1) :
     /\ (c - cap) % INCREMENT = 0
     /\ len < c - 1
     /\ c = cap \/ len >= c - INCREMENT - 1}

(* b with t appended, in a block of cap bytes. *)
append(b, t, cap) ==
  LET g == IF cap = b.cap THEN b ELSE copy_to_new(b, cap)
  IN  [s   |-> [i \in 0..(cap - 1) |->
                  IF i \in b.len..(b.len + Len(t) - 1) THEN t[i - b.len + 1] ELSE g.s[i]],
       len |-> b.len + Len(t),
       cap |-> cap]
string_append(t) ==
  /\ str.len + Len(t) <= MaxLen
  /\ \E cap \in StopsAt(str.cap, str.len + Len(t)) : str' = append(str, t, cap)

(* strlen(string_cstring(str)): up to the first NUL, which need not be the  *)
(* end of the text.                                                         *)
IsStrlen(n) == n \in 0..str.len /\ str.s[n] = NUL /\ \A i \in 0..(n - 1) : str.s[i] # NUL
(* string_concat(str, str), which takes the place of str. *)
string_concat ==
  \E n \in 0..str.len :
    /\ IsStrlen(n) /\ 2 * n <= MaxLen
    /\ LET t == SubSeq(TextOf(str), 1, n) IN
       \E cap1 \in StopsAt(INCREMENT, n) : \E cap2 \in StopsAt(cap1, 2 * n) :
         str' = append(append(string_create, t, cap1), t, cap2)

string_trim == str' = copy_to_new(str, str.len + 1)

StringNext ==
  \/ \E c \in Char : string_append_char(c)
  \/ \E t \in CStrings : string_append(t)
  \/ string_concat
  \/ string_trim

StringSpec == StringInit /\ [][StringNext]_str

-----------------------------------------------------------------------------

StringTypeOK ==
  /\ str = [s |-> str.s, len |-> str.len, cap |-> str.cap]
  /\ str.len \in Nat /\ str.cap \in Nat
  /\ str.s \in [0..(str.cap - 1) -> Char]

(* What string_cstring asserts (string.c:70), the byte it looks at being    *)
(* one of the block: whatever was appended, in whatever steps the block     *)
(* grew, and after it was trimmed to its last byte.                         *)
Terminated == str.len < str.cap /\ str.s[str.len] = NUL

(* Why it holds: nothing but zeros follows the text (util.c:31,             *)
(* string.c:34), so that no append has to write a terminator.               *)
ZerosFollow == str.len < str.cap /\ \A i \in str.len..(str.cap - 1) : str.s[i] = NUL

(* No operation grows the block by a step that it did not need              *)
(* (string.c:42, 53).                                                       *)
NoMoreThanNeeded == str.cap <= str.len + 1 + INCREMENT \/ str.cap = INCREMENT

(* The bytes in use are the text that was appended: none is lost or         *)
(* written past the block when it grows or is trimmed.                      *)
T == INSTANCE Text WITH text <- TextOf(str)
TextSpec == T!Spec
=============================================================================
