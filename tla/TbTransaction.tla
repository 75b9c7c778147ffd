--------------------------- MODULE TbTransaction ---------------------------
(***************************************************************************)
(* The transactions that the C++ testbench of the HPDcache exchanges:      *)
(* operation classes of include/hpdcache_test_transaction.h, and the two   *)
(* atomic units, the one of the scoreboard (hpdcache_test_amo.h) and the   *)
(* one of the memory response model.                                       *)
(*                                                                         *)
(* A word has W bits and a "half" access uses its low W \div 2 bits, as    *)
(* the code's 64-bit word and its 4-byte accesses do.                      *)
(***************************************************************************)
EXTENDS Integers, Sequences, FiniteSets

CONSTANT W

ASSUME WAssumption == W \in Nat \ {0}

Val == 0 .. 2^W - 1

(***************************************************************************)
(* Operation classes (is_load, is_store, is_amo, is_amo_lr, is_amo_sc,     *)
(* is_cmo, is_cmo_prefetch of the request).                                *)
(***************************************************************************)
AmoOps == {"AMO_SWAP", "AMO_ADD", "AMO_AND", "AMO_OR", "AMO_XOR",
           "AMO_MAX", "AMO_MAXU", "AMO_MIN", "AMO_MINU"}

CmoOps == {"CMO_FENCE", "CMO_PREFETCH", "CMO_INVAL_NLINE", "CMO_INVAL_ALL",
           "CMO_FLUSH_NLINE", "CMO_FLUSH_ALL",
           "CMO_FLUSH_INVAL_NLINE", "CMO_FLUSH_INVAL_ALL"}

ReqOps == {"LOAD", "STORE", "LR", "SC"} \cup AmoOps \cup CmoOps

IsRmw(op) == op \in AmoOps \cup {"LR", "SC"}

(***************************************************************************)
(* Memory commands: the command and atomic fields of a memory request.     *)
(***************************************************************************)
MemAtomics == {"ADD", "CLR", "SET", "EOR", "SMAX", "SMIN", "UMAX", "UMIN",
               "SWAP", "LDEX", "STEX"}

MemIsAmo(cmd) == cmd \in MemAtomics \ {"LDEX", "STEX"}

(***************************************************************************)
(* Bit operations on words.                                                *)
(***************************************************************************)
Bit(x, i) == (x \div 2^i) % 2

FromBits(b) ==
    LET sum[i \in 0 .. W] ==
            IF i = 0 THEN 0 ELSE sum[i - 1] + b[i - 1] * 2^(i - 1)
    IN  sum[W]

Zip(x, y, Op(_, _)) == FromBits([i \in 0 .. W - 1 |-> Op(Bit(x, i), Bit(y, i))])

AndBits(x, y) == Zip(x, y, LAMBDA a, b : a * b)
OrBits(x, y)  == Zip(x, y, LAMBDA a, b : IF a + b > 0 THEN 1 ELSE 0)
XorBits(x, y) == Zip(x, y, LAMBDA a, b : (a + b) % 2)
NotBits(x)    == 2^W - 1 - x

\* The value of the low n bits of x read as a two's-complement number.
Signed(x, n) == LET v == x % 2^n IN IF v >= 2^(n - 1) THEN v - 2^n ELSE v

\* Unsigned and signed comparisons of the two atomic units: signed on the
\* width of the access, unsigned on the whole (zero-extended) word.
Umax(ld, st) == ld > st
Smax(ld, st, half) ==
    LET n == IF half THEN W \div 2 ELSE W IN Signed(ld, n) > Signed(st, n)

(***************************************************************************)
(* hpdcache_test_amo::compute_amo, the scoreboard's atomic unit.           *)
(***************************************************************************)
ComputeAmo(op, ld, st, half) ==
    CASE op = "AMO_SWAP" -> st
      [] op = "AMO_ADD"  -> (ld + st) % 2^W
      [] op = "AMO_AND"  -> AndBits(ld, st)
      [] op = "AMO_OR"   -> OrBits(ld, st)
      [] op = "AMO_XOR"  -> XorBits(ld, st)
      [] op = "AMO_MAX"  -> IF Smax(ld, st, half) THEN ld ELSE st
      [] op = "AMO_MAXU" -> IF Umax(ld, st) THEN ld ELSE st
      [] op = "AMO_MIN"  -> IF Smax(ld, st, half) THEN st ELSE ld
      [] op = "AMO_MINU" -> IF Umax(ld, st) THEN st ELSE ld

(***************************************************************************)
(* hpdcache_test_mem_resp_model_base::compute_amo, the memory's unit.      *)
(***************************************************************************)
MemComputeAmo(atop, ld, st, half) ==
    CASE atop = "ADD"  -> (ld + st) % 2^W
      [] atop = "CLR"  -> AndBits(ld, NotBits(st))
      [] atop = "SET"  -> OrBits(ld, st)
      [] atop = "EOR"  -> XorBits(ld, st)
      [] atop = "SMAX" -> IF Smax(ld, st, half) THEN ld ELSE st
      [] atop = "UMAX" -> IF Umax(ld, st) THEN ld ELSE st
      [] atop = "SMIN" -> IF Smax(ld, st, half) THEN st ELSE ld
      [] atop = "UMIN" -> IF Umax(ld, st) THEN st ELSE ld
      [] atop = "SWAP" -> st

(***************************************************************************)
(* The translation the cache's uncached handler makes between the two      *)
(* encodings: AND is sent as a CLR of the complement.                      *)
(***************************************************************************)
MemAtomicOf == [op \in AmoOps |->
    CASE op = "AMO_SWAP" -> "SWAP" [] op = "AMO_ADD"  -> "ADD"
      [] op = "AMO_AND"  -> "CLR"  [] op = "AMO_OR"   -> "SET"
      [] op = "AMO_XOR"  -> "EOR"  [] op = "AMO_MAX"  -> "SMAX"
      [] op = "AMO_MAXU" -> "UMAX" [] op = "AMO_MIN"  -> "SMIN"
      [] op = "AMO_MINU" -> "UMIN"]

\* Mutant: the operand of AND is sent as it is.
MemDataPlain(op, x) == x

MemDataOf(op, x) == IF op = "AMO_AND" THEN NotBits(x) ELSE x
=============================================================================
