--------------------------- MODULE SeccompFilter ---------------------------
(***************************************************************************)
(* The seccomp filter sand installs before the payload starts.             *)
(* seccomp_apply compiles the architecture's deny list into a classic BPF  *)
(* program whose jumps only go forward and have eight-bit displacements;   *)
(* the kernel then runs that program on every system call.  Here the       *)
(* compiler is the operator Program and the kernel's interpreter is the    *)
(* next-state relation, one instruction per step, on the call made.        *)
(*                                                                         *)
(* The three words the program loads are kept: the audit architecture, the *)
(* call number and the low word of the first argument (clone's flags),     *)
(* with CLONE_NEWUSER and CLONE_NEWNET as two bits of a small number.      *)
(* A definition X_fault is a plausible fault in X's code; nothing uses it. *)
(***************************************************************************)
EXTENDS Integers, Sequences, FiniteSets, Bitwise

VARIABLES call,      \* the call made: [arch, ask, data]
          pc,        \* the next instruction
          acc,       \* the accumulator
          verdict    \* what the program returned, "none" before

filterVars == <<call, pc, acc, verdict>>

\* What the generated headers give: the deny list and clone's two numbers.
x86_64 ==
  [deny   |-> {101, 103, 134, 153, 155, 159, 164, 165, 166, 167, 168, 169, 172,
               173, 175, 176, 179, 212, 227, 246, 248, 249, 250, 272, 298, 300,
               303, 304, 308, 310, 311, 312, 313, 320, 321, 323, 425, 426, 427,
               428, 429, 430, 431, 432, 433, 438, 440, 442, 443, 448},
   clone  |-> 56,
   clone3 |-> 435]

aarch64 ==
  [deny   |-> {18, 39, 40, 41, 58, 60, 97, 104, 105, 106, 112, 116, 117, 142,
               170, 171, 217, 218, 219, 224, 225, 241, 262, 264, 265, 268, 270,
               271, 272, 273, 280, 282, 294, 404, 425, 426, 427, 428, 429, 430,
               431, 432, 433, 438, 440, 442, 443, 448},
   clone  |-> 220,
   clone3 |-> 435]

FilterMax == 512                         \* instructions in g_flt
OffNr == 0
OffArch == 4
OffArg0 == 16
NativeArch == 1                          \* AC_AUDIT_ARCH
NewUser == 2
NewNet == 4

-----------------------------------------------------------------------------
(* Instructions: k is the operand, jt and jf the displacements.            *)
Ld(off) == [op |-> "ld", k |-> off, jt |-> 0, jf |-> 0]
Jump(op, k, jt, jf) == [op |-> op, k |-> k, jt |-> jt % 256, jf |-> jf % 256]
Ret(r) == [op |-> "ret", k |-> r, jt |-> 0, jf |-> 0]

\* The tree over the sorted list d: a node, its left subtree, its right one.
\* The node's jt is patched once the left subtree has been emitted.
emit_bst_fault(d, r) ==
  LET bst[lo \in 1 .. Len(d) + 1, hi \in 0 .. Len(d)] ==
        IF lo > hi THEN <<>>
        ELSE LET mid  == (lo + hi) \div 2
                 left == bst[lo, mid - 1]
             IN <<Jump("jgt", d[mid], Len(left) + 1, 0),
                  Jump("jeq", d[mid], 0, 1), Ret(r)>>
                \o left \o bst[mid + 1, hi]
  IN bst[1, Len(d)]

emit_bst(d, r) ==
  LET bst[lo \in 1 .. Len(d) + 1, hi \in 0 .. Len(d)] ==
        IF lo > hi THEN <<>>
        ELSE LET mid  == (lo + hi) \div 2
                 left == bst[lo, mid - 1]
             IN <<Jump("jgt", d[mid], Len(left) + 2, 0),
                  Jump("jeq", d[mid], 0, 1), Ret(r)>>
                \o left \o bst[mid + 1, hi]
  IN bst[1, Len(d)]

deny_enosys(nr) == <<Jump("jeq", nr, 0, 1), Ret("ENOSYS")>>

\* g_deny_ret: a match is refused, or parked for the supervisor under --ask.
DenyRet(ask) == IF ask THEN "NOTIF" ELSE "EPERM"

\* denylist_build and qsort: the table's numbers in ascending order.
DenyList(a) ==
  [i \in 1 .. Cardinality(a.deny) |->
    CHOOSE n \in a.deny : Cardinality({m \in a.deny : m < n}) = i - 1]

seccomp_apply(a, ask) ==
  <<Ld(OffArch), Jump("jeq", NativeArch, 1, 0), Ret("KILL"), Ld(OffNr),
    Jump("jeq", a.clone, 0, 4), Ld(OffArg0),
    Jump("jset", NewUser + NewNet, 0, 1), Ret("EPERM"), Ld(OffNr)>>
  \o deny_enosys(a.clone3)
  \o emit_bst(DenyList(a), DenyRet(ask))
  \o <<Ret("ALLOW")>>

\* The header syscalls.h selects, by name, and every filter, compiled once.
Arch == [x86_64 |-> x86_64, aarch64 |-> aarch64]

Program ==
  [a \in DOMAIN Arch |-> [ask \in BOOLEAN |-> seccomp_apply(Arch[a], ask)]]

-----------------------------------------------------------------------------
(* The kernel's interpreter.                                               *)
Code == Program[call.arch][call.ask]

FilterInit(c) ==
  /\ call = c
  /\ pc = 1 /\ acc = 0
  /\ verdict = "none"

Running == verdict = "none"

Load ==
  /\ Running /\ Code[pc].op = "ld"
  /\ acc' = call.data[Code[pc].k]
  /\ pc' = pc + 1
  /\ UNCHANGED <<call, verdict>>

Taken(i) ==
  CASE i.op = "jeq"  -> acc = i.k
    [] i.op = "jgt"  -> acc > i.k
    [] i.op = "jset" -> (acc & i.k) # 0

Branch ==
  /\ Running /\ Code[pc].op \in {"jeq", "jgt", "jset"}
  /\ pc' = pc + 1 + (IF Taken(Code[pc]) THEN Code[pc].jt ELSE Code[pc].jf)
  /\ UNCHANGED <<call, acc, verdict>>

Return ==
  /\ Running /\ Code[pc].op = "ret"
  /\ verdict' = Code[pc].k
  /\ UNCHANGED <<call, pc, acc>>

FilterNext == Load \/ Branch \/ Return

-----------------------------------------------------------------------------
\* What the filter is for, said without a program.
Expected(c) ==
  LET a == Arch[c.arch]
      nr == c.data[OffNr]
  IN CASE c.data[OffArch] # NativeArch -> "KILL"
       [] c.data[OffArch] = NativeArch /\ nr = a.clone ->
            IF c.data[OffArg0] & (NewUser + NewNet) # 0
            THEN "EPERM" ELSE "ALLOW"
       [] c.data[OffArch] = NativeArch /\ nr = a.clone3 -> "ENOSYS"
       [] OTHER -> IF nr \in a.deny THEN DenyRet(c.ask) ELSE "ALLOW"

\* The compiled program fits its array, never jumps out of itself, and gives
\* every call the verdict of the deny list: the patched eight-bit displacement
\* of emit_bst reaches the right subtree, a miss in a left subtree that falls
\* through into a right one still ends in ALLOW, and the number is back in the
\* accumulator after clone's flags were tested (seccomp_apply, emit_bst).
FilterExact ==
  /\ Len(Code) <= FilterMax
  /\ pc \in 1 .. Len(Code)
  /\ verdict \in {"none", Expected(call)}
=============================================================================
