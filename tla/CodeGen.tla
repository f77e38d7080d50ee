------------------------------ MODULE CodeGen ------------------------------
(* The code generator of x64codegen.c for the body of one function: from a  *)
(* prefix stream of nodes to instructions.  An instruction is what its      *)
(* bytes do, one place in the code; a node and its payload are one record,  *)
(* and a variable is its address.                                           *)
EXTENDS Integers, FiniteSets, FiniteSetsExt, SequencesExt

CONSTANTS Scratch,      \* pool_scratch
          Saved,        \* pool_saved
          ArgRegs,      \* sysv_arg_regs
          ImmMax,       \* INT32_MAX
          SlotBytes     \* sizeof(size_t)

RAX == "RAX"
CALLEE_REG == "R11"

(* FnState, the range and the buffer; reg is the answer of reg_pick, many   *)
(* that of codegen_expr, dead says that the compiler has exited             *)
Fresh == [it |-> 1, out |-> <<>>, returns |-> <<>>, busy |-> {}, cs_used |-> {},
          depth |-> 0, reg |-> RAX, many |-> 0, dead |-> FALSE]

-----------------------------------------------------------------------------
(* Instructions                                                             *)
Out(s, op, a, b, v) ==
    [s EXCEPT !.out = Append(@, [op |-> op, a |-> a, b |-> b, v |-> v])]
Here(s) == Len(s.out) + 1

emit_store_imm32(s, base, disp, imm) ==
    [s EXCEPT !.out = Append(@, [op |-> "storei", a |-> base, b |-> base, v |-> imm, k |-> disp])]
emit_lea_idx8(s, dst, base, index) ==
    [s EXCEPT !.out = Append(@, [op |-> "lea8", a |-> dst, b |-> base, v |-> 0, x |-> index])]

Mov(s, dst, src) == IF dst = src THEN s ELSE Out(s, "mov", dst, src, 0)
Push(s, r) == [Out(s, "push", r, r, 0) EXCEPT !.depth = @ + 1]
Pop(s, r) == [Out(s, "pop", r, r, 0) EXCEPT !.depth = @ - 1]

patch_rel(s, at, target) == [s EXCEPT !.out[at].v = target]

(* Registers                                                                *)
reg_pick(s, pool, avoid) ==
    LET free == {i \in DOMAIN pool : pool[i] \notin s.busy \cup {avoid}}
    IN  IF free = {} THEN [s EXCEPT !.dead = TRUE, !.reg = avoid]
        ELSE [s EXCEPT !.reg = pool[Min(free)], !.busy = @ \cup {pool[Min(free)]}]

pick_scratch(s, avoid) == reg_pick(s, Scratch, avoid)
(* mutant of pick_saved: the use of the register is not noted *)
pick_saved_unnoted(s, avoid) == reg_pick(s, Saved, avoid)

pick_saved(s, avoid) == LET p == reg_pick(s, Saved, avoid)
                        IN  [p EXCEPT !.cs_used = @ \cup {p.reg}]
(* mutant of reg_free: the register stays reserved *)
reg_kept(s, r) == s

reg_free(s, r) == [s EXCEPT !.busy = @ \ {r}]

-----------------------------------------------------------------------------
(* Leaves                                                                   *)
IsLeaf(ns, s) == s.it <= Len(ns) /\ ns[s.it].tok \in {"num", "str", "var"}
IsSmallImm(ns, s) == IsLeaf(ns, s) /\ ns[s.it].tok = "num" /\ ns[s.it].val <= ImmMax
Skip(s) == [s EXCEPT !.it = @ + 1]

Leaf(s, n, treg, mode) ==
    IF n.tok = "var" /\ mode = "value"
    THEN IF treg = RAX THEN Out(s, "loadabs", RAX, RAX, n.val)
         ELSE Out(Out(s, "imm", treg, treg, n.val), "load", treg, treg, 0)
    ELSE Out(s, "imm", treg, treg, n.val)

expect_single(s) == [s EXCEPT !.dead = @ \/ s.many # 0]

RECURSIVE Expr(_, _, _, _)
Value(ns, s, treg) == expect_single(Expr(ns, s, treg, "value"))

-----------------------------------------------------------------------------
(* Binary operators and compares                                            *)
Compares == {"less", "lesseq", "eqeq"}
Negated(cc) == CASE cc = "less" -> "ge" [] cc = "lesseq" -> "gt" [] cc = "eqeq" -> "ne"
PowerOf2(n) == \E k \in 0 .. n : 2 ^ k = n

AluImm(s, op, dst, v) ==
    CASE op \in Compares               -> Out(s, "cmpi", dst, dst, v)
      [] op \in {"add", "sub"}         -> IF v = 0 THEN s ELSE Out(s, op \o "i", dst, dst, v)
      [] op = "mul" /\ v = 1           -> s
      [] op = "mul" /\ v > 1 /\ PowerOf2(v)
                                       -> Out(s, "shl", dst, dst, CHOOSE k \in 0 .. v : 2 ^ k = v)
      [] OTHER                         -> Out(s, "muli", dst, dst, v)

AluReg(s, op, dst, src) == Out(s, IF op \in Compares THEN "cmp" ELSE op, dst, src, 0)

(* mutant of KeepLeft: the left value is kept in a scratch register *)
KeepLeftInScratch(s, avoid) == pick_scratch(s, avoid)

KeepLeft(s, avoid) == pick_saved(s, avoid)

(* an immediate is folded, a leaf goes through a scratch register, and the  *)
(* left value of a complex right operand through the register of KeepLeft,  *)
(* which then holds the result                                              *)
Combined(ns, s, op, treg) ==
    LET left == Value(ns, s, treg)
    IN  IF IsSmallImm(ns, left)
        THEN [AluImm(Skip(left), op, treg, ns[left.it].val) EXCEPT !.reg = treg]
        ELSE IF IsLeaf(ns, left)
        THEN LET p == pick_scratch(left, treg)
                 q == Leaf(Skip(p), ns[left.it], p.reg, "value")
             IN  [reg_free(AluReg(q, op, treg, p.reg), p.reg) EXCEPT !.reg = treg]
        ELSE LET p == KeepLeft(left, treg)
                 q == Value(ns, Mov(p, p.reg, treg), treg)
             IN  [reg_free(AluReg(q, op, p.reg, treg), p.reg) EXCEPT !.reg = p.reg]

gen_binary(ns, s, op, treg, flagsOnly) ==
    LET r == Combined(ns, s, op, treg)
    IN  IF op \notin Compares THEN Mov(r, treg, r.reg)
        ELSE IF flagsOnly THEN r ELSE Out(r, "setcc", treg, op, 0)

-----------------------------------------------------------------------------
(* Array literals and indexing                                              *)
Comma(ns, s) == s.it <= Len(ns) /\ ns[s.it].tok = "comma"

RECURSIVE Elements(_, _, _, _, _)
Elements(ns, s, p, i, count) ==
    IF i = count THEN s
    ELSE IF IsSmallImm(ns, s)
    THEN Elements(ns, emit_store_imm32(Skip(s), p, SlotBytes * i, ns[s.it].val), p, i + 1, count)
    ELSE LET e == pick_scratch(s, p)
             q == Out(Value(ns, e, e.reg), "store", p, e.reg, SlotBytes * i)
         IN  Elements(ns, reg_free(q, e.reg), p, i + 1, count)

ArrayLiteral(ns, s, data, treg) ==
    IF ~ Comma(ns, s) THEN [s EXCEPT !.dead = TRUE]
    ELSE LET p == pick_saved(s, treg)
             q == Elements(ns, Skip(Out(p, "imm", p.reg, p.reg, data)), p.reg, 0, ns[s.it].val)
         IN  reg_free(Mov(q, treg, p.reg), p.reg)

Indexed(ns, s, treg) ==
    LET base == Value(ns, s, treg)
    IN  IF IsSmallImm(ns, base) /\ ns[base.it].val <= ImmMax \div SlotBytes
        THEN IF ns[base.it].val = 0 THEN Skip(base)
             ELSE Out(Skip(base), "addi", treg, treg, SlotBytes * ns[base.it].val)
        ELSE IF IsLeaf(ns, base)
        THEN LET p == pick_scratch(base, treg)
                 q == Leaf(Skip(p), ns[base.it], p.reg, "value")
             IN  reg_free(emit_lea_idx8(q, treg, treg, p.reg), p.reg)
        ELSE LET p == pick_saved(base, treg)
                 q == Value(ns, Mov(p, p.reg, treg), treg)
             IN  reg_free(emit_lea_idx8(q, treg, p.reg, treg), p.reg)

Index(ns, s, treg, mode) ==
    LET a == Indexed(ns, s, treg)
    IN  IF mode = "value" THEN Out(a, "load", treg, treg, 0) ELSE a

-----------------------------------------------------------------------------
(* Assignments: the destination first, then the value                       *)
AssignVar(ns, s, treg) ==
    LET v == Value(ns, Skip(s), treg)
    IN  IF treg = RAX THEN Out(v, "storeabs", RAX, RAX, ns[s.it].val)
        ELSE LET a == pick_scratch(v, treg)
                 q == Out(Out(a, "imm", a.reg, a.reg, ns[s.it].val), "store", a.reg, treg, 0)
             IN  reg_free(q, a.reg)

(* with the address of the destination in treg *)
AssignAt(ns, s, treg) ==
    IF IsLeaf(ns, s)
    THEN LET p == pick_scratch(s, treg)
             q == Leaf(Skip(p), ns[s.it], p.reg, "value")
         IN  reg_free(Mov(Out(q, "store", treg, p.reg, 0), treg, p.reg), p.reg)
    ELSE LET p == pick_saved(s, treg)
             q == Value(ns, Mov(p, p.reg, treg), treg)
         IN  reg_free(Out(q, "store", p.reg, treg, 0), p.reg)

Assign(ns, s, treg) ==
    IF s.it <= Len(ns) /\ ns[s.it].tok = "var" THEN AssignVar(ns, s, treg)
    ELSE AssignAt(ns, expect_single(Expr(ns, s, treg, "address")), treg)

AddAssign(ns, s, treg) ==
    LET a == expect_single(Expr(ns, s, treg, "address"))
    IN  IF IsLeaf(ns, a)
        THEN LET p == pick_scratch(a, treg)
                 q == Leaf(Skip(p), ns[a.it], p.reg, "value")
             IN  Out(reg_free(Out(q, "addm", treg, p.reg, 0), p.reg), "load", treg, treg, 0)
        ELSE LET p == pick_saved(a, treg)
                 q == Value(ns, Mov(p, p.reg, treg), treg)
                 r == Out(Out(q, "addm", p.reg, treg, 0), "load", treg, p.reg, 0)
             IN  reg_free(r, p.reg)

-----------------------------------------------------------------------------
(* Calls                                                                    *)
(* the place of each leaf among the arguments, 0 for one that is pushed     *)
RECURSIVE Arguments(_, _, _, _)
Arguments(ns, s, leaves, count) ==
    IF Len(leaves) = count THEN [s |-> s, leaves |-> leaves]
    ELSE IF IsLeaf(ns, s) THEN Arguments(ns, Skip(s), Append(leaves, s.it), count)
    ELSE Arguments(ns, Push(Value(ns, s, RAX), RAX), Append(leaves, 0), count)

(* mutant of Popped: the arguments come back in the order they were pushed *)
PoppedInOrder(s, leaves) ==
    FoldLeft(LAMBDA q, i : IF leaves[i] = 0 THEN Pop(q, ArgRegs[i]) ELSE q, s,
             [i \in DOMAIN leaves |-> i])

Popped(s, leaves) ==
    FoldLeft(LAMBDA q, i : IF leaves[i] = 0 THEN Pop(q, ArgRegs[i]) ELSE q, s,
             Reverse([i \in DOMAIN leaves |-> i]))

Loaded(ns, s, leaves) ==
    FoldLeft(LAMBDA q, i : IF leaves[i] = 0 THEN q
                           ELSE Leaf(q, ns[leaves[i]], ArgRegs[i], "value"),
             s, [i \in DOMAIN leaves |-> i])

(* mutant of Aligned: the stack is taken as it is *)
AlignedNever(s, count) == Out(s, "call", CALLEE_REG, RAX, count)

(* rsp is 16 byte aligned at the call *)
Aligned(s, count) ==
    IF s.depth % 2 = 0 THEN Out(s, "call", CALLEE_REG, RAX, count)
    ELSE Out(Out(Out(s, "sub8", RAX, RAX, 0), "call", CALLEE_REG, RAX, count), "add8", RAX, RAX, 0)

Call(ns, s, treg) ==
    LET leaf == IsLeaf(ns, s)
        f == IF leaf THEN Skip(s) ELSE Push(Value(ns, s, RAX), RAX)
    IN  IF ~ Comma(ns, f) \/ ns[f.it].val > Len(ArgRegs) THEN [f EXCEPT !.dead = TRUE]
        ELSE LET args == Arguments(ns, Skip(f), <<>>, ns[f.it].val)
                 q == Loaded(ns, Popped(args.s, args.leaves), args.leaves)
                 g == IF leaf THEN Leaf(q, ns[s.it], CALLEE_REG, "value") ELSE Pop(q, CALLEE_REG)
             IN  Mov(Aligned(g, ns[f.it].val), treg, RAX)

-----------------------------------------------------------------------------
(* Statements                                                               *)
(* one statement; the nodes of a block or list count as statements          *)
RECURSIVE Statements(_, _, _)
Statements(ns, s, count) ==
    IF count = 0 \/ s.dead THEN s
    ELSE LET q == Expr(ns, s, RAX, "address") IN Statements(ns, q, count - 1 + q.many)

Done(s) == [s EXCEPT !.many = 0]

JumpIfFalse(ns, s) ==
    IF s.it <= Len(ns) /\ ns[s.it].tok \in Compares
    THEN Out(gen_binary(ns, Skip(s), ns[s.it].tok, RAX, TRUE),
             "jcc", RAX, Negated(ns[s.it].tok), 0)
    ELSE Out(Out(Value(ns, s, RAX), "test", RAX, RAX, 0), "jcc", RAX, "eqeq", 0)

If(ns, s) == LET c == JumpIfFalse(ns, s)
                 q == Statements(ns, c, 1)
             IN  patch_rel(Done(q), Len(c.out), Here(q))

(* back to the condition, and out behind the jump back *)
While(ns, s) == LET c == JumpIfFalse(ns, s)
                    q == Out(Statements(ns, c, 1), "jmp", RAX, RAX, Here(s))
                IN  patch_rel(Done(q), Len(c.out), Here(q))

Return(ns, s) == LET v == Out(Value(ns, s, RAX), "jmp", RAX, RAX, 0)
                 IN  [v EXCEPT !.returns = Append(@, Len(v.out))]

Expr(ns, s0, treg, mode) ==
    IF s0.it > Len(ns) \/ s0.dead THEN [s0 EXCEPT !.dead = TRUE]
    ELSE LET n == ns[s0.it]
             s == [Skip(s0) EXCEPT !.many = 0]
         IN  CASE n.tok \in {"block", "comma"}      -> [s EXCEPT !.many = n.val]
               [] n.tok \in {"num", "str", "var"}   -> Leaf(s, n, treg, mode)
               [] n.tok = "array"                   -> ArrayLiteral(ns, s, n.val, treg)
               [] n.tok = "osb"                     -> Index(ns, s, treg, mode)
               [] n.tok = "eq"                      -> Assign(ns, s, treg)
               [] n.tok = "addeq"                   -> AddAssign(ns, s, treg)
               [] n.tok \in {"add", "sub", "mul"} \cup Compares
                                                    -> gen_binary(ns, s, n.tok, treg, FALSE)
               [] n.tok = "call"                    -> Call(ns, s, treg)
               [] n.tok = "if"                      -> If(ns, s)
               [] n.tok = "while"                   -> While(ns, s)
               [] n.tok = "return"                  -> Return(ns, s)
               [] OTHER                             -> [s EXCEPT !.dead = TRUE]

-----------------------------------------------------------------------------
(* codegen_func for a function without parameters                           *)
Prologue == FoldLeft(LAMBDA s, r : Out(s, "save", r, r, 0),
                     Out(Fresh, "enter", RAX, RAX, 0), Saved)

(* a save of a register that is not used becomes a NOP *)
Patched(s) ==
    [s EXCEPT !.out = [i \in DOMAIN @ |->
        IF @[i].op = "save" /\ @[i].a \notin s.cs_used
        THEN [@[i] EXCEPT !.op = "nop"] ELSE @[i]]]

(* The last return is dropped when it jumps to what follows it.  A branch   *)
(* to behind it then goes five bytes into the epilogue: a restore has four, *)
(* leave and ret have one, and 0 is not a place where an instruction begins.*)
Trimmed(s) ==
    IF s.returns = <<>> \/ s.returns[Len(s.returns)] # Len(s.out) THEN s
    ELSE LET astray == IF Cardinality(s.cs_used) = 1 THEN Len(s.out) + 2 ELSE 0
             Kept(c) == IF c.op = "jcc" /\ c.v = Here(s) THEN [c EXCEPT !.v = astray] ELSE c
         IN  [s EXCEPT !.out = [i \in 1 .. Len(@) - 1 |-> Kept(@[i])],
                       !.returns = Front(@)]

Epilogue(s) ==
    LET Patch(q, at) == patch_rel(q, at, Here(s))
        Restore(q, r) == IF r \in s.cs_used THEN Out(q, "restore", r, r, 0) ELSE q
        restored == FoldLeft(Restore, FoldLeft(Patch, s, s.returns), Saved)
    IN  Out(Out(restored, "leave", RAX, RAX, 0), "ret", RAX, RAX, 0)

codegen_func(ns) ==
    Epilogue(Trimmed(Patched(Statements(ns, Out(Prologue, "imm", RAX, RAX, 0), 1))))
=============================================================================
