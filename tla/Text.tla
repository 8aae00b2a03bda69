-------------------------------- MODULE Text --------------------------------
(***************************************************************************)
(* The text between disasm and asm: print_statement                        *)
(* (src/decoder/formatter.c) makes a line of a statement, and the parser   *)
(* and the resolver make a statement of the line again.  Lines are         *)
(* labelled with their numbers; a condition's operand may be a name.       *)
(***************************************************************************)
EXTENDS Integers

CONSTANTS
    scmp_arch,              \* the arch both commands are given
    SysNrs,                 \* the numbers that are system calls, on every arch
    SysName,                \* external: the name of each number, for each arch
    None

NoLabel == 0

\* External: libseccomp's tables.  A name may have another number on another
\* arch.
resolve_num_arch(arch, nr)    == SysName[arch][nr]
resolve_name_arch(arch, name) == CHOOSE nr \in SysNrs : resolve_num_arch(arch, nr) = name

\* Mutant of Literal: the arch is never put before the name.
LiteralNoPrefix(arch, nr) ==
    [kind |-> "syscall", name |-> resolve_num_arch(arch, nr), prefix |-> None]

\* try_resolve_sysnr's literal: the arch stands before the name unless it is
\* the default one.
Literal(arch, nr) ==
    [kind |-> "syscall", name |-> resolve_num_arch(arch, nr),
     prefix |-> IF arch = scmp_arch THEN None ELSE arch]

print_label(distance, pc) == pc + distance + 1

\* obj_print: the token of an object, and a number with it for some.
WithNumber == {"NUMBER", "MEM", "ATTR_LOWARG", "ATTR_HIGHARG", "TRACE", "TRAP", "ERRNO"}
obj_printer(obj) ==
    [token |-> obj.type, number |-> IF obj.type \in WithNumber THEN obj.data ELSE None]

\* The operand of a condition; name is what render put for it, or None.
print_cmpobj(obj, name) ==
    CASE name = None                         -> obj_printer(obj)
      [] name # None /\ name.kind = "arch"   -> [token |-> "ARCH", literal |-> name]
      [] OTHER                               -> [token |-> "IDENTIFIER", literal |-> Literal(name.arch, obj.data)]

print_statement(s, pc, name) ==
    CASE s.type = "ASSIGN_LINE" -> [s EXCEPT !.left = obj_printer(@), !.right = obj_printer(@)]
      [] s.type = "RETURN_LINE" -> [s EXCEPT !.obj = obj_printer(@)]
      [] s.type = "JUMP_LINE"   ->
            [s EXCEPT !.jt  = print_label(s.jt, pc),
                      !.jf  = IF ~s.cond \/ s.jf = 0 THEN NoLabel ELSE print_label(s.jf, pc),
                      !.obj = print_cmpobj(s.obj, name)]

\* left, right and return_line of the parser: an object without a number has
\* data 0.
read_obj(t) == [type |-> t.token, data |-> IF t.number = None THEN 0 ELSE t.number]

\* compare_obj: a name is a number again.
compare_obj(t) ==
    CASE t.token = "ARCH"       -> [type |-> "NUMBER", data |-> t.literal.arch]
      [] t.token = "IDENTIFIER" ->
            [type |-> "NUMBER",
             data |-> resolve_name_arch(IF t.literal.prefix = None THEN scmp_arch ELSE t.literal.prefix,
                                        t.literal.name)]
      [] OTHER                  -> read_obj(t)

\* set_jt_jf; without an else the jump goes to the next line.
set_jt_jf(label, pc) == IF label = NoLabel THEN 0 ELSE label - pc - 1

read_statement(line, pc) ==
    CASE line.type = "ASSIGN_LINE" -> [line EXCEPT !.left = read_obj(@), !.right = read_obj(@)]
      [] line.type = "RETURN_LINE" -> [line EXCEPT !.obj = read_obj(@)]
      [] line.type = "JUMP_LINE"   ->
            [line EXCEPT !.jt = set_jt_jf(line.jt, pc), !.jf = set_jt_jf(line.jf, pc),
                         !.obj = compare_obj(line.obj)]
=============================================================================
