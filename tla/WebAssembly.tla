----------------------------- MODULE WebAssembly -----------------------------
(***************************************************************************)
(* What WebAssembly says a function computes, for the operators that the   *)
(* compiler supports: the reference that compiled code is compared with.   *)
(* It follows the declared types and the bodies and knows nothing of       *)
(* registers or frames.                                                    *)
(*                                                                         *)
(* A module is what an emulator was given, Emulator!modules[k]: its input, *)
(* the tables of its compilation and the addresses of its imports.         *)
(* natives are the functions that are not WebAssembly: the value that each *)
(* of them returns, by address.                                            *)
(***************************************************************************)
EXTENDS Machine, FiniteSets, SequencesExt

Trap == [status |-> "trap", values |-> <<>>]
Returned(values) == [status |-> "ok", values |-> values]

Body(m, f) ==
  SelectSeq(m.input, LAMBDA p : p.kind = "Code")[f + 1 - Cardinality(DOMAIN m.module.imports)]

FirstOf(stack, n) == SubSeq(stack, 1, Len(stack) - n)
LastOf(stack, n) == SubSeq(stack, Len(stack) - n + 1, Len(stack))

RECURSIVE Invoke(_, _, _, _, _)

(* The functions that have code, and the address that a caller knows them  *)
(* by: <<k, f>> is function f of module k.                                 *)
DefinedFunctions(modules) ==
  UNION {{k} \X DOMAIN modules[k].module.entries : k \in DOMAIN modules}

AddressOf(modules, t) == modules[t[1]].offset + modules[t[1]].module.entries[t[2]]

CallImport(modules, natives, m, f, args) ==
  LET name    == [module |-> m.module.imports[f].module, name |-> m.module.imports[f].name]
      address == m.linked[name]
  IN IF name \notin DOMAIN m.linked THEN Trap
     ELSE IF address \in DOMAIN natives THEN Returned(<<natives[address]>>)
     ELSE LET t == CHOOSE t \in DefinedFunctions(modules) : AddressOf(modules, t) = address
          IN Invoke(modules, natives, t[1], t[2], args)

Operator(modules, natives, k, s, op) ==
  LET x == s.stack[Len(s.stack) - 1]
      y == Last(s.stack)
      n == Len(DeclaredType(modules[k].module, op.arg).params)
      called == Invoke(modules, natives, k, op.arg, LastOf(s.stack, n))
  IN CASE s.status # "ok" -> s
       [] op.name = "I64Const" -> [s EXCEPT !.stack = Append(@, op.arg % Word)]
       [] op.name = "I64Add" -> [s EXCEPT !.stack = Append(FirstOf(@, 2), (x + y) % Word)]
       [] op.name = "I64Sub" -> [s EXCEPT !.stack = Append(FirstOf(@, 2), (x - y) % Word)]
       [] op.name = "LocalGet" -> [s EXCEPT !.stack = Append(@, s.locals[op.arg + 1])]
       [] op.name = "LocalSet" ->
            [s EXCEPT !.locals[op.arg + 1] = y, !.stack = FirstOf(@, 1)]
       [] op.name = "Call" ->
            [s EXCEPT !.status = called.status, !.stack = FirstOf(@, n) \o called.values]
       [] op.name \in {"Nop", "End"} -> s

(* Locals start with 0.  The call graph of the modules has no cycle. *)
Invoke(modules, natives, k, f, args) ==
  LET m == modules[k]
      zeros == [i \in DOMAIN DeclaredLocals(Body(m, f).locals) |-> 0]
      final == FoldOnce(LAMBDA s, op : Operator(modules, natives, k, s, op),
                        [status |-> "ok", locals |-> args \o zeros, stack |-> <<>>],
                        Body(m, f).body)
  IN IF f \in DOMAIN m.module.imports THEN CallImport(modules, natives, m, f, args)
     ELSE IF final.status = "ok" THEN Returned(final.stack) ELSE Trap

=============================================================================
