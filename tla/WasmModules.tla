----------------------------- MODULE WasmModules -----------------------------
(* WebAssembly modules as the compiler reads them: payloads, operators and  *)
(* types, for the instances that are model-checked.                         *)
EXTENDS Sequences

Op(name, arg) == [name |-> name, arg |-> arg]
Func(params, returns) == [kind |-> "Func", params |-> params, returns |-> returns]

Of(kind, items) == [kind |-> kind, valid |-> TRUE, items |-> items]
Other == [kind |-> "Other", valid |-> TRUE]
EndPayload == [kind |-> "End", valid |-> TRUE]
Code(locals, body) == [kind |-> "Code", valid |-> TRUE, locals |-> locals, body |-> body]

Import(module, name, ty) ==
  [kind |-> "Function", module |-> module, name |-> name, ty |-> ty]
ImportedMemory == [kind |-> "Memory", module |-> "env", name |-> "a", ty |-> 0]
Export(name, kind, index) == [name |-> name, kind |-> kind, index |-> index]

(* The payloads of a module with these types, imports and functions. *)
Payloads(types, imports, functions, exports, codes) ==
  <<Other, Of("Type", types)>>
  \o (IF imports = <<>> THEN <<>> ELSE <<Of("Import", imports)>>)
  \o <<Of("Function", functions), Of("Memory", <<1>>), Of("Export", exports), Other>>
  \o codes \o <<EndPayload>>

C(n) == Op("I64Const", n)
E == Op("End", 0)

(* A module of one function, exported as f. *)
One(type, locals, body) ==
  Payloads(<<type>>, <<>>, <<0>>, <<Export("f", "Function", 0)>>, <<Code(locals, body)>>)

NothingToNothing == Func(<<>>, <<>>)

=============================================================================
