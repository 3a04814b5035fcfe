----------------------------- MODULE MCCompiler -----------------------------
(* The modules that the compiler is checked with: all combinations of a few *)
(* types, imports, functions and bodies.                                   *)
EXTENDS Compiler, WasmModules

(* Type 0 is () -> (), type 1 is (i64) -> (i64), type 2 is () -> (i64 i64). *)
Types == <<Func(<<>>, <<>>), Func(<<"I64">>, <<"I64">>), Func(<<>>, <<"I64", "I64">>)>>

(* Bodies, one or two for each type: with calls of every other function,   *)
(* arguments from constants and from the parameter, and empty ones, of     *)
(* which the optimiser leaves only RET.                                    *)
CallThen(f, types) ==
  CASE types[f] = 0 -> <<Op("Call", f)>>
    [] types[f] = 1 -> <<C(5), C(6), Op("I64Sub", 0), Op("Call", f), Op("LocalSet", 0)>>
    [] types[f] = 2 -> <<Op("Call", f), Op("I64Add", 0), Op("LocalSet", 0)>>

Results(t) ==
  CASE t = 0 -> {<<E>>, <<Op("Nop", 0), E>>}
    [] t = 1 -> {<<Op("LocalGet", 0), C(1), C(2), Op("I64Sub", 0), Op("I64Add", 0), E>>,
                  <<Op("LocalGet", 0), E>>}
    [] t = 2 -> {<<C(3), C(4), E>>}

Bodies(t, types) ==
  Results(t) \cup
  {CallThen(f, types) \o body :
     f \in {g \in DOMAIN types : types[g] = 0 \/ t = 1}, body \in Results(t)}

ImportLists ==
  {<<>>, <<Import("env", "a", 0)>>, <<ImportedMemory, Import("env", NoName, 0)>>,
   <<Import("env", "a", 0), Import("env", "b", 1)>>}

FunctionTypes(imports) == SelectSeq(imports, LAMBDA i : i.kind = "Function")

(* Every index that is also that of a type has that type: the compiler     *)
(* looks types up twice, and with these it finds the declared one.         *)
Lookups(types) == \A f \in DOMAIN types : f \in 0 .. 2 => types[f] = f

TypeOf(imports, functions) ==
  LET tys == [i \in DOMAIN FunctionTypes(imports) |-> FunctionTypes(imports)[i].ty] \o functions
  IN [f \in 0 .. Len(tys) - 1 |-> tys[f + 1]]

ValidModules ==
  UNION {UNION {
    LET types == TypeOf(imports, functions)
        first == Len(FunctionTypes(imports))
    IN IF ~Lookups(types) THEN {}
       ELSE {Payloads(Types, imports, functions,
                      <<Export("f", "Function", first), Export("g", "Function", 0)>>,
                      [k \in DOMAIN functions |-> Code(<<>>, bodies[k])]) :
               bodies \in {b \in [DOMAIN functions -> UNION {Bodies(t, types) : t \in 0 .. 2}] :
                             \A k \in DOMAIN functions : b[k] \in Bodies(functions[k], types)}}
    : functions \in UNION {[1 .. n -> 0 .. 2] : n \in 1 .. MaxFunctions - Len(FunctionTypes(imports))}}
    : imports \in ImportLists}

ModuleType == [kind |-> "Module"]
Unreadable == [Code(<<>>, <<E>>) EXCEPT !.valid = FALSE]

(* Modules that do not compile: rejected by the validator, not supported,  *)
(* or cut off.                                                             *)
RejectedModules ==
  {One(NothingToNothing, <<>>, body) :
     body \in {<<C(1), E>>, <<Op("I64Add", 0), E>>, <<Op("LocalGet", 0), E>>,
               <<C(1), Op("LocalSet", 0), E>>, <<Op("Call", 1), E>>, <<>>, <<Op("Nop", 0)>>,
               <<E, E>>, <<E, Op("Vector", 0), E>>, <<Op("Invalid", 0), E>>}}
  \cup {One(Func(<<"I32">>, <<"I64">>), <<>>, <<Op("LocalGet", 0), E>>),
        Payloads(<<NothingToNothing>>, <<>>, <<0, 0>>, <<>>, <<Code(<<>>, <<E>>)>>),
        Payloads(<<NothingToNothing>>, <<>>, <<>>, <<>>, <<Code(<<>>, <<E>>)>>),
        Payloads(<<NothingToNothing>>, <<Import("env", "a", 0)>>, <<0, 0, 0>>, <<>>, <<>>),
        Payloads(<<NothingToNothing>>, <<>>, <<1>>, <<>>, <<Code(<<>>, <<E>>)>>),
        Payloads(<<NothingToNothing>>, <<Import("env", "a", 1)>>, <<>>, <<>>, <<>>),
        Payloads(<<ModuleType, NothingToNothing>>, <<>>, <<0>>, <<>>, <<Code(<<>>, <<E>>)>>),
        Payloads(<<NothingToNothing>>, <<>>, <<0>>, <<>>, <<Unreadable>>),
        <<Other, [kind |-> "Other", valid |-> FALSE], EndPayload>>}

UnsupportedModules ==
  {One(NothingToNothing, <<>>, <<Op(name, 0), E>>) : name \in Unsupported}
  \cup {One(type, <<>>, <<E>>) :
          type \in {Func(<<"F64">>, <<>>), Func(<<"FuncRef">>, <<>>),
                    Func([i \in 1 .. 7 |-> "I64"], <<>>)}}
  \cup {One(NothingToNothing, <<[count |-> 1, ty |-> "FuncRef"]>>, <<E>>),
        Payloads(<<Func(<<>>, <<"F64">>)>>, <<Import("env", "a", 0)>>, <<0>>, <<>>,
                 <<Code(<<>>, <<Op("Call", 0), E>>)>>)}

I32Modules ==
  {One(Func(<<"I32">>, <<"I32">>), <<>>,
       <<Op("LocalGet", 0), Op("LocalGet", 0), Op(name, 0), E>>) : name \in {"I32Add", "I32Sub"}}

(* The type of a module takes no index in function_typedefs: behind the    *)
(* types of functions, and in front of two that are the same.              *)
OtherTypeModules ==
  {Payloads(<<NothingToNothing, ModuleType>>, <<>>, <<0>>, <<>>, <<Code(<<>>, <<E>>)>>),
   Payloads(<<ModuleType, Func(<<"I64">>, <<>>), Func(<<"I64">>, <<>>)>>, <<>>, <<1, 1>>, <<>>,
            <<Code(<<>>, <<Op("LocalGet", 0), Op("Call", 1), E>>), Code(<<>>, <<E>>)>>)}

(* Modules of which compile panics for the type that it looks up: there is *)
(* none, for the function, for one of which the body cannot be read and    *)
(* for a called one; and one without the parameter of the declared type.   *)
MisnumberedModules ==
  {Payloads(<<NothingToNothing, NothingToNothing>>, <<>>, <<1>>, <<>>, <<body>>) :
     body \in {Code(<<>>, <<E>>), Unreadable}}
  \cup {Payloads([i \in 1 .. 3 |-> NothingToNothing], <<>>, <<0, 2>>, <<>>,
                 <<Code(<<>>, <<Op("Call", 1), E>>), Code(<<>>, <<E>>)>>),
        Payloads(<<ModuleType, Func(<<"I64">>, <<>>), NothingToNothing>>, <<>>, <<1, 1>>, <<>>,
                 <<Code(<<>>, <<Op("LocalGet", 0), Op("LocalSet", 0), E>>), Code(<<>>, <<E>>)>>)}

(* Two to six parameters: a function that moves one of them to another,    *)
(* and one that is called with them.                                       *)
Params(n) == [i \in 1 .. n |-> "I64"]

ParameterModules ==
  UNION {{One(Func(Params(n), <<"I64">>), <<>>,
              <<Op("LocalGet", i), Op("LocalSet", n - 1 - i), Op("LocalGet", i), E>>) :
            i \in 0 .. n - 1}
         \cup {Payloads(<<NothingToNothing, Func(Params(n), <<>>)>>, <<>>, <<0, 1>>, <<>>,
                        <<Code(<<>>, [i \in 1 .. n |-> C(i)] \o <<Op("Call", 1), E>>),
                          Code(<<>>, <<E>>)>>)}
         : n \in 2 .. 6}

(* Locals that are declared: as many as the validator allows, one more,    *)
(* more than a u32 counts the bytes of, and a type that has no size behind *)
(* and in front of too many.                                               *)
Run(n, type) == [count |-> n, ty |-> type]

LocalsModules ==
  {One(NothingToNothing, locals, <<E>>) :
     locals \in {<<Run(MaxLocals, "V128")>>, <<Run(MaxLocals, "F64"), Run(0, "I64")>>,
                 <<Run(MaxLocals, "I32"), Run(1, "I64")>>, <<Run(MaxLocals + 1, "V128")>>,
                 <<Run((U32End \div 16) - 1, "V128")>>, <<Run(U32End \div 16, "V128")>>,
                 <<Run(MaxLocals + 1, "I64"), Run(1, "FuncRef")>>,
                 <<Run(1, "FuncRef"), Run(MaxLocals + 1, "I64")>>}}

CutOffModules == {<<>>, <<Other>>, SubSeq(One(NothingToNothing, <<>>, <<E>>), 1, 4)}

MCLinkNames ==
  {[module |-> "env", name |-> "a"], [module |-> "env", name |-> "b"],
   [module |-> "env", name |-> NoName], [module |-> "other", name |-> "a"]}

(* Two imports, one of them perhaps without a name or of a memory, and a   *)
(* function that calls both.                                               *)
LinkingModules ==
  {Payloads(<<NothingToNothing>>, imports, <<0>>, <<>>,
            <<Code(<<>>, <<Op("Call", 0), Op("Call", 1), E>>)>>) :
     imports \in {<<Import("env", "a", 0), Import("env", "b", 0)>>,
                  <<Import("env", "b", 0), Import("other", "a", 0)>>,
                  <<Import("env", NoName, 0), Import("env", "a", 0)>>,
                  <<ImportedMemory, Import("env", "a", 0), Import("env", NoName, 0)>>,
                  <<Import("env", "a", 0), ImportedMemory, Import("other", "a", 0)>>,
                  <<Import("env", "a", 0), Import("env", "a", 0)>>}}

MCModules ==
  ValidModules \cup RejectedModules \cup UnsupportedModules \cup I32Modules
  \cup OtherTypeModules \cup MisnumberedModules \cup ParameterModules \cup LocalsModules
  \cup CutOffModules \cup LinkingModules

-----------------------------------------------------------------------------
(* Two functions, of which the first has the second type. *)
TypesSwapped ==
  {Payloads(<<NothingToNothing, Func(<<>>, <<"I64">>)>>, <<>>, <<1>>, <<>>,
            <<Code(<<>>, <<C(1), E>>)>>),
   Payloads(<<NothingToNothing, Func(<<>>, <<"I64">>)>>, <<>>, <<1, 0>>, <<>>,
            <<Code(<<>>, <<C(1), E>>), Code(<<>>, <<E>>)>>)}

(* Two declared locals, as in the test locals_basic. *)
DeclaredLocalsModules ==
  {One(Func(<<>>, <<"I64">>), <<[count |-> 1, ty |-> "I64"], [count |-> 1, ty |-> "I64"]>>,
       <<C(1), Op("LocalSet", 0), C(2), Op("LocalSet", 1),
         Op("LocalGet", 0), Op("LocalGet", 1), Op("I64Add", 0), E>>)}

=============================================================================
