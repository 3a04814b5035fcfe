----------------------------- MODULE MCEmulator -----------------------------
(* Tests for the emulator: two modules of which one imports a function of   *)
(* the other, a native function in its place, and calls of all functions.   *)
EXTENDS Emulator, WasmModules

ToValue == Func(<<>>, <<"I64">>)
ValueToValue == Func(<<"I64">>, <<"I64">>)

(* foo(x) = bar() + more(x), more(x) = x + 3 with x stored back.            *)
App ==
  Payloads(<<ToValue, ValueToValue>>, <<Import("b", "bar", 0)>>, <<1, 1>>,
           <<Export("foo", "Function", 1), Export("bar", "Function", 0)>>,
           <<Code(<<>>, <<Op("LocalGet", 0), Op("Call", 2), Op("Call", 0), Op("I64Add", 0), E>>),
             Code(<<>>, <<Op("LocalGet", 0), C(3), Op("I64Add", 0), Op("LocalSet", 0),
                          Op("LocalGet", 0), E>>)>>)

(* bar() = 7, which calls a function of which the optimiser leaves RET.     *)
Lib ==
  Payloads(<<ToValue, NothingToNothing>>, <<>>, <<0, 1>>, <<Export("bar", "Function", 0)>>,
           <<Code(<<>>, <<C(5), Op("Call", 1), Op("Nop", 0), C(2), Op("I64Add", 0), E>>),
             Code(<<>>, <<E>>)>>)

MCTestModules == {App, Lib}

(* The native function of the test external_call. *)
MCNativeCodes ==
  {[code  |-> <<Push("rbp"), MovReg("rbp", "rsp"), MovImm("rax", 42), Pop("rbp"), Ret>>,
    value |-> 42]}

MCArgValues == {Word - 2}

-----------------------------------------------------------------------------
(* Each of these is compiled to a function that returns something else:    *)
(* the first of two parameters, a difference of constants, and the first   *)
(* of two results of a called function.                                    *)
FirstParameter == One(Func(<<"I64", "I64">>, <<"I64">>), <<>>, <<Op("LocalGet", 0), E>>)
Difference == One(ToValue, <<>>, <<C(52), C(10), Op("I64Sub", 0), E>>)
FirstResult ==
  Payloads(<<ValueToValue, Func(<<>>, <<"I64", "I64">>)>>, <<>>, <<0, 1>>,
           <<Export("f", "Function", 0)>>,
           <<Code(<<>>, <<Op("Call", 1), Op("LocalSet", 0), E>>),
             Code(<<>>, <<C(52), C(10), E>>)>>)

OperandModules == {FirstParameter, Difference, FirstResult}

=============================================================================
