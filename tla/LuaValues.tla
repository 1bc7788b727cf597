----------------------------- MODULE LuaValues ------------------------------
(* The values of the programs the compiler and the virtual machine are       *)
(* checked with, and the arithmetic both do: the compiler computes what it   *)
(* can (constfolding in lcode.c), the machine the rest (lvm.c).              *)
EXTENDS Integers, Sequences, FiniteSets

(* Values: nil, booleans, numbers and strings are what a program can write   *)
(* down; a string is the sequence of the literals it is concatenated from.   *)
Nil == <<"nil">>
Bool(b) == <<"boolean", b>>
Num(n) == <<"number", n>>
Str(s) == <<"string", s>>

(* The numbers are the integers a program computes with and the quotient of  *)
(* something by zero; every other quotient is to come out even.              *)
Infinite == <<"infinite">>
IsNumber(v) == v[1] \in {"number", "infinite"}
RECURSIVE Power(_, _)
Power(x, n) == IF n = 0 THEN 1 ELSE x * Power(x, n - 1)
Calc(op, x, y) ==
    CASE Infinite \in {x, y} -> Infinite
      [] op = "ADD" -> Num(x[2] + y[2])
      [] op = "SUB" -> Num(x[2] - y[2])
      [] op = "MUL" -> Num(x[2] * y[2])
      [] op \in {"DIV", "MOD"} /\ y[2] = 0 -> Infinite
      [] op = "DIV" -> Num(x[2] \div y[2])
      [] op = "MOD" -> Num(x[2] % y[2])
      [] op = "POW" -> Num(Power(x[2], y[2]))
      [] op = "UNM" -> Num(-x[2])
=============================================================================
