----------------------------- MODULE MCLuaTable -----------------------------
(* Eight programs, each with the keys its hazards need; the hashes of the        *)
(* numbers are those of their IEEE doubles.                                    *)
EXTENDS LuaTable
CONSTANTS a, b, c, index, newindex, x, y

MCNumHash == <<1072693248, 1073741824, 1074266112, 1074790400, 1075052544, 1075314688,
               1075576832, 1075838976, 1075970048, 1076101120>>
MCStrHash == [s \in {a, b, c, index, newindex} |->
                CASE s = a -> 1 [] s = b -> 5 [] s = c -> 2 [] s = index -> 3 [] OTHER -> 7]

MCPrograms == {[keys |-> 1..5, vals |-> {x}, ops |-> {"assign"}],
               [keys |-> {a, b, c, 1}, vals |-> {x}, ops |-> {"assign"}],
               [keys |-> {a, b, 1}, vals |-> {x}, ops |-> {"assign", "walk"}],
               [keys |-> {1, 2, 3}, vals |-> {x}, ops |-> {"assign", "walk"}],
               [keys |-> {index, newindex, a}, vals |-> {x}, ops |-> {"meta"}],
               [keys |-> 1..3, vals |-> {x, y}, ops |-> {"list"}],
               [keys |-> 1..3, vals |-> {x, y}, ops |-> {"refs"}],
               [keys |-> {1, 2, 3, a}, vals |-> {x}, ops |-> {"assign", "no memory"}]}
============================================================================
