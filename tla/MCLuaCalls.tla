----------------------------- MODULE MCLuaCalls -----------------------------
(* Seven programs, each of which combines a few of the things that nest. *)
EXTENDS LuaCalls, TLC
CONSTANTS M, co1, co2
MCPrograms == {{"pcall", "xpcall", "metamethod"},
               {"pcall", "closure", "tail call"},
               {"xpcall", "hook"},
               {"load", "pcall", "print"},
               {"wrap", "pcall"},
               {"resume", "yield", "metamethod"},
               {"wrap", "yield", "sort"}}
TwoCoroutines == Permutations({co1, co2})
============================================================================
