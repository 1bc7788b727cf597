--------------------------- MODULE MCLuaLibrary ----------------------------
(* A call of the library: of MCLuaStrings, or a sort of up to seven elements *)
(* with every order of three ranks, or with any function for a comparison.   *)
EXTENDS MCLuaStrings, LuaSort

Order1(kind, n, rank) == [kind |-> kind, n |-> n, rank |-> rank]
AllOrders == UNION {{Order1(kind, n, rank) : kind \in {"less", "lessequal"}, rank \in [1..n -> 1..3]} : n \in 1..6}
             \cup {Order1("less", 7, rank) : rank \in [1..7 -> 1..2]}
             \cup {Order1("any", n, <<>>) : n \in 1..5}

LibraryInit == \/ StringsInit /\ SortIdle
               \/ StringsIdle /\ SortInit
LibraryEnds == /\ status \in {"returned", "raised"} \/ asks \in {"sorted", "raised"}
               /\ UNCHANGED <<stringVars, sortVars>>
LibraryNext == \/ StringsNext /\ UNCHANGED sortVars
               \/ SortNext /\ UNCHANGED stringVars
               \/ LibraryEnds
(* What the library takes of the stack it never asked for: a buffer keeps    *)
(* fewer pieces than it may, and sort few calls of itself, whatever texts    *)
(* are added and whatever the comparison answers.                            *)
StackFits == BuffersFit /\ FewCallers

LibrarySpec == LibraryInit /\ [][LibraryNext]_<<stringVars, sortVars>>
=============================================================================
