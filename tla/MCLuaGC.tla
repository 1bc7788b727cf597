------------------------------ MODULE MCLuaGC ------------------------------
(* Eight programs of two to four objects, each about one kind of reference:  *)
(* a behaviour runs one of them.                                             *)
EXTENDS LuaGC

CONSTANTS G, t1, mk, mv, mg, s1, s2, s3, u1, u2, c1, c2, v1, M, co, nil

MCTables == {G, t1, mk, mv, mg}
MCStrings == {s1, s2, s3}
MCUdata == {u1, u2}
MCClosures == {c1, c2}
MCUpvals == {v1}
MCThreads == {M, co}
\* Metatables: mk with __mode = "k", mv with __mode = "v", mg with a __gc.
MCModeOf == [t \in MCTables |-> CASE t = mk -> {"k"} [] t = mv -> {"v"} [] OTHER -> {}]
MCHasGC == {mg}
MCHashOf == [s \in MCStrings |-> CASE s = s1 -> 1 [] s = s2 -> 2 [] OTHER -> 3]

WeakValues == [objs |-> {t1, mv, s1}, metas |-> {<<t1, mv>>}, vals |-> {},
               puts |-> {<<G, nil, t1>>, <<t1, nil, s1>>, <<t1, nil, mv>>}]
Ephemeral == [objs |-> {mk, t1, u1}, metas |-> {<<t1, mk>>}, vals |-> {},
              puts |-> {<<t1, u1, mk>>, <<G, nil, t1>>}]
Finalizers == [objs |-> {u1, mg}, metas |-> {<<u1, mg>>}, vals |-> {},
               puts |-> {<<G, nil, u1>>, <<mg, nil, u1>>}]
Pending == [objs |-> {u1, u2, mg}, metas |-> {<<u1, mg>>, <<u2, mg>>}, vals |-> {},
            puts |-> {}]
Coroutine == [objs |-> {co, c1, v1, s1}, metas |-> {}, vals |-> {s1}, puts |-> {}]
SharedUpvalue == [objs |-> {c1, c2, v1, s1}, metas |-> {}, vals |-> {s1},
                  puts |-> {<<G, nil, c1>>}]
BasicTypes == [objs |-> {t1, s1}, metas |-> {<<G, t1>>}, vals |-> {}, puts |-> {<<t1, nil, s1>>}]
ManyStrings == [objs |-> {s1, s2, s3}, metas |-> {}, vals |-> {}, puts |-> {}]

MCPrograms == {WeakValues, Ephemeral, Finalizers, Pending, Coroutine, SharedUpvalue,
               BasicTypes, ManyStrings}
============================================================================
