----------------------------- MODULE MCArchive -----------------------------
(* An instance of YgmArchive for TLC. *)
EXTENDS YgmArchive

\* A lambda of a ygm_ptr and a JSON value, one of a JSON value, one of nothing.
Params3 == << <<"ptr", "json">>, <<"json">>, <<>> >>

ab      == <<97, 98>>
Null    == Json(Kind.null, 0)
Atoms   == {Null, Json(Kind.bool, 1), Json(Kind.int64, 2), Json(Kind.uint64, 3),
            Json(Kind.double, 4), Json(Kind.string, <<>>), Json(Kind.string, ab)}
Arrays  == {Json(Kind.array, x) : x \in {<<>>} \cup {<<v>> : v \in Atoms}
                                        \cup {<<v, Null>> : v \in Atoms}}
Objects == {Json(Kind.object, x) : x \in {<<>>} \cup {<< <<k, v>> >> : k \in {<<>>, ab}, v \in Atoms}
                                         \cup {<< <<ab, v>>, <<<<>>, Null>> >> : v \in Atoms}}
Flat    == Atoms \cup Arrays \cup Objects
Nested  == {Json(Kind.array, <<v, Null>>) : v \in Flat}
           \cup {Json(Kind.object, << <<ab, v>> >>) : v \in Flat}

Args3   == << {<<1, v>> : v \in Flat \cup Nested}, {<<v>> : v \in Atoms}, {<<>>} >>
=============================================================================
