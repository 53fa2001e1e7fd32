------------------------------ MODULE MCSearch ------------------------------
EXTENDS Search, TLC

T(from, to, body) == [from |-> from, to |-> to, body |-> body]

\* In "a" a type around its method, then three windows in a chain; in "b" a copy
\* of the method.
Old == {T(1, 6, "type"), T(2, 4, "method")}
New == {T(1, 3, "one"), T(2, 5, "two"), T(4, 6, "three")}
Copy == {T(1, 3, "copy")}

MCVersions == "a" :> {Old, New} @@ "b" :> {Copy}
MCIdOrder  == << <<"a", 1, 3>>, <<"a", 1, 6>>, <<"a", 2, 4>>, <<"a", 2, 5>>, <<"a", 4, 6>>,
                 <<"b", 1, 3>> >>
MCBodies   == {"type", "method", "one", "two", "three", "copy"}
MCAlike    == {<<b, b>> : b \in MCBodies} \cup {<<"copy", "method">>, <<"method", "copy">>}
MCCosine   == [p \in MCBodies \X MCBodies |->
                 IF p[1] = p[2] THEN 4 ELSE IF p \in MCAlike THEN 3 ELSE 1]

Plain == [k |-> 2, bm25_weight |-> NoWeight, vector_weight |-> NoWeight, adaptive |-> FALSE,
          query |-> "word", boost |-> FALSE, diversify |-> FALSE]

MCVersionsBoosting == {Old}

MCRequests ==
  {Plain,
   [Plain EXCEPT !.boost = TRUE, !.query = "words", !.adaptive = TRUE],
   [Plain EXCEPT !.diversify = TRUE, !.query = "identifier", !.adaptive = TRUE],
   [Plain EXCEPT !.bm25_weight = NotFinite, !.vector_weight = 0 - 1],
   [Plain EXCEPT !.k = 3, !.query = "blank"],
   [Plain EXCEPT !.bm25_weight = 2, !.vector_weight = 0, !.boost = TRUE, !.diversify = TRUE]}
=============================================================================
