--------------------------- MODULE MCCertificates ---------------------------
(* Two questions, one of which may be left out, with a field in common; five *)
(* sheets, two of which fit; and four certificates, two of them namesakes,   *)
(* with a keyword in the columns where the weights are closest.              *)
EXTENDS Certificates

CONSTANTS q1, q2, q3, f1, f2, k1, k2

MCOption == {<<q1, "a">>, <<q1, "b">>, <<q2, "a">>, <<q2, "b">>, <<q2, "c">>}

MCFieldOf ==
  (<<q1, "a">> :> f1) @@ (<<q1, "b">> :> f2) @@
  (<<q2, "a">> :> f1) @@ (<<q2, "b">> :> Null) @@ (<<q2, "c">> :> Null)

MCMinSelect == q1 :> 1 @@ q2 :> 0
MCMaxSelect == q1 :> 1 @@ q2 :> Null

To(q, values) == [question |-> q, values |-> values]

MCSheet ==
  { <<To(q1, {"a"}), To(q2, {"a", "b", "c"})>>, <<To(q1, {"b"})>>,
    <<To(q2, {"a"})>>, <<To(q1, {"a", "b"})>>, <<To(q1, {"a"}), To(q1, {"b"})>>,
    <<To(q1, {"c"})>>, <<To(q1, {"a"}), To(q3, {"a"})>> }

Item(c) == [code |-> c, fit |-> TRUE]
Unfit(c) == [code |-> c, fit |-> FALSE]

MCAiAnswer ==
  { <<Item(2), Item(9), Item(2), Item(1)>>, <<Unfit(1), Item(3)>>, <<Item(9)>> }

MCNameOrder == <<2, 1, 1, 3>>

In(name, fld, hist, job, summary, career) ==
  [jm_nm |-> name, mdoblig_fld_nm |-> fld, hist |-> hist, job |-> job,
   summary |-> summary, career |-> career]

\* The first two differ by the name against all the rest, and by a field against
\* all that comes after it; the last has no details.
MCText ==
  << In({k1}, {k2}, {}, {}, {}, {}),
     In({}, {k1}, {k1, k2}, {k1, k2}, {k1, k2}, {k1, k2}),
     In({}, {}, {k1}, {}, {}, {}),
     In({k1, k2}, {}, {}, {}, {}, {}) >>

MCNamed == k1 :> {1} @@ k2 :> {4}
MCCoded == k1 :> {3} @@ k2 :> {}

MCSort ==
  { << >>, <<"name">>, <<"name", "desc">>, <<"jmCd", "desc">>, <<"rate">>,
    <<"name", "up">>, <<"name", "asc", "jmCd">> }
=============================================================================
