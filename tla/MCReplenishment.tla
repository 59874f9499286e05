-------------------------- MODULE MCReplenishment --------------------------
EXTENDS Replenishment

CONSTANTS l1, l2, r1, s1, s2

MCProcs   == {l1, l2, r1}
MCLoaders == {l1, l2}

\* Month 1 lies before the dead-SKU window, month 3 is the first TEST month.
\* s1 still sells; s2 has not sold since month 1.  A chunk of two rows ends
\* in the middle of either SKU.
Row(s, m, y, stock) == [sku |-> s, ds |-> m, y |-> y, stock |-> stock]
MCPanelFile == << Row(s1, 1, 0, 8), Row(s1, 2, 3, 4), Row(s1, 3, 1, 9),
                  Row(s2, 1, 2, 4), Row(s2, 2, 0, 4), Row(s2, 3, 0, 4) >>

MCStalePanel == [k \in {s1, s2} \X (1 .. 3) |-> [y |-> 0, stock |-> 12]]

Policy(t, h, q, moq, lot, override) ==
    [t_check |-> t, h_cover |-> h, q_target |-> q, moq |-> moq,
     lot_size |-> lot, override |-> override]
\* The file's months are in quarters: t_check 1 and a quarter, h_cover 3 and 7;
\* the stale rows are in months.  The policies are closed under the cast.
MCConfigFile == << [sku |-> s1, params |-> Policy(4, 12, 2, 12, 8, NoStock)],
                   [sku |-> s2, params |-> Policy(1, 28, 4, 0, 0, 0)] >>
MCStaleConfig == [s \in {s1, s2} |-> Policy(1, 2, 2, 0, 4, 40)]
MCPolicies == {[p EXCEPT !.t_check = t, !.h_cover = h] :
                 p \in {MCConfigFile[1].params, MCConfigFile[2].params, MCStaleConfig[s1]},
                 t \in {0, 1, 4}, h \in {0, 1, 2, 3, 7, 12, 28}}

\* Seven months, two draws; the demand sets in in month 1, 2 or 7.
From(m0, a, b) == [m \in 1 .. 7 |-> IF m >= m0 THEN <<a, b>> ELSE <<0, 0>>]
MCDemands == {From(1, -4, 12), From(2, 4, 8), From(7, 4, 20)}
MCFactors == {2, 4, 12}
MCBadRows == {0, 4}
=============================================================================
