---------------------------- MODULE MCRoutePlan ----------------------------
(* Eight addresses, two overlapping force lists, three networks for the two  *)
(* links and four CIDR files.                                                *)
EXTENDS RoutePlan

P(addr, bits) == [addr |-> addr, bits |-> bits]

\* A network of two addresses, one of one address, and all addresses.
MCNetworks == {P(0, 2), P(6, 3), P(0, 0)}
\* One half, typed with a bit behind the prefix; neighbours and a network inside
\* the other half; entries that cover one another and a network; all addresses.
MCImports == {{P(5, 1)},
              {P(2, 3), P(3, 3), P(4, 2)},
              {P(0, 1), P(1, 3), P(7, 2)},
              {P(0, 0), P(0, 2)}}
=============================================================================
