---------------------------- MODULE MCDescriptors ----------------------------
(***************************************************************************)
(* Setups of up to two stakeholders, three managers and two cosigning servers, *)
(* keys in two roles and every flag of the timelock included.                *)
(***************************************************************************)
EXTENDS Descriptors

CONSTANTS s1, s2, m1, m2, m3, c1, c2, x1

MCKeys == {s1, s2, m1, m2, m3, c1, c2, x1}
\* A key of each kind: three managers have a hardened wildcard among them.
MCKind == [k \in Keys |-> CASE k = x1 -> "xpub"
                            [] k = c1 -> "single"
                            [] k = m3 -> "hardened"
                            [] OTHER -> "wildcard"]

Blocks(n) == [disabled |-> FALSE, time |-> FALSE, high |-> FALSE, value |-> n]
Csvs == {Blocks(0), Blocks(1), Blocks(2), [Blocks(1) EXCEPT !.disabled = TRUE],
         [Blocks(2) EXCEPT !.time = TRUE], [Blocks(1) EXCEPT !.high = TRUE]}

SetupsOf(stakeholders, managers, cosigners, csvs) ==
  [stakeholders : stakeholders, managers : managers, threshold : 0..3,
   cosigners : cosigners, csv : csvs]

\* Every check of the constructors on its two sides.
AllSetups ==
  SetupsOf({{}, {s1}, {s1, s2}, {s1, x1}}, {{}, {m1}, {m1, m2}, {m1, m2, m3}},
           {{}, {c1}, {x1}, {c1, c2}, {m1, c1}}, Csvs)

MCAges == [blocks : 0..2, time : {0, 2}]
=============================================================================
