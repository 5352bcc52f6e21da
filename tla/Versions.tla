------------------------------ MODULE Versions -------------------------------
(***************************************************************************)
(* The versions v1, v2, ... of a template, as numbers, and the queries     *)
(* over them.  The store orders versions as texts and, when asked to, cuts *)
(* the list after a number of rows (100 in the code, for base ten).        *)
(***************************************************************************)
EXTENDS Integers, Sequences, FiniteSets

CONSTANTS Base,     \* of the numbers in a version's text
          ListLimit \* TemplateFilter.Limit of the panel and of main

ASSUME VersionsAssumption == Base \in Nat \ {0, 1} /\ ListLimit \in Nat \ {0}

\* fmt.Sprintf("v%d"): the digits of n, which versionNum reads back.
Digits(n) ==
  LET d[k \in 0..n] ==
        IF k < Base THEN <<k>> ELSE Append(d[k \div Base], k % Base)
  IN  d[n]

\* The order of texts.
TextLess(s, t) ==
  \E k \in 1..Len(t) :
    /\ \A i \in 1..(k - 1) : i <= Len(s) /\ s[i] = t[i]
    /\ k > Len(s) \/ s[k] < t[k]

\* ListTemplates: ORDER BY version DESC, LIMIT limit; zero is no limit.
ListTemplates(stored, limit) ==
  {v \in stored :
     \/ limit = 0
     \/ Cardinality({w \in stored : TextLess(Digits(v), Digits(w))}) < limit}

\* The greatest number in a list of versions.
Latest(list) == CHOOSE v \in list : \A w \in list : w <= v

\* The two nextVersion functions: without a limit for the tools, with one for
\* the panel.  A list that could not be read counts as an empty one.
NextVersion(read, stored, limit) ==
  IF ~read \/ stored = {} THEN 1 ELSE Latest(ListTemplates(stored, limit)) + 1
=============================================================================
