------------------------------ MODULE AdvisoryMatch ------------------------------
(***************************************************************************)
(* How scanners/dependency.py compares versions, translates the ranges of  *)
(* the package managers and decides whether an advisory applies.           *)
(*                                                                         *)
(* A version is the sequence of its numbers, at most four, which           *)
(* prerelease it is, 0 for a release, and whether that is written after a  *)
(* hyphen: 1.2.0-rc1 or 1.2.0rc1.  A declaration is an operator and a      *)
(* version, "", "*" and "x" (1.x) among the operators; ",", "[,)" and "||" *)
(* have a second version, "to", which is a release; after ">= " and its    *)
(* like there is a space.  A range is a set of alternatives, each of them  *)
(* a set of comparators.                                                   *)
(***************************************************************************)
EXTENDS Integers, Sequences

Release(core) == [core |-> core, pre |-> 0, hyphen |-> FALSE]
NoVersion == Release(<<>>)

\* All the numbers before a hyphen: without one, rc1 is a number like the others.
Numbers(version) ==
    IF version.pre = 0 \/ version.hyphen THEN version.core ELSE Append(version.core, version.pre)

\* The place of the numeral n < 100 among strings: 1, 10, 11, ..., 19, 2, 20, ...
AmongStrings(n) == IF n < 10 THEN 11 * n ELSE 11 * (n \div 10) + 1 + (n % 10)

\* What stands after the hyphen, 0 if there is none.
Prerelease(version) == IF version.hyphen THEN AmongStrings(version.pre) ELSE 0

\* _version_tuple: four numbers, what is not written is zero.
Padded(version) == [i \in 1..4 |-> IF i <= Len(Numbers(version)) THEN Numbers(version)[i] ELSE 0]

\* _version_less_than: a prerelease comes before its release.
VersionLess(a, b) ==
    \/ \E i \in 1..4 : /\ Padded(a)[i] < Padded(b)[i]
                       /\ \A j \in 1..(i - 1) : Padded(a)[j] = Padded(b)[j]
    \/ /\ Padded(a) = Padded(b)
       /\ Prerelease(a) # 0 /\ (Prerelease(b) = 0 \/ Prerelease(a) < Prerelease(b))

VersionEqual(a, b) == ~ VersionLess(a, b) /\ ~ VersionLess(b, a)

\* An operator that is not one of the four is read as equality, "!=" included.
Holds(version, comparator) ==
    CASE comparator.op = "<" -> VersionLess(version, comparator.v)
      [] comparator.op = "<=" -> ~ VersionLess(comparator.v, version)
      [] comparator.op = ">" -> VersionLess(comparator.v, version)
      [] comparator.op = ">=" -> ~ VersionLess(version, comparator.v)
      [] OTHER -> VersionEqual(version, comparator.v)

\* _satisfies_affected_range: an empty alternative is passed over.
Satisfies(version, range) ==
    \E alternative \in range \ {{}} : \A comparator \in alternative : Holds(version, comparator)

-----------------------------------------------------------------------------
Bare(version) == [op |-> "", v |-> version]
Comparator(op, core) == [op |-> op, v |-> Release(core)]
From(version, upper) == {{[op |-> ">=", v |-> version], Comparator("<", upper)}}
FromZero == {{Comparator(">=", <<0>>)}}

\* Comparators with a space after them.
Spaced == {">= ", "<= ", "> ", "< ", "!= "}

\* _minimum_candidate: the first number in the text, without what follows it.
MinimumCandidate(spec) ==
    IF spec.op \in {"", "=", "==", "===", ">=", "<=", ">", "<", "!=", "~=", "^", "~", "~>",
                    "x", ",", "[,)", "||", "name=="} \cup Spaced
    THEN Release(spec.v.core) ELSE NoVersion

\* spec_is_pinned: a version with a prerelease is taken for a range.
spec_is_pinned(spec) == spec.op \in {"", "=", "==", "==="} /\ spec.v.pre = 0

Bump(core, i) == [SubSeq(core, 1, i) EXCEPT ![i] = @ + 1]

\* "~> 7.0" allows what is below 8.
Pessimistic(v) ==
    IF Len(v.core) < 2 THEN {} ELSE From(v, Bump(v.core, Len(v.core) - 1))

\* "^0.0.3" allows all of 0.0, which npm would not.
Caret(v) ==
    IF v.core[1] # 0 THEN From(v, Bump(v.core, 1))
    ELSE From(v, IF Len(v.core) > 1 THEN Bump(v.core, 2) ELSE <<1>>)

Tilde(v) == From(v, Bump(v.core, IF Len(v.core) >= 2 THEN 2 ELSE 1))

\* A comparator is followed by numbers and by what a dot or a hyphen sets off.
Comparable(v) == v.pre # 0 => v.hyphen

\* normalize_spec; {} if the declaration cannot be translated.
normalize_spec(spec) ==
    CASE spec.op = "*" -> FromZero
      [] spec.op = "~>" -> Pessimistic(spec.v)
      [] spec.op = "^" -> Caret(spec.v)
      [] spec.op = "~" -> Tilde(spec.v)
      [] spec.op = "x" -> From(spec.v, Bump(spec.v.core, Len(spec.v.core)))
      [] spec.op = "[,)" /\ spec.v.pre = 0 -> From(spec.v, spec.to.core)
      [] spec.op = "," /\ Comparable(spec.v) -> From(spec.v, spec.to.core)
      [] spec.op = "||" /\ Comparable(spec.v) ->
             {{[op |-> ">=", v |-> spec.v]}, {[op |-> "<", v |-> spec.to]}}
      [] spec.op \in {"", "=", "==", "!=", ">=", "<=", ">", "<"} /\ Comparable(spec.v) ->
             {{[op |-> spec.op, v |-> spec.v]}}
      [] OTHER -> {}

\* range_permits_version.
RangePermits(spec, version) ==
    IF spec.op = "none" \/ version = NoVersion \/ normalize_spec(spec) = {} THEN "cannot tell"
    ELSE IF Satisfies(version, normalize_spec(spec)) THEN "yes" ELSE "no"

-----------------------------------------------------------------------------
\* Fault: a range is enough if it admits an affected version.
AnyRange(dep, advisory) == Satisfies(dep.version, advisory.affected)

\* The decision of scan_dependencies: a range is only reported if it is sure that
\* it excludes the patched release.
Applies(dep, advisory) ==
    /\ dep.version # NoVersion
    /\ Satisfies(dep.version, advisory.affected)
    /\ \/ dep.pinned
       \/ advisory.fixed_in = NoVersion
       \/ RangePermits(dep.spec, advisory.fixed_in) = "no"
=============================================================================
