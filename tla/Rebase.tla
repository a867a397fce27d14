------------------------------- MODULE Rebase -------------------------------
(***************************************************************************)
(* The share/amount bookkeeping the markets keep totals in.                *)
(*                                                                         *)
(* A rebase is a record [elastic, base]: `elastic` tokens are owed (or     *)
(* owned) in total and `base` parts of that total were handed out.  The    *)
(* markets import RebaseLibrary from BoringSolidity, whose source is not   *)
(* in the repository; these operators are what the markets' calls to       *)
(* toBase, toElastic, add and sub compute.  Both fields are uint128: the   *)
(* casts revert above UINT128_MAX, which Fits is the guard for.            *)
(***************************************************************************)
EXTENDS Integers

CONSTANT UINT128_MAX
ASSUME UintAssumption == UINT128_MAX \in Nat

RebaseType == [elastic : 0..UINT128_MAX, base : 0..UINT128_MAX]

EmptyRebase == [elastic |-> 0, base |-> 0]

Fits(total) == total.elastic <= UINT128_MAX /\ total.base <= UINT128_MAX

CeilDiv(a, b) == IF a % b = 0 THEN a \div b ELSE (a \div b) + 1

(* Division as Solidity rounds it, or rounded up where the caller asks. *)
RoundedDiv(a, b, roundUp) == IF roundUp THEN CeilDiv(a, b) ELSE a \div b

ToBase(total, elastic, roundUp) ==
  IF total.elastic = 0 THEN elastic
  ELSE RoundedDiv(elastic * total.base, total.elastic, roundUp)

ToElastic(total, base, roundUp) ==
  IF total.base = 0 THEN base
  ELSE RoundedDiv(base * total.elastic, total.base, roundUp)

(* Take in `elastic` tokens against the parts they are worth. *)
Add(total, elastic, base) ==
  [elastic |-> total.elastic + elastic, base |-> total.base + base]

(* Release `base` parts and the tokens that go with them. *)
Sub(total, elastic, base) ==
  [elastic |-> total.elastic - elastic, base |-> total.base - base]

(* A debt total in which no part is worth less than one token.  Debt parts *)
(* start at one token each and only gain value, so totals stay this way.   *)
Covered(total) == total.base <= total.elastic

=============================================================================
