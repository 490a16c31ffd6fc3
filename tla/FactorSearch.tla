---------------------------- MODULE FactorSearch ----------------------------
(***************************************************************************)
(* topics/concurrency/parallel_math: main2.cpp's threads put their results *)
(* into shared maps under a mutex, main.cpp's hand them to main through    *)
(* futures.  Both have a phase for the factors of every argument and, when *)
(* all of it is done, one for the common factors of every pair.            *)
(***************************************************************************)
EXTENDS Naturals, Sequences, SequencesExt, FiniteSetsExt

CONSTANTS Numbers, MaxArgs     \* MaxArgs: the length of the command line

VARIABLES args,
          async,         \* main.cpp, not main2.cpp
          computed,      \* the workers of this phase whose computation is over
          collected,     \* those whose result is in the map
          factors, common_factors,
          phase

vars == <<args, async, computed, collected, factors, common_factors, phase>>
Maps == [x \in {} |-> <<>>]

\* get_factors: trial division from i on
Factors[num \in Nat, i \in Nat] ==
  IF i > num THEN <<>>
  ELSE IF num % i = 0 THEN <<i>> \o Factors[num \div i, i] ELSE Factors[num, i + 1]
get_factors(num) == Factors[num, 2]

\* get_common_factors: every element of list1 takes an equal one out of the copy of list2
TakeOutKept(acc, elem) ==
  IF \E k \in DOMAIN acc.left : acc.left[k] = elem
  THEN [acc EXCEPT !.factors = Append(@, elem)] ELSE acc
TakeOut(acc, elem) ==
  IF \E k \in DOMAIN acc.left : acc.left[k] = elem
  THEN [left |-> RemoveAt(acc.left, SelectInSeq(acc.left, LAMBDA x : x = elem)),
        factors |-> Append(acc.factors, elem)]
  ELSE acc
get_common_factors(list1, list2) ==
  FoldLeft(TakeOut, [left |-> list2, factors |-> <<>>], list1).factors

\* the pairs with val1 > val2, numbered in the order of the two loops
PairAt(k) == <<args[((k - 1) \div Len(args)) + 1], args[((k - 1) % Len(args)) + 1]>>
Pairs ==
  [k \in {k \in 1..Len(args) * Len(args) : PairAt(k)[1] > PairAt(k)[2]} |-> PairAt(k)]
Jobs == IF phase = "factors" THEN args ELSE Pairs
With(map, key, value) == [x \in DOMAIN map \cup {key} |-> IF x = key THEN value ELSE map[x]]

Init ==
  /\ args \in [1..MaxArgs -> Numbers] /\ async \in BOOLEAN
  /\ phase = "factors" /\ computed = {} /\ collected = {}
  /\ factors = Maps /\ common_factors = Maps

\* a worker thread's computation, which reads factors in the second phase
Compute(w) ==
  /\ w \in DOMAIN Jobs \ computed /\ computed' = computed \cup {w}
  /\ UNCHANGED <<args, async, collected, factors, common_factors, phase>>

\* the result goes into the map: under the mutex in any order, or by main in the order of the futures
Collect(w) ==
  /\ w \in computed \ collected
  /\ async => {v \in DOMAIN Jobs : v < w} \subseteq collected
  /\ collected' = collected \cup {w}
  /\ \/ /\ phase = "factors"
        /\ factors' = With(factors, Jobs[w], get_factors(Jobs[w])) /\ UNCHANGED common_factors
     \/ /\ phase = "common"
        /\ common_factors' = With(common_factors, Jobs[w],
             get_common_factors(factors[Jobs[w][1]], factors[Jobs[w][2]]))
        /\ UNCHANGED factors
  /\ UNCHANGED <<args, async, computed, phase>>

\* every thread is joined, every future is read
Join ==
  /\ phase # "printed" /\ collected = DOMAIN Jobs
  /\ phase' = (IF phase = "factors" THEN "common" ELSE "printed")
  /\ computed' = {} /\ collected' = {}
  /\ UNCHANGED <<args, async, factors, common_factors>>

Next == (\E w \in DOMAIN Jobs : phase # "printed" /\ (Compute(w) \/ Collect(w))) \/ Join

----------------------------------------------------------------------------
Product(s) == FoldLeft(LAMBDA x, y : x * y, 1, s)
Divisors(a) == {d \in 1..a : a % d = 0}

(* There is a line for every pair of different arguments, and factors.at   *)
(* finds both lists, whatever order the threads finish in and even if an   *)
(* argument is given twice.                                                *)
FindsEveryPair ==
  /\ phase # "factors" => DOMAIN factors = ToSet(args)
  /\ phase = "printed" =>
       DOMAIN common_factors = {p \in ToSet(args) \X ToSet(args) : p[1] > p[2]}

(* The line printed for a pair multiplies up to the greatest common        *)
(* divisor.                                                                *)
PrintsGcds ==
  /\ FindsEveryPair
  /\ phase = "printed" =>
       \A p \in DOMAIN common_factors :
         Product(common_factors[p]) = Max(Divisors(p[1]) \cap Divisors(p[2]))
=============================================================================
